# Verification of inventory-back

`inventory-back` is the HTTP API of an inventory of products under repair: a Go
process (gin, GORM) over a PostgreSQL database and a MinIO bucket. This
directory holds TLA+ modules of the parts of it where the order of steps
matters, TLC configurations that check them on small instances, and theorems
about them that TLAPS checks for every value of the constants.

## The system

| Component | State | Operations | Speaks to |
|---|---|---|---|
| Product images: `handlers/product_handler.go`, `repository/product_repository.go`, `services/minio_service.go` | rows of `products` and `product_images`, objects in the bucket, a service that may be nil | create, get, update, delete, upload cover, add and delete gallery image | database and bucket, call by call, with no common transaction |
| Accounts and sessions: `services/auth_service.go`, `handlers/auth_handler.go`, `handlers/user_handler.go`, their repositories | rows of `users` and `refresh_tokens`, the tokens clients hold | register, login, demo, refresh, logout, logout-all, update-me, admin create, update, delete, purge | database; a purge goroutine beside the requests |
| Access tokens and roles: `middleware/auth_middleware.go`, the route groups of `main.go` | none on the server: the token carries user and role | check, require role | every handler behind it; sessions, which issue the tokens |
| Rate limiter: `middleware/rate_limiter.go` | a map of windows under one mutex, each window under its own | get, allow, cleanup | every request; a goroutine on a ticker |
| Catalogue: `handlers/product_handler.go`, `models/product.go` | rows of `products` (SKU, category, dates, status, creator) and `categories` | create, update, delete of both; the SKU drawn before an insertion | each other: a product's body may name a category, a product is loaded and saved with its category and contact |
| Contacts: `handlers/contact_handler.go` | rows of `contacts`, one per product for ever | get, upsert, delete | products (looked up before an upsert) |
| Product list, statistics: `repository/product_repository.go`, `handlers/stats_handler.go` | none | count and page; three counts | products, categories, users |
| Server life: `cmd/server/main.go`, `config`, `database`, `NewMinIOService`, `handlers/health_handler.go` | process, tables, bucket, seeded users | load, connect, migrate, find the bucket, seed, purge, listen, probe, shut down | everything; other replicas over the same database and bucket |
| Swagger, logging, request ids, CORS, date parsing | none | | |

Every request runs on a goroutine of its own and makes several calls to the
database, which never share a transaction. So the hard behaviours are those
between two calls of one handler: another request's write, a failure of one
store after the other was changed, a crash, a row written back as it was read
some calls ago. What makes each part correct:

- images: what a client can reach is stored, what is stored can be reached, no
  object belongs to two rows, what goes wrong with one product harms no other, what
  was deleted stays deleted;
- sessions: a token is used once, a session that was ended stays ended, an
  account that was disabled is enabled again only on purpose;
- roles: a role that was taken away comes back only when somebody asks for it,
  and only those who may delete a product delete it;
- limiter: no more than the limit, no refusal below it, no window forgotten while
  it still counts and none kept after;
- catalogue: what a row refers to is there, an update changes what its body names
  and nothing else, a SKU that is drawn can be inserted, deleted categories and
  contacts do not come back by saving the product they were loaded with;
- contacts: the response is what a Get finds;
- reads: the pages of a list cover it, the figures of a response agree;
- server: it gets to serve, not before an administrator has been seeded, it ends when
  told to, and dead refresh tokens are purged.

`PROJECT.json` lists the hazards one by one with the line where each bites and
the properties that would notice it.

## The modules

| Module | Extends | Models |
|---|---|---|
| `ProductImages` | | products and galleries over both stores |
| `Sessions`, `SessionLifecycle` | | accounts and refresh tokens; what they implement |
| `RateLimiter` | | one limiter |
| `Traffic` | | request slots, access tokens, `RequireRole` |
| `Access` | `Traffic` | accounts and their roles |
| `Catalogue` | `Traffic` | products, categories, SKUs |
| `Contacts` | `Catalogue` | contacts |
| `Listing` | `Access`, `Catalogue` | the product list and the statistics |
| `Inventory` | `Contacts`, `Listing` | the composition of the five above |
| `Server` | | processes over one database and one bucket |

`ProductImages` is the two-store part of products. A product row keeps its
status (absent, live, or soft deleted) and `image_key`; a gallery row is named
after its object's key. A request slot walks through its handler: `find` and
`preload` (the two queries of `FindByID`), `remove` (one `RemoveObject` per
key), `put`, `save`, `rollback`, `dbdelete`, `present` (the URLs of the
response). Every one of these steps is an action, with its early returns, and
slots interleave. The rest of a row, the file, and the request body are
abstracted to "accepted or refused". `storage` is FALSE when MinIO was
unreachable at boot: `main` passes a nil `*MinIOService`, which
`NewProductHandler` stores in an interface, so that the handlers' comparisons
with nil are always true and a method call panics; `gin.Recovery` makes it a 500.
Listing products is the same as getting them, for what is modelled here.

`Sessions` is accounts and tokens. A user row keeps status and `active`; a
token row keeps its state (live, revoked, purged), its user, whether it has
expired, whether the client was given it, and, as history, the login its session
began with. `access` is the set of users who hold an unexpired access token:
nothing the server does takes one back. A slot walks through `AuthService`:
`findtoken`, `finduser`, `revoke`, `issue`, `deliver`, and the writes of the
user handlers. `ended` remembers the sessions each LogoutAll was meant to end.

`SessionLifecycle` is what a session is to its user: opened once, owned by one
user, closed for ever. `Sessions` implements it under the mapping defined just
before `LifecycleImplemented`: a session is open while one of its tokens is valid
or an exchange that found one valid is still under way.

`RateLimiter` is one `ipLimiter` (there is one for the API and one each for
login and demo). `get` under the map's mutex, the clock reading at the start of `allow`,
and `allow` under the window's mutex are separate actions. The cleanup holds the
map's mutex over its whole loop (requests in `get` wait) and looks at each window
in an action of its own. `Lag` is the longest time between the clock reading and
the window's lock.

`Inventory` is the rest of the API. `Traffic` has what its handlers share: the
slots for requests in flight, `held`, the access tokens clients have, and
`Callers(op)`, the ones `AuthRequired` and `RequireRole` let through to a route. A
slot is a record whose fields are those of its handler; `ArriveX` starts one,
and each query of the handler is an action guarded by the slot's `pc`.

- `Access` keeps the role of an account beside that of every token in `held`.
  `FindAccount` reads the role, `SaveAccount` and `Deliver` write what was read, so
  that a token or a row may carry a role the account has lost.
- `Catalogue`: `FindProduct` and `Preload` are the queries of `FindByID`.
  `SaveProduct` writes `Relinked(Edited(row, body), linked)`: the row in memory with
  what the body names (`ParseDateField` for the dates: absent, null, given), and then the
  foreign key of the category that was loaded with it, which GORM saves first.
  Category and contact are inserted only where there is no row at all
  (`InsertedUnlessThere`). `DrawSku` is one pass of `BeforeCreate`'s loop, which counts the
  live rows with a SKU; `InsertProduct` meets the unique index, which
  covers deleted rows too (`SkuTaken`). The product's id serves as the fallback SKU.
- `Contacts`: `FindOwner`, `Upsert` (`ON CONFLICT` over the one row a product ever
  has), `ReadBack`, and `Answer`, the moment the response is sent.
- `Listing`: `CountProducts` and `ReadPage` are the two queries of a page; `FindAll` does not
  look at the first one's error, but it stays in the `*gorm.DB` and the second returns it,
  so either failing is a 500 (`ListFails`). `walk` is a
  client that asks for one page after the other until one is empty, and what it
  has seen; writes of others that happen meanwhile are recorded in `walk.calm`
  (`Noticed` in `Inventory`). `StatsProducts`, `StatsCategories` and `StatsUsers` are the
  three statements of the statistics.

`Server` is `main` from its first line to its return, in several processes that share
`schema` (the tables there are), `account`, `bucket` and `dead` (whether
`refresh_tokens` has rows to purge). One action per call that reads or changes what is
shared: `LoadConfig`, `Connect` (one attempt), `FindTable` and `CreateTable` (AutoMigrate asks
and then creates), `CheckBucket` and `MakeBucket`, `CountUsers` and `CreateAdmin`, `FindDemo`
and `CreateDemo`, `Launch`, `Notify`. The listener's goroutine (`Listen`), the purge's (`Tick`,
`Purge`), probes, requests (`Accept`, `Finish`), signals, `Shutdown`, its 15 seconds
(`Deadline`) and `Return` interleave with them. A process that ends loses its
memory, its ticker's progress included, and may be started again (`Boot`).

`account` has the rows of the two seeded users and of a client: none, one with the
role of an administrator or another, or a soft-deleted one, whose unique username
stays taken (`Seed` then fails). Clients register. Where `"manage"` is among the events,
administrators change, delete and bring back any row (`Manage`: `PUT` and `DELETE
/users/:id`, neither of which asks whether it is the last administrator's); an access token
outlives the role, so the rows do not tell who may. They may also rename a seeded
user, so that `Seed` finds the name free again (`Renamed`).

GORM is modelled from how the repositories use it. `First` and `Preload` see rows
without `deleted_at`. `Delete` sets it. `Save` writes all columns of the row in
memory; if the row was soft deleted since it was read, the `UPDATE` matches nothing and
`Save` inserts the row again, `ON CONFLICT` updating every column, `deleted_at`
included. In that insertion an `active` of false becomes the column default,
true. Rows of a gallery loaded with a product are touched by its `Save` in
nothing the model keeps.

In every module a definition placed before another one and named after it with a
suffix is a plausible slip in the same code (`FoundUnscoped` for `Found`); the
mutants of `PROJECT.json` put it in the other's place, and the property it belongs
to then fails.

### Environments

What surrounds the server is part of the state: `env`, chosen once from the
constant `Environments`. It names the operations clients issue (`Ops`), the
failures that may happen (`Events`), how many requests may overlap (`load`), for
images how many uploads are tried, for the inventory how many products are created
(`stock`) and which columns bodies set (`vary`), for the server which replicas there
are and what their configuration holds. Actions read it, nothing changes it, and
the theorems hold for every set of environments. A property that some failure or
overlap breaks says in its premise where it holds (`Serial`, `NoSaves`, `Quiet`, or a
condition on `Ops` or `Events`); one without a premise survives everything the model
knows. The MC modules list the environments of a run, so that one run covers them
all and each premise is met by at least one of them.

## What the runs check

| Run | Instance | Shows |
|---|---|---|
| `Images` | 2 products, 3 keys, 2 slots, 7 environments (1,047,144 states, a minute) | where no environment matters: key ownership, pending uploads, removals confined to the product they are for, finality of gallery deletions. In the premises' environments: no orphaned object, no dangling key, galleries intact, positions gap-free, deleted products stay deleted |
| `Sessions` | 3 tokens, 1 user, 2 slots, 3 environments | always: revocation is permanent, sessions implement `SessionLifecycle`, who is locked out stays out. One at a time: rotation, LogoutAll, deliberate activation. Without failures and logouts: no session is lost |
| `LimiterWindows` | 4 requests, 2 addresses, limit 2, window 2, lag 1, time up to 4 | limit, justified refusals, used windows kept |
| `Inventory` | 3 products, 2 categories, 2 users, 2 slots, 18 environments (582,829 states, under 3 minutes) | always: deletions are authorised and a product keeps its creator, a role that is lost is lost, deleted contacts and categories do not come back by saving a product, the product figures agree. One at a time: references are checked, updates follow their body, roles change on purpose, all figures are the tables'. In the premises' environments: SKUs can be inserted, contacts stay, walks miss nothing and are exact |
| `Server` | 2 replicas, 8 environments, fairness (101,513 states, a minute) | nobody is served before an administrator is seeded, and none is lost but by administrators; replicas that boot together get to serve, without MinIO too; what is told to stop ends; dead tokens are purged |

The environments of `Images`: (1) one request at a time, refused inputs, failing
database calls, ambiguous commits, failing uploads, boots without MinIO; (2) one
at a time, removals that fail; (3) one at a time, galleries that only grow; (4)
two at a time, nothing that Saves a product row, a bucket that fails; (5) two at
a time, no product deleted, a bucket that fails; (6) two at a time, nothing
deleted, failing database calls and restarts but no ambiguous commit; (7) two at
a time, everything. Those of `Sessions`: (1) one at a time, everything; (2) two
at a time with logouts, failures, restarts and expiry; (3) two at a time with
demo sign-ins and accounts that are changed, disabled and deleted under them.

Those of `Inventory` come in four groups. `CatalogueDays`: products and categories one
at a time with everything that fails; products that share one SKU; two at a
time. `ContactDays`: contacts of products that are deleted, that are not, one at a
time, and deleted contacts. `ReadingDays`: lists by date one at a time, lists beside
creations, updates and deletions, statistics alone and beside writes. `AccessDays`:
accounts with every role and everything that fails, two requests at a time, and
products deleted by several users. Those of `Server`: two replicas that boot
together, beside a MinIO that comes and goes, killed at any step, with administrators
at work; one with administrators at work that is killed, one with outages and
ambiguous answers of the database, one with outages of both stores, signals and a port
that is taken, one without its secret.

The runs that end in a violation are disagreements between code and documentation:

| Run | The code | The text |
|---|---|---|
| `FindResurrect` | an update in flight undoes a product's deletion | openapi, "Product deleted" |
| `FindTwoTokens` | two exchanges of one token both succeed | comment of `Refresh`, "rotation" |
| `FindLimitPassed` | the cleanup takes a window a request already holds | comment of `GlobalRateLimiter` |
| `FindStaleKept` | a window used once is never cleaned up | "Periodic cleanup of stale entries" |
| `FindContact` | an upsert of a contact that was deleted answers 200 with a contact no Get finds | comment in `Upsert`, "Return the persisted record" |
| `FindDelete` | a manager deletes a product of their own | openapi, "Requires admin role."; the README's role diagram (`docs/DIAGRAMS.md` agrees with the code) |
| `FindHealth` | the readiness probe answers 200 without MinIO | openapi, "All dependencies healthy" |

### Known limits

What the models show to be false, and why the premises above are there. A premise in
brackets is the one to drop to see it.

Images and sessions:

- An exchange in flight that has revoked its old token stores the new one after
  a `LogoutAll`: the session survives it (`LogoutAllFinal` without `Serial`).
- `UpdateMe` saves the user it read. A deletion or deactivation in between is
  undone, and a row that is inserted again comes back enabled
  (`ActivationDeliberate` without `Serial`); so does a role an administrator has
  changed (`RoleDeliberate` without `Serial`).
- The position of a gallery image is the number of images it was loaded with:
  after a deletion, or with two additions at once, positions repeat and a new image
  need not be the last (`GalleryAppends` without its premise).
- Two covers uploaded at once leave the loser's object in the bucket; so do a crash
  and a failed removal (`NoOrphan`). An update that saves the cover it read while
  an upload replaces it leaves the row with a removed object; so does a `Delete`
  whose database call fails (`NoDangling`).
- A failed upload loses the cover it was to replace: `UploadImage` removes the old object
  first, and where the new one cannot be stored or recorded the row keeps the key of an
  object that is gone (`NoDangling` with `"put"` or `"db"` among the events and `"upload"` among the
  operations). The comment at `product_handler.go:448` speaks of a rollback; it
  concerns the new object only.
- That rollback removes the new object even where the write took effect and was
  reported as failed; the row then refers to an object that is gone. What
  `RemovalsContained` says is that in both cases no other row is affected.
- A server that booted without MinIO answers 500 to every upload, where openapi
  describes a 503, and to every read of a product that has an image: the handlers
  compare an interface that holds a nil `*MinIOService` with nil, and the call panics
  (`Panics`).

Catalogue, contacts and reads:

- An update that names another category has no effect on the category of a
  product that was loaded with a live one: `Save` saves the association that was
  loaded and takes the foreign key from it again (`Relinked`). It does take effect
  where the product had no category or a deleted one.
- Deleting a category does not look at its products, which go on referring to it;
  and a product that is created or saved while the category it names is deleted
  refers to a deleted category (`ReferencesChecked` without `Serial`).
- A contact is written for a product that is deleted after the look at it, and the
  contact of a product that is deleted stays (`ReferencesChecked` without `Serial`).
- An update of a category that is deleted between its look and its `Save` brings it
  back (the first conjunct of `CategoryReturnsByUpdate`).
- `BeforeCreate` does not see deleted rows, the unique index does: a SKU drawn
  again after its product was deleted makes the creation fail, and so do two
  creations that draw the same one (`SkuUnique` without its premise).
- Pages are offsets: a product that is deleted, or moves in the order, between two
  pages lets another one be skipped, and products with equal dates may be listed in
  another order each time (`WalkMissesNothing`, `CalmWalkExact`). Products that are added
  at the head of the list make others appear twice.

Server:

- If the query of `seedAdmin` fails, or the insertion after it, the boot goes on
  without an administrator; once a client has registered, `CountUsers` is no longer 0
  and no boot seeds one (`ServingHasAdmin` without its premise).
- `DELETE` and `PUT /users/:id` do not ask whether the account is the last administrator's, or
  the caller's own. The last one, once deleted or demoted, comes back only by a request with
  an administrator's token that has not expired, hardly by a boot: one that finds other
  users seeds none, one that finds none fails on the username of the soft-deleted
  row, unless the account had been renamed. Hence the second part of
  `AdminSeeded`, which asks for an administrator only where none is at work.
- Two replicas that find no bucket both make it. The one that comes second goes on
  without storage until it is started again. Neither that nor a MinIO that is down shows in
  the status of the readiness probe, only in its body (`FindHealth`).
- A signal that arrives before `Notify` ends the process at once, seeding or not.
- The 24 hours of the purge start over with the process: one that is always
  restarted before they are over never purges, hence the premise of `TokensPurged`
  that one server stays up.

### Bounds

- `Requests`: two slots. The races of this code are between
  two requests; a slot is used again and again, so the number of requests is not
  bounded by it. `load` 1 leaves one of them unused.
- `Keys`, `Tokens`: one per upload, login or exchange, so they bound a run's
  length. Three keys (one request at a time) allow a cover that is replaced
  beside a gallery; two (`uploads` 2, two at a time) allow two covers that race, or a
  cover and a gallery image. Three tokens allow a login and two exchanges. A token or key is
  picked when its request arrives, so that no request starts without one.
- `Products` in `Images`: two, where one product could harm another. `Users` in `Sessions`:
  one. Tokens and accounts of different users do not meet in any action but the
  conflict of a name.
- `Inventory`: three products where pages or SKUs matter (`stock` 1 to 3), `PageSize` 1, so
  that a list has up to three pages and one beyond; two categories, one to come
  from and one to go to; two users, the administrator and one whose role changes;
  one SKU, so that the second product meets it; `Attempts` 2 instead of 10, enough
  for a draw that is repeated and one that is given up; two dates, which may be
  equal, and null. `vary` confines each column that bodies set to the
  environments where it matters.
- `Server`: two replicas; `MaxRetries` 2 instead of 5 and `Tables` 2 instead of 6, so that
  there is a first, a last and something between; `MaxLoad` 1, since requests of
  one server do not meet in what is kept.
- `LimiterWindows`: `MaxHits` 2 with three or more requests of an address goes beyond the
  limit; `MaxTime` is two windows, so attempts expire and the cleanup runs.
- Nothing else is capped: rows are bounded by the constants above.

Values of `Products` (in `Images`), `Keys`, `Tokens`, `Users` (in `Sessions`), `Requests`, `IPs`,
`Categories`, `Skus` and `Values` are interchangeable in every action and property, so the
safety runs declare them symmetric. In `Inventory` products are numbered, their order
being that of `created_at`, and one user is the administrator, so these are not.
`Server` checks liveness and declares no symmetry. Deadlock is checked except in the
limiter's runs: their requests are served once each and the clock stops, so those
runs do end.

### Fairness

Only `Server` has liveness properties. Its `FairSpec` assumes weak fairness, per server, of
`Main` (each step of the main goroutine that waits for nothing outside), `Listen`, `Tick`, `Purge`
and `Deadline`: goroutines and timers of one process, which the Go scheduler
and the runtime's timers run. It assumes the same of `Boot`: whoever runs the server starts it again, as Kubernetes does
with the two replicas of `k8s/deployment.yaml`. `Calm` says that such a step is not an outage.
Nothing is assumed of `Accept`, `Finish` and `Probe` (a request may
never end), nor of signals and outages; where a property needs a database that
comes back for good, its premise says so.

## What is proved

Every theorem is in one of eight `_proofs` modules and holds for any values of
the constants that satisfy the modules' assumptions: absent values (`NoKey`, `NoUser`,
`NoToken`, `NoWindow`, ...) differ from present ones; limits, page size and attempts are
positive; keys, request slots, products, categories and users are as many as one
likes but finitely many, since the code counts some of them and `load` bounds the
requests under way; and no SKU that is drawn (`REP-` and six characters) is one made of a product's
id (`REP-` and eight), which `Skus \cap Products = {}` says of the model's.

- **Images** (`ProductImages_proofs`). `TypeCorrect`, `KeysOwned`, `PendingUploadsSafe` and
  `ImageDeletionsFinal`. Key ownership is not inductive: it depends on
  what requests *remember*.
  The invariant is `TypeOK /\ Shape /\ Ownership`. `Shape` ties a slot's fields
  to its program counter. `Ownership` says, of the keys rows refer to and of those
  requests hold or have read: all of them were minted; no two requests hold the same new key; a
  held key is known to nobody else, and is in the bucket until its row is
  written; a key that a product row or a request carries as a cover is that of one product
  and no gallery image. Each kind of step (reply, move, removal, write) has a lemma that says what of
  `Ownership` it can disturb; the theorem applies the right one to each action.
- **Sessions** (`Sessions_proofs`). `TypeCorrect`, `RevocationsPermanent`, `LockoutsHold`. The
  invariant is `TypeOK /\ Shape`: rows that are not there carry nothing, no two requests
  are about to issue the same token and that token has no row yet, and a
  request has the user and the token its program counter needs. `LockoutsHold` is then
  a case analysis: only `Deliver` gives out access, and it is preceded by a look
  at the account.
- **The history of sessions** (`Sessions_history_proofs`). `LifecycleHolds` is the refinement: every
  step of `Sessions` opens one session, closes some, or is a stutter of
  `SessionLifecycle`. A session that is closed must not come back, although an exchange
  in flight may yet store a token of it; so the mapping keeps a session open while
  such an exchange is under way, and the invariant `History` says that every stored token
  descends from a stored token of the same user that opened its session
  (`Descent`), and that an exchange works for the owner of the token it found (`Errands`).
  `SessionsKeptAlways` needs `CarriedOn`: among the exchanges of a session there is always
  a valid token or one exchange that has only to store the next. `RotationHolds`,
  `LogoutsFinal` and `ActivationsDeliberate` hold one request at a time, by `Settled`: the token that
  a lone exchange found is its session's only valid one until it revokes it, the
  session has not been ended since, and the user about to be saved is as it was read.
- **The two stores** (`ProductImages_stores_proofs`). On top of `Ownership`, `Base` says what each
  request is about (`AllErrands`), that a gallery row's product exists (`ImageRows`), and what does
  not happen where no client asks for it (`NotAsked`).
  `RemovalsAreContained` needs neither a premise nor that requests be alone, but an invariant of what is about
  to be removed (`Targets`): the images a `DeleteImage` found are its product's, and the key of
  an upload whose write failed, though that write may have taken effect and others may have read
  and saved the row since, is known for nothing but what the upload was for (`OwnUpload`).
  `DeletionsLast` and the cover's part of `NothingDangles` need `Settled`: a lone request holds the
  row as it is in the table. `GalleriesIntact` and the gallery's part of `NothingDangles` hold while requests overlap:
  a live gallery row whose object is gone is one that some request is
  on its way to delete (`GalleryKept`). `NothingOrphaned` follows the
  objects instead (`Accounted`): each is reachable or about to be recorded or rolled back by
  the request that put it, and a handler that goes on to forget keys has removed
  them (`Cleared`). `GalleriesAppend`: a lone request inserts at the
  number of images it has read, which is still how many there are, so `0..n-1` becomes `0..n`.
- **Limiter** (`RateLimiter_proofs`). `TypeCorrect`, `WindowsBounded`, `UsedWindowsKept`, `DenialsJustified`. Requests
  are not admitted in the order of their time stamps, so a bound on `attempts` alone is
  not enough. The invariant adds: a window's attempts are at most `MaxHits` and
  finite (`Bounded`); a request waiting for the lock has a time stamp at most `Lag` old, and
  a decided one was decided within `Lag` of it (`Prompt`); a request admitted in the last `Window - Lag` ticks is still
  remembered by its window (`Remembered`). The admitted requests of the recent
  past are then a subset of a set of at most `MaxHits`. For refusals the window must also
  be the requester's own and remember nothing but requests it let through
  (`Attributed`), which is what keeps a refusal from being another address's fault.
- **Server** (`Server_proofs`). `TypeCorrect` (with `Migrating`: a server creates no table
  beyond the last) and `AdminServed`. That an administrator is there before
  somebody is served depends on what other servers and clients put into the table; the invariant
  `AdminFirst` says that whatever accounts there are include the seeded administrator's, that a
  server past `seedAdmin` knows of one, and that only such a server listens or has
  requests. It holds for any number of servers, killed anywhere. Where administrators change
  accounts it says that one was seeded; where they do not, that it still is one.
- **Inventory, whatever overlaps** (`Inventory_proofs`). `TypeCorrect` (with `RolesThere`: a
  row that is there, and a request about to write one, has a role), `DeletedContactsStay`,
  `DemotionsHold`, `DeletionsAuthorised`, `WalksMissNothing` and `CalmWalksExact`.
  `DeletionsAuthorised` needs `ProductsInHand`: what a request
  holds of a product has the creator that the row has, although others have saved it
  since; a deletion that got past its check is one its caller may make; and no two
  creations are about the same row. The two about walks rest on one lemma: where no two
  products compare equal, a page is the set of products whose `Rank` (how many
  products come before it) lies between its offset and the next page's (`PageRanks`). It is shown
  from the cardinality of what comes before a product in a sorted list, not
  by induction over it. While products are only added ranks only grow, so a product that has not been listed
  is still to come (`NoneMissed`); while none is written, what has been listed is
  what ranks below the next page's offset, each once (`Exact`).
- **Inventory, one request at a time** (`Inventory_serial_proofs`). `DeletedCategoriesStay`,
  `UpsertsKeptAlways`, `ReferencesLive`, `UpdatesFollowBody`, `RolesDeliberate`, `FiguresAgreeAlways`,
  `SkusUnique`.
  None follows from the tables alone: each speaks of what a request has in memory. The
  invariant `IInv` adds to the above that a lone request is alone (`Alone`) and
  that what it has read is what is in the tables (`Settled`, by kind of handler: `FreshProduct`,
  `FreshCategory`, ...); `CategoriesInHand` and `ContactsThere` are the parts that do not depend on
  being alone. A step is then of one request of one kind, and the lemmas `ProductFresh`, `CategoryFresh`, ...
  say that it keeps what it read true or replies.
  `SkusUnique` adds `SkusFree`: while nothing is deleted, each row's SKU was drawn or is
  made of its own id, and what `DrawSku` finds free is still free at the insertion.

Only model-checked: `EventuallyServing`, `StopTerminates` and `TokensPurged`, the liveness
properties of `Server`. TLAPS does not reason about fairness or ENABLED, so they stay so.
Every other property of a passing run is a theorem. Recursive operators are avoided
throughout, and nothing is proved by induction over data.

## What is not modelled

- Passwords, names, e-mail addresses and the product columns without a rule of their own:
  data the properties do not tell apart. An input is accepted or refused
  (`"badinput"`), a name conflicts or does not. In `Sessions` an administrator's update is one
  that sets `active`, in `Access` one that sets the role.
- List filters (the same `WHERE` in both queries), the parsing of `page` and
  `page_size`, and the figures for active and paid products, which the statement of the
  other product figures reads.
- `UpdateLastLogin`, a single-column update without effect on what is kept.
- Text, logging, headers, request ids, CORS, Swagger, signatures of tokens, MIME sniffing: no state
  that outlives a call.
- The two compatibility statements after `AutoMigrate`, whose failure is only
  logged; the settings of the connection pool; configuration other than the secret's
  length and the demo password; deployment files and SQL migrations.
- In `Images`, `Sessions` and `Inventory`, `Server`'s life of a process is reduced to
  `Restart` where there is one: the worst case of a shutdown, requests in flight being lost.

## Plan

Done: every component that keeps state has a module, every module but
`SessionLifecycle`, which is an abstract specification, has theorems, and every
safety and action property the runs check is one of them. Left:

1. `Sessions` and `Access` composed over one `users` table: an account's `active`
   flag and its role are saved together.
2. An abstract specification of the rate limiter (at most so many requests let through in any window)
   that `RateLimiter` implements, as `Sessions` does `SessionLifecycle`.
3. What leads up to the liveness properties: the invariants of `Server` that say which
   step of a server is enabled when it does not serve yet or has not stopped yet.
