---------------------------- MODULE MCInventory ----------------------------
(* Instances of Inventory for TLC. *)
EXTENDS Inventory, TLC

Interchangeable ==
    Permutations(Categories) \cup Permutations(Skus) \cup Permutations(Values)
    \cup Permutations(Requests)

Env(ops, events, load, stock, vary) ==
    [ops |-> ops, events |-> events, load |-> load, stock |-> stock, vary |-> vary]

ProductOps == {"create", "update", "delete"}
CategoryOps == {"createcat", "updatecat", "delcat"}
AccountChanges == {"signin", "register", "updateme", "createuser", "setuser", "deluser"}

Failing == {"badinput", "db", "commit"}

\* Products and categories: one request at a time with everything that fails,
\* two products that draw SKUs, two requests at a time.
CatalogueDays == {
    Env(ProductOps \cup CategoryOps, Failing, 1, 1, {"category", "date"}),
    Env(ProductOps, Failing, 1, 3, {}),
    Env({"create", "update"} \cup CategoryOps, {}, 2, 2, {"category"}),
    Env(ProductOps, {}, 2, 2, {"date"}) }

\* Contacts and their product: with deletions, without, one request at a time.
ContactDays == {
    Env(ProductOps \cup {"putcontact", "delcontact"}, Failing, 2, 1, {}),
    Env(ProductOps \cup {"putcontact"}, Failing, 2, 1, {}),
    Env({"create", "update", "putcontact"}, Failing, 1, 1, {}),
    Env({"create", "putcontact", "delcontact"}, Failing, 1, 2, {}) }

\* Lists and statistics: by date one request at a time, while products come
\* and are updated, while they also go.
ReadingDays == {
    Env({"create", "list"}, {}, 1, 3, {"date"}),
    Env({"create", "list"}, {"db"}, 2, 3, {}),
    Env({"create", "update", "list"}, {}, 2, 2, {}),
    Env({"create", "delete", "list"}, {}, 2, 2, {}),
    Env(ProductOps \cup {"stats", "createcat", "delcat", "createuser", "deluser"}, {}, 1, 1,
        {"status"}),
    Env({"create", "update", "stats"}, {"db"}, 2, 2, {"status"}) }

\* Accounts and roles: one request at a time with every role and everything that
\* fails, two at a time, and products deleted by several users.
AccessDays == {
    Env(AccountChanges, Failing \cup {"expire"}, 1, 0, {"role"}),
    Env(AccountChanges \ {"createuser"}, {"expire"}, 2, 0, {}),
    Env(ProductOps \cup {"signin", "createuser"}, {}, 2, 2, {}),
    Env(ProductOps \cup {"signin", "createuser", "deluser"}, {}, 1, 2, {}) }

Everyday == CatalogueDays \cup ContactDays \cup ReadingDays \cup AccessDays

ManagersDelete == { Env({"create", "delete", "signin", "createuser"}, {}, 1, 1, {}) }
ContactComesBack == { Env({"create", "putcontact", "delcontact"}, {}, 1, 1, {}) }
=============================================================================
