------------------------------ MODULE Contacts ------------------------------
(***************************************************************************)
(* The contact of a product: internal/handlers/contact_handler.go over     *)
(* internal/repository/contact_repository.go.  There is one row per        *)
(* product, for ever: deleting it sets deleted_at, and the unique index on *)
(* product_id still covers it.                                             *)
(***************************************************************************)
EXTENDS Catalogue

ContactOps == {"putcontact", "delcontact"}

\* val: what the body says; said: what the response says.
ContactRequest ==
    [op : ContactOps, pc : {"findowner", "upsert", "readback", "answer", "dropcontact"},
     by : Token, p : Products, val : Values \cup {NoValue}, said : Values \cup {NoValue}]

ContactSlot(op, pc, by, p, v) ==
    [op |-> op, pc |-> pc, by |-> by, p |-> p, val |-> v, said |-> NoValue]

ArriveContact(r) ==
    /\ \E op \in ContactOps, p \in Products, v \in Values : \E t \in Callers(op) :
          /\ product[p].st # "absent"
          /\ Start(r, IF op = "putcontact" THEN ContactSlot(op, "findowner", t, p, v)
                                           ELSE ContactSlot(op, "dropcontact", t, p, NoValue))
    /\ UNCHANGED <<product, category, contact>>

\* The product must be found, and is not looked at again.
FindOwner(r) ==
    /\ req[r].pc = "findowner"
    /\ \/ Live(req[r].p) /\ Goto(r, "upsert")
       \/ ~Live(req[r].p) /\ Reply(r)
       \/ "badinput" \in Events /\ Reply(r)
       \/ QueryFails(r)
    /\ UNCHANGED <<product, category, contact>>

UpsertedOrKept(row, v) == IF row.st = "absent" THEN [st |-> "live", val |-> v] ELSE row
\* ON CONFLICT (product_id) DO UPDATE of name, email, phone and updated_at.
Upserted(row, v) ==
    IF row.st = "absent" THEN [st |-> "live", val |-> v] ELSE [row EXCEPT !.val = v]

Upsert(r) ==
    LET write == contact' = [contact EXCEPT ![req[r].p] = Upserted(@, req[r].val)] IN
    /\ req[r].pc = "upsert"
    /\ \/ write /\ Goto(r, "readback")
       \/ Fails(write, UNCHANGED contact) /\ Reply(r)
    /\ UNCHANGED <<product, category>>

\* The response is the row that was read, or what was written if none was.
ReadBack(r) ==
    LET row == contact[req[r].p] IN
    /\ req[r].pc = "readback"
    /\ \E v \in (IF row.st = "live" THEN {row.val} ELSE {req[r].val})
                \cup (IF "db" \in Events THEN {req[r].val} ELSE {}) :
          req' = [req EXCEPT ![r] = [@ EXCEPT !.pc = "answer", !.said = v]]
    /\ UNCHANGED <<product, category, contact>>

\* The 200 is sent.
Answer(r) ==
    /\ req[r].pc = "answer"
    /\ Reply(r)
    /\ UNCHANGED <<product, category, contact>>

DropContact(r) ==
    LET write == contact' = [contact EXCEPT ![req[r].p] = SoftDeleted(@)] IN
    /\ req[r].pc = "dropcontact"
    /\ write \/ Fails(write, UNCHANGED contact)
    /\ Reply(r)
    /\ UNCHANGED <<product, category>>

HandleContact(r) == FindOwner(r) \/ Upsert(r) \/ ReadBack(r) \/ Answer(r) \/ DropContact(r)
=============================================================================
