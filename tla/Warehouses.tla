------------------------------- MODULE Warehouses ------------------------------
(***************************************************************************)
(* Warehouses and locations of one organization, and which warehouse is    *)
(* its default: POST and PATCH of api/inventory/warehouses, those of       *)
(* api/inventory/locations, and initializeDefaultWarehouse, which the      *)
(* transaction of a tax invoice calls before it issues stock.              *)
(*                                                                         *)
(* One action is one statement.  A transaction that makes a default first  *)
(* unsets the defaults its updateMany sees (reset), then writes its own    *)
(* row; others see both at Commit.  No statement and no index asks that    *)
(* there be at most one default.                                           *)
(***************************************************************************)
EXTENDS RowLocks, FiniteSets

CONSTANTS
  Request,      \* a request, and the warehouse or location it creates
  Main,         \* a warehouse that is there from the start
  NoId,         \* the id of a PATCH body that has none
  Body          \* the request bodies clients send

Warehouse == Request \cup {Main}
Kinds == {"create", "edit", "ensure", "location", "editLocation"}
Choice == {"set", "unset", "keep"}      \* a boolean field of a PATCH, optional

ASSUME RequestAssumption == Nobody \notin Request /\ Main \notin Request
ASSUME NoIdAssumption == NoId \notin Warehouse
(* A tax invoice says nothing about the warehouse it may have to create.   *)
ASSUME BodyAssumption ==
  /\ Body \subseteq [kind : Kinds, id : Warehouse \cup {NoId}, isDefault : Choice,
                     isActive : Choice]
  /\ \A b \in Body : b.kind = "ensure" => b.isDefault = "keep"

VARIABLES
  body,         \* the body of each request
  pc,           \* the statement each request executes next
  warehouses,   \* committed rows: id -> [isDefault, isActive]
  locations,    \* committed rows: id -> [warehouse, isActive]
  seen,         \* the defaults in the snapshot of a request's updateMany
  reset,        \* the defaults it has unset, and locked
  rowLock,      \* the transaction that has updated each warehouse
  overtaken     \* history: requests during which another one committed

vars == <<body, pc, warehouses, locations, seen, reset, rowLock, overtaken>>

Statements == {"default", "snapshot", "reset", "write", "commit", "check", "insert"}
Answers == {"done", "found", "invalid", "notFound", "failed"}

Existing == DOMAIN warehouses
Defaults == {w \in Existing : warehouses[w].isDefault}
Running == {r \in Request : pc[r] \in Statements}

MakesDefault(b) == b.kind = "ensure" \/ (b.kind \in {"create", "edit"} /\ b.isDefault = "set")

(* The row a request writes: a warehouse of its own, or the one it names.  *)
Own(r) == IF body[r].kind = "edit" THEN body[r].id ELSE r

Chosen(choice, old) == IF choice = "keep" THEN old ELSE choice = "set"

Init ==
  /\ body \in [Request -> Body]
  /\ pc = [r \in Request |-> "idle"]
  /\ warehouses \in {[w \in {} |-> [isDefault |-> TRUE, isActive |-> TRUE]],
                     [w \in {Main} |-> [isDefault |-> TRUE, isActive |-> TRUE]]}
  /\ locations = [l \in {} |-> [warehouse |-> Main, isActive |-> TRUE]]
  /\ seen = [r \in Request |-> {}]
  /\ reset = [r \in Request |-> {}]
  /\ rowLock = [w \in Warehouse |-> Nobody]
  /\ overtaken = {}

--------------------------------------------------------------------------------
GoTo(r, place) == pc' = [pc EXCEPT ![r] = place]

ReleaseLocks(r) ==
  rowLock' = [w \in Warehouse |-> IF rowLock[w] = r THEN Nobody ELSE rowLock[w]]

(***************************************************************************)
(* The body is validated: a PATCH without an id is refused, and one whose  *)
(* id is not a row of the organization is not found.  The warehouses page  *)
(* sends the id in the URL only, so each of its edits ends here.           *)
(***************************************************************************)
Submit(r) ==
  LET b == body[r] IN
  /\ pc[r] = "idle"
  /\ GoTo(r, CASE b.kind = "ensure" -> "default"
               [] b.kind = "create" -> IF MakesDefault(b) THEN "snapshot" ELSE "write"
               [] b.kind = "edit" ->
                    IF b.id = NoId THEN "invalid"
                    ELSE IF b.id \notin Existing THEN "notFound"
                    ELSE IF MakesDefault(b) THEN "snapshot" ELSE "write"
               [] b.kind \in {"location", "editLocation"} -> "check")
  /\ UNCHANGED <<body, warehouses, locations, seen, reset, rowLock, overtaken>>

(* initializeDefaultWarehouse: a default that is there is the answer.      *)
FindDefault(r) ==
  /\ pc[r] = "default"
  /\ GoTo(r, IF Defaults # {} THEN "found" ELSE "write")
  /\ UNCHANGED <<body, warehouses, locations, seen, reset, rowLock, overtaken>>

(***************************************************************************)
(* updateMany WHERE isDefault: the rows are found in the statement's       *)
(* snapshot; it waits for those another transaction has updated, and then  *)
(* unsets the ones that are still default.                                 *)
(***************************************************************************)
SnapshotDefaults(r) ==
  /\ pc[r] = "snapshot"
  /\ seen' = [seen EXCEPT ![r] = Defaults]
  /\ GoTo(r, "reset")
  /\ UNCHANGED <<body, warehouses, locations, reset, rowLock, overtaken>>

(* Faulty variant: the updateMany runs on prisma, outside the transaction. *)
ResetDefaultsOutside(r) ==
  /\ pc[r] = "reset"
  /\ \A w \in seen[r] : MayHold(rowLock[w], r)
  /\ warehouses' = [w \in Existing |->
       IF w \in seen[r] THEN [warehouses[w] EXCEPT !.isDefault = FALSE] ELSE warehouses[w]]
  /\ GoTo(r, "write")
  /\ UNCHANGED <<body, locations, seen, reset, rowLock, overtaken>>

(* Faulty variant: only defaults that are in use are unset.                *)
ResetActiveDefaults(r) ==
  /\ pc[r] = "reset"
  /\ \A w \in seen[r] : MayHold(rowLock[w], r)
  /\ LET active == {w \in seen[r] \cap Defaults : warehouses[w].isActive} IN
       /\ reset' = [reset EXCEPT ![r] = active]
       /\ rowLock' = [w \in Warehouse |-> IF w \in active THEN r ELSE rowLock[w]]
  /\ GoTo(r, "write")
  /\ UNCHANGED <<body, warehouses, locations, seen, overtaken>>

ResetDefaults(r) ==
  /\ pc[r] = "reset"
  /\ \A w \in seen[r] : MayHold(rowLock[w], r)
  /\ reset' = [reset EXCEPT ![r] = seen[r] \cap Defaults]
  /\ rowLock' = [w \in Warehouse |-> IF w \in seen[r] \cap Defaults THEN r ELSE rowLock[w]]
  /\ GoTo(r, "write")
  /\ UNCHANGED <<body, warehouses, locations, seen, overtaken>>

(* create, or update by id, which waits for the row.                       *)
WriteWarehouse(r) ==
  /\ pc[r] = "write"
  /\ MayHold(rowLock[Own(r)], r)
  /\ rowLock' = [rowLock EXCEPT ![Own(r)] = r]
  /\ GoTo(r, "commit")
  /\ UNCHANGED <<body, warehouses, locations, seen, reset, overtaken>>

Written(r) ==
  LET b   == body[r]
      old == IF b.kind = "edit" THEN warehouses[b.id]
             ELSE [isDefault |-> b.kind = "ensure", isActive |-> TRUE]
  IN  [isDefault |-> Chosen(b.isDefault, old.isDefault),
       isActive |-> Chosen(b.isActive, old.isActive)]

Commit(r) ==
  /\ pc[r] = "commit"
  /\ warehouses' = [w \in Existing \cup {Own(r)} |->
       IF w = Own(r) THEN Written(r)
       ELSE IF w \in reset[r] THEN [warehouses[w] EXCEPT !.isDefault = FALSE]
       ELSE warehouses[w]]
  /\ overtaken' = overtaken \cup (Running \ {r})
  /\ GoTo(r, "done")
  /\ ReleaseLocks(r)
  /\ UNCHANGED <<body, locations, seen, reset>>

(* A deadlock, a timeout, or whatever fails in the invoice's transaction.  *)
Abort(r) ==
  /\ pc[r] \in {"default", "snapshot", "reset", "write", "commit"}
  /\ GoTo(r, "failed")
  /\ ReleaseLocks(r)
  /\ UNCHANGED <<body, warehouses, locations, seen, reset, overtaken>>

--------------------------------------------------------------------------------
(***************************************************************************)
(* A location goes to a warehouse that is active when it is looked up; an  *)
(* edit of one asks only that it exists.                                   *)
(***************************************************************************)
CheckLocation(r) ==
  LET b == body[r] IN
  /\ pc[r] = "check"
  /\ GoTo(r, IF b.kind = "editLocation"
             THEN IF b.id \in DOMAIN locations THEN "insert" ELSE "notFound"
             ELSE IF b.id \notin Existing THEN "notFound"
             ELSE IF warehouses[b.id].isActive THEN "insert" ELSE "invalid")
  /\ UNCHANGED <<body, warehouses, locations, seen, reset, rowLock, overtaken>>

WriteLocation(r) ==
  LET b == body[r] IN
  /\ pc[r] = "insert"
  /\ locations' = [l \in DOMAIN locations \cup {IF b.kind = "location" THEN r ELSE b.id} |->
       IF l \notin DOMAIN locations THEN [warehouse |-> b.id, isActive |-> TRUE]
       ELSE IF b.kind = "editLocation" /\ l = b.id
            THEN [locations[l] EXCEPT !.isActive = Chosen(b.isActive, @)]
            ELSE locations[l]]
  /\ GoTo(r, "done")
  /\ UNCHANGED <<body, warehouses, seen, reset, rowLock, overtaken>>

Next ==
  \E r \in Request :
    \/ Submit(r)
    \/ FindDefault(r)
    \/ SnapshotDefaults(r)
    \/ ResetDefaults(r)
    \/ WriteWarehouse(r)
    \/ Commit(r)
    \/ Abort(r)
    \/ CheckLocation(r)
    \/ WriteLocation(r)

Spec == Init /\ [][Next]_vars

--------------------------------------------------------------------------------
(***************************************************************************)
(* An organization that has a default warehouse keeps one, whatever fails  *)
(* half way: it loses its last default only to an edit that unsets it.     *)
(***************************************************************************)
DefaultKept ==
  [][Defaults # {} /\ Defaults' = {} =>
       \E r \in Request : pc'[r] = "done" /\ pc[r] = "commit" /\ body[r].isDefault = "unset"]_vars

(***************************************************************************)
(* Two defaults come of overlapping transactions only: one that makes a    *)
(* default, and during which no other committed, leaves its own warehouse  *)
(* as the only default.                                                    *)
(***************************************************************************)
OnlyDefaultUnlessOvertaken ==
  [][\A r \in Request :
       pc[r] = "commit" /\ pc'[r] = "done" /\ MakesDefault(body[r]) /\ r \notin overtaken
         => Defaults' = {Own(r)}]_vars
================================================================================
