----------------------------- MODULE Migrations -----------------------------
(***************************************************************************)
(* Store._migrate: a database of any version is brought to SCHEMA_VERSION  *)
(* when it is opened.  Python's sqlite3 commits a script and every DDL     *)
(* statement on its own until the first INSERT, UPDATE or DELETE opens a   *)
(* transaction; from there on everything, DDL included, is committed       *)
(* together at the end.  A process may die between any two statements, and *)
(* two may open one database at once; one of them then waits for the       *)
(* other's transaction, or gives up with "database is locked".             *)
(***************************************************************************)
EXTENDS Integers, Sequences, FiniteSets

CONSTANTS
    Openers,         \* processes that may open the database
    SCHEMA_VERSION,
    Old,             \* the versions the database may be found in; 0: no file
    Events           \* rowids of the events an old database holds

MigrationsAssumption ==
    /\ SCHEMA_VERSION = 11
    /\ Old \subseteq 0..SCHEMA_VERSION
    /\ Events \subseteq Nat \ {0}

VARIABLES
    disk,     \* what is committed
    opener,   \* opener -> [at, next: statement to run, tx: its view in a transaction]
    crowded,  \* history: two processes had the database open to migrate at once
    found     \* history: the events of the database as it was found

vars == <<disk, opener, crowded, found>>

NoCopy == {0}   \* no table event_v10
Closed == [at |-> "closed", had |-> FALSE, next |-> [version |-> 0, step |-> 0], tx |-> <<>>]

(* The columns ALTER adds are named after the version that adds them; a    *)
(* statement for a version is DONE to the data where it is not a no-op.    *)
Database(v) ==
    [named    |-> v > 0,                       \* schema_version exists
     tables   |-> v > 0,                       \* all the others exist
     version  |-> IF v > 1 THEN v ELSE 0,      \* MAX(version), 0 without a row
     columns  |-> {c \in {2, 4, 5} : v >= c},
     signed   |-> v >= 5 \/ v = 0,             \* samples have their keysig
     cleaned  |-> v >= 6 \/ v = 0,             \* grants stored as windows are gone
     events   |-> IF v = 0 THEN {} ELSE Events,
     keyed    |-> v >= 10,                     \* event ids are never reused
     copy     |-> NoCopy,                      \* event_v10
     thinned  |-> v >= 11 \/ v = 0]            \* repeated grant rows are gone

Init ==
    /\ \E v \in Old : disk = Database(v)
    /\ opener = [p \in Openers |-> Closed]
    /\ crowded = FALSE
    /\ found = disk.events

(***************************************************************************)
(* The statements, as functions on a database.  Each is a DDL statement    *)
(* ("ddl") or one that writes rows and opens a transaction ("dml").        *)
(***************************************************************************)
DDL(name) == [kind |-> "ddl", name |-> name]
DML(name) == [kind |-> "dml", name |-> name]

(* Fault: the old table goes before its rows are copied. *)
StatementsDropFirst(v) ==
    CASE v = 2  -> <<DDL("column_2")>>
      [] v = 4  -> <<DDL("column_4")>>
      [] v = 5  -> <<DDL("column_5"), DML("keysig")>>
      [] v = 6  -> <<DML("known_grants")>>
      [] v = 10 -> <<DDL("drop_copy"), DDL("create_copy"), DDL("drop_event"),
                     DML("copy"), DDL("rename_copy")>>
      [] v = 11 -> <<DML("thin_grants")>>
      [] OTHER  -> <<>>

(* _MIGRATIONS[v], and the backfill of version 5. *)
Statements(v) ==
    CASE v = 2  -> <<DDL("column_2")>>
      [] v = 4  -> <<DDL("column_4")>>
      [] v = 5  -> <<DDL("column_5"), DML("keysig")>>
      [] v = 6  -> <<DML("known_grants")>>
      [] v = 10 -> <<DDL("drop_copy"), DDL("create_copy"), DML("copy"),
                     DDL("drop_event"), DDL("rename_copy")>>
      [] v = 11 -> <<DML("thin_grants")>>
      [] OTHER  -> <<>>

(* A version's own row comes last. *)
RowStep(v) == Len(Statements(v)) + 1
Statement(next) ==
    IF next.step < RowStep(next.version) THEN Statements(next.version)[next.step]
    ELSE DML("version_row")

Upgrade(from) == [version |-> from + 1, step |-> 1]
After(next) ==
    IF next.step < RowStep(next.version) THEN [next EXCEPT !.step = @ + 1]
    ELSE Upgrade(next.version)

(* A database that was just created needs no more than the row. *)
RowAlone == [version |-> SCHEMA_VERSION, step |-> RowStep(SCHEMA_VERSION)]
Finished(next) == next.version > SCHEMA_VERSION

(* Whether a statement can run on this database at all. *)
Runs(s, db) ==
    CASE s.name = "create_copy" -> db.copy = NoCopy
      [] s.name \in {"copy", "rename_copy"} -> db.copy # NoCopy
      [] OTHER -> TRUE

(* A statement of version v.  "duplicate column" is tolerated: such an     *)
(* ALTER does nothing.  The version there is MAX(version).                 *)
Run(s, v, db) ==
    CASE s.name = "column_2"     -> [db EXCEPT !.columns = @ \cup {2}]
      [] s.name = "column_4"     -> [db EXCEPT !.columns = @ \cup {4}]
      [] s.name = "column_5"     -> [db EXCEPT !.columns = @ \cup {5}]
      [] s.name = "keysig"       -> [db EXCEPT !.signed = TRUE]
      [] s.name = "known_grants" -> [db EXCEPT !.cleaned = TRUE]
      [] s.name = "drop_copy"    -> [db EXCEPT !.copy = NoCopy]
      [] s.name = "create_copy"  -> [db EXCEPT !.copy = {}]
      [] s.name = "copy"         -> [db EXCEPT !.copy = db.events]
      [] s.name = "drop_event"   -> [db EXCEPT !.events = {}]
      [] s.name = "rename_copy"  -> [db EXCEPT !.events = db.copy, !.copy = NoCopy, !.keyed = TRUE]
      [] s.name = "thin_grants"  -> [db EXCEPT !.thinned = TRUE]
      [] s.name = "version_row"  -> [db EXCEPT !.version = IF @ < v THEN v ELSE @]
      [] OTHER                   -> db

(* executescript(_SCHEMA): the first table is schema_version. *)
CreateFirst(db) == [db EXCEPT !.named = TRUE]
CreateRest(db) ==
    IF db.tables THEN db
    ELSE [db EXCEPT !.tables = TRUE, !.columns = {2, 4, 5}, !.keyed = TRUE]

Move(p, to) == opener' = [opener EXCEPT ![p] = to]
Holder == {p \in Openers : opener[p].tx # <<>>}
View(p) == IF opener[p].tx # <<>> THEN opener[p].tx[1] ELSE disk

(* sqlite_master is asked for schema_version before anything is created. *)
Open(p) ==
    /\ opener[p].at = "closed"
    /\ Move(p, [Closed EXCEPT !.at = "create", !.had = disk.named])
    /\ crowded' = (crowded \/ \E q \in Openers : opener[q].at # "closed")
    /\ UNCHANGED <<disk, found>>

CreateVersionTable(p) ==
    /\ opener[p].at = "create"
    /\ disk.named \/ Holder = {}
    /\ disk' = CreateFirst(disk)
    /\ Move(p, [opener[p] EXCEPT !.at = "script"])
    /\ UNCHANGED <<crowded, found>>

(* The rest of the script, and then the version that is there. *)
CreateTables(p) ==
    LET db == CreateRest(disk)
        from == IF db.version = 0 THEN 1 ELSE db.version
    IN  /\ opener[p].at = "script"
        /\ disk.tables \/ Holder = {}
        /\ disk' = db
        /\ Move(p, [opener[p] EXCEPT !.at = "migrate",
                       !.next = IF opener[p].had THEN Upgrade(from) ELSE RowAlone])
        /\ UNCHANGED <<crowded, found>>

(* One statement: committed at once, or kept in the open transaction. *)
Execute(p) ==
    LET next == opener[p].next
        s == Statement(next)
        done == Run(s, next.version, View(p))
    IN  /\ opener[p].at = "migrate"
        /\ ~Finished(next)
        /\ Holder \subseteq {p}
        /\ Runs(s, View(p))
        /\ IF opener[p].tx = <<>> /\ s.kind = "ddl"
           THEN /\ disk' = done
                /\ Move(p, [opener[p] EXCEPT !.next = After(@)])
           ELSE /\ Move(p, [opener[p] EXCEPT !.next = After(@), !.tx = <<done>>])
                /\ UNCHANGED disk
        /\ UNCHANGED <<crowded, found>>

Commit(p) ==
    /\ opener[p].at = "migrate"
    /\ Finished(opener[p].next)
    /\ disk' = View(p)
    /\ Move(p, [Closed EXCEPT !.at = "open"])
    /\ UNCHANGED <<crowded, found>>

(* An OperationalError rolls back and ends the process: a statement that    *)
(* cannot run, or a lock another one holds for too long.                    *)
Fails(p) ==
    /\ opener[p].at \in {"create", "script", "migrate"}
    /\ \/ Holder \ {p} # {}
       \/ /\ opener[p].at = "migrate" /\ ~Finished(opener[p].next)
          /\ ~Runs(Statement(opener[p].next), View(p))
    /\ Move(p, Closed)
    /\ UNCHANGED <<disk, crowded, found>>

(* The process dies, or ends: nothing of a transaction stays. *)
Close(p) ==
    /\ opener[p].at # "closed"
    /\ Move(p, Closed)
    /\ crowded' = (crowded /\ \E q \in Openers \ {p} : opener[q].at # "closed")
    /\ UNCHANGED <<disk, found>>

Next == \E p \in Openers :
    \/ Open(p) \/ CreateVersionTable(p) \/ CreateTables(p)
    \/ Execute(p) \/ Commit(p) \/ Fails(p) \/ Close(p)

Spec == Init /\ [][Next]_vars

-----------------------------------------------------------------------------
(* Every variable keeps its type, and one transaction is open at most. *)
TypeOK ==
    /\ disk.version \in 0..SCHEMA_VERSION
    /\ disk.columns \subseteq {2, 4, 5}
    /\ disk.events \subseteq Events
    /\ \A p \in Openers :
          opener[p].at \in {"closed", "create", "script", "migrate", "open"}
    /\ Cardinality(Holder) <= 1
    /\ crowded \in BOOLEAN

(* _MIGRATIONS[10]: the events and their ids are in the committed database  *)
(* at every moment, whatever dies in the rebuild of their table and however *)
(* often it is started again.                                               *)
EventsAreKept == disk.events = found

(* _migrate: an opened database is at the present version in all its parts, *)
(* from any version, through deaths between any two statements.             *)
OpenIsCurrent ==
    (\E p \in Openers : opener[p].at = "open") =>
        /\ disk.version = SCHEMA_VERSION
        /\ disk.columns = {2, 4, 5}
        /\ disk.signed /\ disk.cleaned /\ disk.keyed /\ disk.thinned

(* _migrate: a migration that died does not stand in the way of the next    *)
(* one.  A statement can fail only when another process migrates, too.      *)
AloneNeverFails ==
    \A p \in Openers :
        opener[p].at = "migrate" /\ ~Finished(opener[p].next)
            /\ ~Runs(Statement(opener[p].next), View(p)) => crowded

=============================================================================
