---------------------------- MODULE StateStore ----------------------------
(***************************************************************************)
(* StateStore::open of src/state_store.rs: how processes open one SQLite   *)
(* file and bring its schema to version 2.  The statements of a migration  *)
(* are not in a transaction: each commits by itself, other openers run     *)
(* between any two of them, and the process may die there.  SQLite runs    *)
(* one statement at a time; each may fail (a lock that is not given in     *)
(* time, a full disk), and adding a column that is there already fails.    *)
(***************************************************************************)
EXTENDS Integers, FiniteSets, Sequences

CONSTANTS
  Openers,  \* the processes that open the store
  Stores,   \* the files they may find: [table, columns, user_version]
  MaxOpens  \* bound: how often the store is opened

(* The columns that version 2 adds, in the order of migrate_to_v2.         *)
ColumnOrder == <<"adapter_kind", "adapter_config_version", "adapter_config">>
NewColumns  == {ColumnOrder[n] : n \in DOMAIN ColumnOrder}
Version     == 2

Store == [table : BOOLEAN, columns : SUBSET NewColumns, user_version : 0..Version]

(* A file of version 2 is one that this code has written.                  *)
ASSUME StoreAssumption ==
  /\ IsFiniteSet(Openers)
  /\ Stores \subseteq {s \in Store : s.user_version = Version =>
                                       s.table /\ s.columns = NewColumns}
  /\ Stores \subseteq {s \in Store : ~s.table => s.columns = {}}
  /\ MaxOpens \in Nat

VARIABLES
  table,         \* the table warp_instances exists
  columns,       \* which of the new columns it has
  user_version,  \* pragma user_version
  pc,            \* where each opener is
  column_names,  \* the new columns it saw in table_info
  next,          \* the column of ColumnOrder it looks at next
  opens          \* how often the store was opened

file   == <<table, columns, user_version>>
locals == <<pc, column_names, next>>
vars   == <<file, locals, opens>>

Goto(o, step) == pc' = [pc EXCEPT ![o] = step]

(* Where an opener is when it has no store: it never had one or dropped it,*)
(* a statement failed, or its alter table found the column there already.  *)
Storeless == {"closed", "failed", "duplicateColumn"}

Opening(o) == pc[o] \notin Storeless \cup {"open"}

-----------------------------------------------------------------------------

(* Directories and the connection.                                         *)
Begin(o) ==
  /\ ~Opening(o) /\ pc[o] # "open"
  /\ opens < MaxOpens
  /\ opens' = opens + 1
  /\ Goto(o, "create")
  /\ UNCHANGED <<file, column_names, next>>

(* create table if not exists, with every column of version 2.             *)
CreateTable(o) ==
  /\ pc[o] = "create"
  /\ table' = TRUE
  /\ columns' = IF table THEN columns ELSE NewColumns
  /\ Goto(o, "readVersion")
  /\ UNCHANGED <<user_version, column_names, next, opens>>

(* The mutant marks the version before the columns are there.              *)
ReadVersionMarks(o) ==
  /\ pc[o] = "readVersion"
  /\ Goto(o, IF user_version < Version THEN "readColumns" ELSE "setVersion")
  /\ user_version' = Version
  /\ UNCHANGED <<table, columns, column_names, next, opens>>

ReadVersion(o) ==
  /\ pc[o] = "readVersion"
  /\ Goto(o, IF user_version < Version THEN "readColumns" ELSE "setVersion")
  /\ UNCHANGED <<file, column_names, next, opens>>

ReadColumns(o) ==
  /\ pc[o] = "readColumns"
  /\ column_names' = [column_names EXCEPT ![o] = columns]
  /\ next' = [next EXCEPT ![o] = 1]
  /\ Goto(o, "addColumns")
  /\ UNCHANGED <<file, opens>>

(* One column of migrate_to_v2: it is there, or it is added, or another    *)
(* opener has added it since table_info was read.  The mutants take the    *)
(* last case for a success and are done, and add what is missing in any    *)
(* order instead of that of the source.                                    *)
AddColumnOrStop(o) ==
  /\ pc[o] = "addColumns"
  /\ next[o] \in DOMAIN ColumnOrder
  /\ LET column == ColumnOrder[next[o]] IN
     IF column \in column_names[o]
     THEN /\ next' = [next EXCEPT ![o] = @ + 1]
          /\ UNCHANGED <<columns, pc>>
     ELSE /\ next' = [next EXCEPT ![o] = IF column \in columns
                                         THEN Len(ColumnOrder) + 1 ELSE @ + 1]
          /\ columns' = columns \cup {column}
          /\ UNCHANGED pc
  /\ UNCHANGED <<table, user_version, column_names, opens>>

AddColumnAnyOrder(o) ==
  /\ pc[o] = "addColumns"
  /\ next[o] \in DOMAIN ColumnOrder
  /\ \/ /\ column_names[o] = NewColumns
        /\ next' = [next EXCEPT ![o] = Len(ColumnOrder) + 1]
        /\ UNCHANGED <<columns, pc, column_names>>
     \/ \E column \in NewColumns \ column_names[o] :
          \/ /\ column \notin columns
             /\ columns' = columns \cup {column}
             /\ column_names' = [column_names EXCEPT ![o] = @ \cup {column}]
             /\ UNCHANGED <<pc, next>>
          \/ /\ column \in columns
             /\ Goto(o, "duplicateColumn")
             /\ UNCHANGED <<columns, column_names, next>>
  /\ UNCHANGED <<table, user_version, opens>>

AddColumn(o) ==
  /\ pc[o] = "addColumns"
  /\ next[o] \in DOMAIN ColumnOrder
  /\ LET column == ColumnOrder[next[o]] IN
     \/ /\ column \in column_names[o]
        /\ next' = [next EXCEPT ![o] = @ + 1]
        /\ UNCHANGED <<columns, pc>>
     \/ /\ column \notin column_names[o]
        /\ column \notin columns
        /\ columns' = columns \cup {column}
        /\ next' = [next EXCEPT ![o] = @ + 1]
        /\ UNCHANGED pc
     \/ /\ column \notin column_names[o]
        /\ column \in columns
        /\ Goto(o, "duplicateColumn")
        /\ UNCHANGED <<columns, next>>
  /\ UNCHANGED <<table, user_version, column_names, opens>>

ColumnsAdded(o) ==
  /\ pc[o] = "addColumns"
  /\ next[o] \notin DOMAIN ColumnOrder
  /\ Goto(o, "setVersion")
  /\ UNCHANGED <<file, column_names, next, opens>>

(* pragma user_version = 2; the mutants count it up, and forget it.        *)
SetVersionNext(o) ==
  /\ pc[o] = "setVersion"
  /\ user_version' = user_version + 1
  /\ Goto(o, "open")
  /\ UNCHANGED <<table, columns, column_names, next, opens>>

SetVersionForgotten(o) ==
  /\ pc[o] = "setVersion"
  /\ Goto(o, "open")
  /\ UNCHANGED <<file, column_names, next, opens>>

SetVersion(o) ==
  /\ pc[o] = "setVersion"
  /\ user_version' = Version
  /\ Goto(o, "open")
  /\ UNCHANGED <<table, columns, column_names, next, opens>>

(* A statement fails, and open with it; or the process dies there.         *)
OpenFails(o) ==
  /\ Opening(o)
  /\ Goto(o, "failed")
  /\ UNCHANGED <<file, column_names, next, opens>>

(* The store is dropped, with its process or before.                       *)
Close(o) ==
  /\ pc[o] = "open"
  /\ Goto(o, "closed")
  /\ UNCHANGED <<file, column_names, next, opens>>

-----------------------------------------------------------------------------

Init ==
  /\ \E s \in Stores :
       /\ table = s.table
       /\ columns = s.columns
       /\ user_version = s.user_version
  /\ pc = [o \in Openers |-> "closed"]
  /\ column_names = [o \in Openers |-> {}]
  /\ next = [o \in Openers |-> 1]
  /\ opens = 0

Migrate(o) ==
  \/ CreateTable(o)
  \/ ReadVersion(o)
  \/ ReadColumns(o)
  \/ AddColumn(o)
  \/ ColumnsAdded(o)
  \/ SetVersion(o)

Next ==
  \E o \in Openers :
    \/ Begin(o)
    \/ Migrate(o)
    \/ OpenFails(o)
    \/ Close(o)

Spec == Init /\ [][Next]_vars

(* A process that is opening the store goes on.                            *)
FairSpec == Spec /\ \A o \in Openers : WF_vars(Migrate(o))

-----------------------------------------------------------------------------
(* Properties.                                                             *)

(* The type of the state.                                                  *)
StoreTypeOK ==
  /\ table \in BOOLEAN
  /\ columns \in SUBSET NewColumns
  /\ user_version \in 0..Version
  /\ pc \in [Openers -> Storeless \cup {"create", "readVersion", "readColumns", "addColumns",
                                        "setVersion", "open"}]
  /\ column_names \in [Openers -> SUBSET NewColumns]
  /\ next \in [Openers -> 1..(Len(ColumnOrder) + 1)]
  /\ opens \in Nat

(* The version is written after the columns, whoever wrote it and whatever *)
(* died in between: a file of version 2 is never read with columns missing.*)
VersionMeansColumns == user_version = Version => table /\ columns = NewColumns

(* Whoever has the store open can list and upsert: every column its SQL    *)
(* names is there, although another opener may still be migrating.         *)
OpenMeansMigrated == \A o \in Openers : pc[o] = "open" => table /\ columns = NewColumns

(* What an opener has not seen missing, or has passed, is there.           *)
PassedColumnsExist ==
  \A o \in Openers :
    /\ pc[o] \notin Storeless \cup {"create"} => table
    /\ column_names[o] \subseteq columns
    /\ pc[o] = "addColumns" => {ColumnOrder[n] : n \in 1..(next[o] - 1)} \subseteq columns
    /\ pc[o] \in {"setVersion", "open"} => columns = NewColumns

(* A file that is in use, by whoever marked it or has it open, is one that  *)
(* can be used.                                                            *)
MigratedBeforeUse == VersionMeansColumns /\ OpenMeansMigrated

(* An opener that no other can make fail: every column that is there, it   *)
(* has seen in table_info, has passed, or will see when it reads it.       *)
Leader(o) ==
  \/ pc[o] \in {"create", "readVersion", "readColumns", "setVersion"}
  \/ /\ pc[o] = "addColumns"
     /\ columns \subseteq column_names[o] \cup {ColumnOrder[n] : n \in 1..(next[o] - 1)}

(* Openers that race to migrate may fail each other, but never all of      *)
(* them: once there were openers, the version is written, or a statement   *)
(* of somebody's failed for a reason of its own, or one of those that are  *)
(* at it has seen every column the others added.                           *)
SomebodyLeads ==
  \/ \A o \in Openers : pc[o] = "closed"
  \/ user_version = Version
  \/ \E o \in Openers : pc[o] = "failed" \/ Leader(o)

(* So when somebody is opening, somebody finishes, unless a statement of   *)
(* somebody's failed for a reason of its own.                              *)
SomebodyMigrates ==
  (\E o \in Openers : Opening(o))
    ~> user_version = Version \/ \E o \in Openers : pc[o] = "failed"

=============================================================================
