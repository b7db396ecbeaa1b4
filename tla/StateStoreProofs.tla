------------------------- MODULE StateStoreProofs -------------------------
(***************************************************************************)
(* Proofs about StateStore, for any number of openers and any files they   *)
(* may find, with statements that fail and processes that die.  What is    *)
(* inductive is what each opener knows (PassedColumnsExist), together with *)
(* what the version promises to the openers that skip the migration.       *)
(***************************************************************************)
EXTENDS StateStore, TLAPS

StoreInv == StoreTypeOK /\ PassedColumnsExist /\ VersionMeansColumns

-----------------------------------------------------------------------------
(* The columns of version 2.                                               *)

LEMMA ColumnFacts ==
  /\ DOMAIN ColumnOrder = 1..3
  /\ Len(ColumnOrder) = 3
  /\ NewColumns = {ColumnOrder[n] : n \in 1..3}
  BY DEF ColumnOrder, NewColumns

LEMMA ColumnIsNew == \A n \in DOMAIN ColumnOrder : ColumnOrder[n] \in NewColumns
  BY DEF NewColumns

(* The columns an opener has passed after one more of them.                *)
LEMMA OneMorePassed ==
  ASSUME NEW n \in 1..3
  PROVE  {ColumnOrder[m] : m \in 1..(n + 1 - 1)}
           = {ColumnOrder[m] : m \in 1..(n - 1)} \cup {ColumnOrder[n]}
<1>1. 1..(n + 1 - 1) = 1..(n - 1) \cup {n}
  OBVIOUS
<1> QED
  BY <1>1

(* Everything is passed when no column is left.                            *)
LEMMA AllPassed ==
  ASSUME NEW n \in 1..4, n \notin DOMAIN ColumnOrder
  PROVE  {ColumnOrder[m] : m \in 1..(n - 1)} = NewColumns
<1>1. n = 4
  BY ColumnFacts
<1>2. 1..(n - 1) = 1..3
  BY <1>1
<1> QED
  BY <1>2, ColumnFacts

-----------------------------------------------------------------------------
(* What one opener knows.                                                  *)

Knows(o) ==
  /\ pc[o] \notin Storeless \cup {"create"} => table
  /\ column_names[o] \subseteq columns
  /\ pc[o] = "addColumns" => {ColumnOrder[n] : n \in 1..(next[o] - 1)} \subseteq columns
  /\ pc[o] \in {"setVersion", "open"} => columns = NewColumns

LEMMA KnowsIsPassed == PassedColumnsExist <=> \A o \in Openers : Knows(o)
  BY DEF PassedColumnsExist, Knows

(* What every step of an opener o does to the file and to the others:      *)
(* columns only appear, so what the others know stays true.                *)
LEMMA StepIsLocal ==
  ASSUME StoreInv, NEW o \in Openers,
         Begin(o) \/ Migrate(o) \/ OpenFails(o) \/ Close(o)
  PROVE  /\ StoreTypeOK'
         /\ table => table'
         /\ columns \subseteq columns'
         /\ \A u \in Openers \ {o} :
              pc'[u] = pc[u] /\ column_names'[u] = column_names[u] /\ next'[u] = next[u]
<1>1. StoreTypeOK
  BY DEF StoreInv
<1>2. /\ DOMAIN ColumnOrder = 1..3 /\ Len(ColumnOrder) = 3
      /\ \A n \in DOMAIN ColumnOrder : ColumnOrder[n] \in NewColumns
  BY ColumnFacts, ColumnIsNew
<1>3. CASE Begin(o) \/ OpenFails(o) \/ Close(o)
  BY <1>1, <1>3 DEF Begin, OpenFails, Close, Goto, file, Storeless, StoreTypeOK
<1>4. CASE CreateTable(o)
  BY <1>1, <1>4 DEF CreateTable, Goto, Storeless, StoreTypeOK
<1>5. CASE ReadVersion(o) \/ ColumnsAdded(o)
  BY <1>1, <1>5 DEF ReadVersion, ColumnsAdded, Goto, file, Storeless, StoreTypeOK
<1>6. CASE ReadColumns(o)
  BY <1>1, <1>2, <1>6 DEF ReadColumns, Goto, file, Storeless, StoreTypeOK
<1>7. CASE AddColumn(o)
  BY <1>1, <1>2, <1>7 DEF AddColumn, Goto, Storeless, StoreTypeOK
<1>8. CASE SetVersion(o)
  BY <1>1, <1>8 DEF SetVersion, Goto, Version, Storeless, StoreTypeOK
<1> QED
  BY <1>3, <1>4, <1>5, <1>6, <1>7, <1>8 DEF Migrate

(* What o itself knows after its step.                                     *)
LEMMA StepKnows ==
  ASSUME StoreInv, NEW o \in Openers,
         Begin(o) \/ Migrate(o) \/ OpenFails(o) \/ Close(o)
  PROVE  Knows(o)'
<1>1. StoreTypeOK /\ Knows(o) /\ VersionMeansColumns
  BY KnowsIsPassed DEF StoreInv
<1>2. CASE Begin(o) \/ OpenFails(o) \/ Close(o)
  BY <1>1, <1>2 DEF Begin, OpenFails, Close, Goto, file, Storeless, StoreTypeOK, Knows
<1>3. CASE CreateTable(o)
  BY <1>1, <1>3 DEF CreateTable, Goto, Storeless, StoreTypeOK, Knows
<1>4. CASE ReadVersion(o)
  <2>1. user_version < Version \/ user_version = Version
    BY <1>1 DEF StoreTypeOK, Version
  <2> QED
    BY <1>1, <1>4, <2>1 DEF ReadVersion, Goto, file, Storeless, StoreTypeOK, Knows, VersionMeansColumns, Version
<1>5. CASE ReadColumns(o)
  <2>1. pc'[o] = "addColumns" /\ next'[o] = 1 /\ column_names'[o] = columns
        /\ UNCHANGED <<table, columns>> /\ table
    BY <1>1, <1>5 DEF ReadColumns, Goto, file, Storeless, StoreTypeOK, Knows
  <2>2. {ColumnOrder[n] : n \in 1..(1 - 1)} = {}
    OBVIOUS
  <2> QED
    BY <2>1, <2>2 DEF Knows
<1>6. CASE AddColumn(o)
  <2>1. pc[o] = "addColumns" /\ next[o] \in 1..3 /\ table
    BY <1>1, <1>6, ColumnFacts DEF AddColumn, Storeless, Knows
  <2>2. CASE pc'[o] = "duplicateColumn"
    BY <1>1, <1>6, <2>2 DEF AddColumn, Goto, Storeless, StoreTypeOK, Knows
  <2>3. CASE UNCHANGED pc
    <3>1. /\ next'[o] = next[o] + 1 /\ columns \subseteq columns'
          /\ ColumnOrder[next[o]] \in columns' /\ UNCHANGED <<table, column_names>>
      BY <1>1, <1>6, <2>1, <2>3 DEF AddColumn, Goto, Storeless, StoreTypeOK, Knows
    <3>2. {ColumnOrder[n] : n \in 1..(next[o] - 1)} \subseteq columns
      BY <1>1, <2>1 DEF Knows
    <3>3. {ColumnOrder[n] : n \in 1..(next'[o] - 1)} \subseteq columns'
      BY <2>1, <3>1, <3>2, OneMorePassed
    <3> QED
      BY <1>1, <2>1, <2>3, <3>1, <3>3 DEF Knows
  <2> QED
    BY <1>1, <1>6, <2>2, <2>3 DEF AddColumn, Goto, Storeless, StoreTypeOK
<1>7. CASE ColumnsAdded(o)
  <2>1. next[o] \in 1..4 /\ columns \subseteq NewColumns
    BY <1>1, ColumnFacts DEF StoreTypeOK
  <2>2. columns = NewColumns
    BY <1>1, <1>7, <2>1, AllPassed DEF ColumnsAdded, Knows
  <2> QED
    BY <1>1, <1>7, <2>2 DEF ColumnsAdded, Goto, file, Storeless, StoreTypeOK, Knows
<1>8. CASE SetVersion(o)
  BY <1>1, <1>8 DEF SetVersion, Goto, Storeless, StoreTypeOK, Knows
<1> QED
  BY <1>2, <1>3, <1>4, <1>5, <1>6, <1>7, <1>8 DEF Migrate

(* The version is written only by an opener that knows every column, and   *)
(* no column disappears afterwards.                                        *)
LEMMA VersionStep ==
  ASSUME StoreInv, NEW o \in Openers,
         Begin(o) \/ Migrate(o) \/ OpenFails(o) \/ Close(o)
  PROVE  VersionMeansColumns'
<1>1. StoreTypeOK' /\ (table => table') /\ columns \subseteq columns'
  BY StepIsLocal
<1>2. CASE UNCHANGED user_version
  BY <1>1, <1>2 DEF StoreInv, VersionMeansColumns, StoreTypeOK
<1>3. CASE SetVersion(o)
  BY <1>3, KnowsIsPassed DEF StoreInv, SetVersion, Storeless, Knows, VersionMeansColumns
<1> QED
  BY <1>2, <1>3 DEF Begin, Migrate, CreateTable, ReadVersion, ReadColumns, AddColumn,
                    ColumnsAdded, OpenFails, Close, file

-----------------------------------------------------------------------------

LEMMA StoreStep == StoreInv /\ [Next]_vars => StoreInv'
<1> SUFFICES ASSUME StoreInv, [Next]_vars PROVE StoreInv'
  OBVIOUS
<1>1. CASE UNCHANGED vars
  BY <1>1 DEF vars, file, locals, StoreInv, StoreTypeOK, PassedColumnsExist, VersionMeansColumns
<1>2. ASSUME NEW o \in Openers,
             Begin(o) \/ Migrate(o) \/ OpenFails(o) \/ Close(o)
      PROVE  StoreInv'
  <2>1. StoreTypeOK' /\ VersionMeansColumns'
    BY <1>2, StepIsLocal, VersionStep
  <2>2. ASSUME NEW u \in Openers PROVE Knows(u)'
    <3>1. CASE u = o
      BY <1>2, <3>1, StepKnows
    <3>2. CASE u # o
      <4>1. Knows(u) /\ columns' \subseteq NewColumns
        BY <2>1, KnowsIsPassed DEF StoreInv, StoreTypeOK
      <4>2. /\ table => table'
            /\ columns \subseteq columns'
            /\ pc'[u] = pc[u] /\ column_names'[u] = column_names[u] /\ next'[u] = next[u]
        BY <1>2, <3>2, StepIsLocal
      <4> QED
        BY <4>1, <4>2 DEF Storeless, Knows
    <3> QED
      BY <3>1, <3>2
  <2>3. PassedColumnsExist'
    BY <2>2 DEF PassedColumnsExist, Knows
  <2> QED
    BY <2>1, <2>3 DEF StoreInv
<1> QED
  BY <1>1, <1>2 DEF Next

LEMMA StoreInit == Init => StoreInv
<1> SUFFICES ASSUME Init PROVE StoreInv
  OBVIOUS
<1>1. PICK s \in Stores : table = s.table /\ columns = s.columns /\ user_version = s.user_version
  BY DEF Init
<1>2. s \in Store /\ (s.user_version = Version => s.table /\ s.columns = NewColumns)
  BY StoreAssumption
<1>3. StoreTypeOK
  <2>1. table \in BOOLEAN /\ columns \in SUBSET NewColumns /\ user_version \in 0..Version
    BY <1>1, <1>2 DEF Store
  <2> QED
    BY <2>1, ColumnFacts DEF Init, Storeless, StoreTypeOK
<1>4. PassedColumnsExist
  BY DEF Init, Storeless, PassedColumnsExist
<1>5. VersionMeansColumns
  BY <1>1, <1>2 DEF VersionMeansColumns
<1> QED
  BY <1>3, <1>4, <1>5 DEF StoreInv

LEMMA StoreInvariant == Spec => []StoreInv
  BY StoreInit, StoreStep, PTL DEF Spec

(* Type correctness of StateStore.                                         *)
THEOREM StoreTypeCorrect == Spec => []StoreTypeOK
<1>1. StoreInv => StoreTypeOK
  BY DEF StoreInv
<1> QED
  BY <1>1, StoreInvariant, PTL

(* StateStore::migrate writes version 2 only when every column is there,   *)
(* however many processes migrate, fail or die at once.                    *)
THEOREM VersionIsEarned == Spec => []VersionMeansColumns
<1>1. StoreInv => VersionMeansColumns
  BY DEF StoreInv
<1> QED
  BY <1>1, StoreInvariant, PTL

(* What StateStore::migrate has read, added or been told stays true of the *)
(* file, whatever other processes do to it in between.                     *)
THEOREM KnownColumnsExist == Spec => []PassedColumnsExist
<1>1. StoreInv => PassedColumnsExist
  BY DEF StoreInv
<1> QED
  BY <1>1, StoreInvariant, PTL

(* A store that StateStore::open returned has the columns its statements   *)
(* name, and a file that says version 2 has them, too.                     *)
THEOREM FilesAreMigratedBeforeUse == Spec => []MigratedBeforeUse
<1>1. StoreInv => MigratedBeforeUse
  BY DEF StoreInv, Storeless, PassedColumnsExist, OpenMeansMigrated, MigratedBeforeUse
<1> QED
  BY <1>1, StoreInvariant, PTL

-----------------------------------------------------------------------------
(* The race of the migrations.  Columns are added in one order, so whoever *)
(* adds one has passed the earlier ones; and an opener that finds a column *)
(* missing that table_info did not show either passes every column another *)
(* has added since, and then fails, or is the one who is ahead.            *)

AddedInOrder ==
  \A o \in Openers : pc[o] = "addColumns" =>
    \A m \in 1..3 : ColumnOrder[m] \in columns \ column_names[o] =>
      \A n \in 1..(m - 1) : ColumnOrder[n] \in columns

RaceInv == StoreInv /\ AddedInOrder /\ SomebodyLeads

LEMMA ColumnsDiffer ==
  \A m, n \in 1..3 : ColumnOrder[m] = ColumnOrder[n] => m = n
  BY DEF ColumnOrder

(* An opener that adds a column has passed the earlier ones.               *)
LEMMA Adding ==
  ASSUME StoreInv, NEW o \in Openers, AddColumn(o), pc'[o] # "duplicateColumn"
  PROVE  /\ pc[o] = "addColumns" /\ pc' = pc
         /\ next[o] \in 1..3 /\ next'[o] = next[o] + 1
         /\ column_names' = column_names /\ user_version' = user_version
         /\ \/ columns' = columns /\ ColumnOrder[next[o]] \in column_names[o]
            \/ /\ columns' = columns \cup {ColumnOrder[next[o]]}
               /\ ColumnOrder[next[o]] \notin columns
         /\ \A n \in 1..(next[o] - 1) : ColumnOrder[n] \in columns
<1>1. StoreTypeOK /\ Knows(o)
  BY KnowsIsPassed DEF StoreInv
<1>2. pc[o] = "addColumns" /\ next[o] \in 1..3
  BY <1>1, ColumnFacts DEF AddColumn
<1>3. \A n \in 1..(next[o] - 1) : ColumnOrder[n] \in columns
  BY <1>1, <1>2 DEF Knows
<1> QED
  BY <1>1, <1>2, <1>3 DEF AddColumn, Goto, StoreTypeOK

LEMMA OrderStep ==
  ASSUME RaceInv, NEW o \in Openers,
         Begin(o) \/ Migrate(o) \/ OpenFails(o) \/ Close(o)
  PROVE  AddedInOrder'
<1> SUFFICES ASSUME NEW u \in Openers, pc'[u] = "addColumns",
                    NEW m \in 1..3, ColumnOrder[m] \in columns' \ column_names'[u],
                    NEW n \in 1..(m - 1)
             PROVE  ColumnOrder[n] \in columns'
  BY DEF AddedInOrder
<1>1. StoreTypeOK /\ StoreTypeOK' /\ columns \subseteq columns' /\ n \in 1..3
  BY StepIsLocal DEF RaceInv, StoreInv
<1>2. CASE columns' = columns
  <2>1. CASE pc[u] = "addColumns" /\ column_names'[u] = column_names[u]
    BY <1>2, <2>1 DEF RaceInv, AddedInOrder
  <2>2. CASE pc[u] # "addColumns" \/ column_names'[u] # column_names[u]
    <3>1. u = o
      BY <2>2, StepIsLocal DEF RaceInv
    <3>2. ReadColumns(o)
      BY <1>1, <2>2, <3>1 DEF Begin, Migrate, CreateTable, ReadVersion, ReadColumns, AddColumn,
                    ColumnsAdded, SetVersion, OpenFails, Close, Goto, StoreTypeOK
    <3>3. column_names'[u] = columns
      BY <1>1, <3>1, <3>2 DEF ReadColumns, StoreTypeOK
    <3> QED
      BY <1>2, <3>3
  <2> QED
    BY <2>1, <2>2
<1>3. CASE CreateTable(o)
  <2>1. columns' = columns \/ columns' = NewColumns
    BY <1>3 DEF CreateTable
  <2> QED
    BY <1>1, <1>2, <2>1, ColumnFacts
<1>4. CASE AddColumn(o) /\ columns' # columns
  <2>1. pc'[o] # "duplicateColumn"
    BY <1>1, <1>4 DEF AddColumn, Goto, StoreTypeOK
  <2>2. /\ columns' = columns \cup {ColumnOrder[next[o]]}
        /\ next[o] \in 1..3 /\ pc' = pc /\ column_names' = column_names
        /\ \A i \in 1..(next[o] - 1) : ColumnOrder[i] \in columns
    BY <1>4, <2>1, Adding DEF RaceInv
  <2>3. CASE m = next[o]
    BY <1>1, <2>2, <2>3
  <2>4. CASE m # next[o]
    <3>1. ColumnOrder[m] \in columns
      BY <2>2, <2>4, ColumnsDiffer
    <3> QED
      BY <1>1, <2>2, <3>1 DEF RaceInv, AddedInOrder
  <2> QED
    BY <2>3, <2>4
<1>5. columns' = columns \/ CreateTable(o) \/ AddColumn(o)
  BY DEF Begin, Migrate, ReadVersion, ReadColumns, ColumnsAdded, SetVersion, OpenFails, Close, file
<1> QED
  BY <1>2, <1>3, <1>4, <1>5

(* A leader stays one, or writes the version, or fails by itself, unless   *)
(* another opener adds a column.                                           *)
LEMMA LeaderStays ==
  ASSUME RaceInv, NEW o \in Openers,
         Begin(o) \/ Migrate(o) \/ OpenFails(o) \/ Close(o),
         NEW p \in Openers, Leader(p),
         p = o \/ columns' = columns
  PROVE  Leader(p)' \/ user_version' = Version \/ pc'[p] = "failed"
<1>1. StoreTypeOK /\ StoreTypeOK' /\ next[p] \in 1..4
  BY StepIsLocal, ColumnFacts DEF RaceInv, StoreInv, StoreTypeOK
<1>2. CASE p # o
  <2>1. pc'[p] = pc[p] /\ column_names'[p] = column_names[p] /\ next'[p] = next[p]
    BY <1>2, StepIsLocal DEF RaceInv
  <2> QED
    BY <1>2, <2>1 DEF Leader
<1>3. CASE p = o
  <2>1. CASE Begin(o) \/ CreateTable(o) \/ ReadVersion(o) \/ OpenFails(o) \/ ColumnsAdded(o)
    BY <1>1, <1>3, <2>1 DEF Begin, CreateTable, ReadVersion, OpenFails, ColumnsAdded, Goto,
                            StoreTypeOK, Leader
  <2>2. CASE ReadColumns(o)
    BY <1>1, <1>3, <2>2 DEF ReadColumns, Goto, file, StoreTypeOK, Leader
  <2>3. CASE SetVersion(o)
    BY <2>3 DEF SetVersion
  <2>4. CASE Close(o)
    BY <1>3, <2>4 DEF Close, Leader
  <2>5. CASE AddColumn(o)
    <3>1. columns \subseteq column_names[o] \cup {ColumnOrder[n] : n \in 1..(next[o] - 1)}
      BY <1>3, <2>5 DEF AddColumn, Leader
    <3>2. pc'[o] # "duplicateColumn"
      <4>1. SUFFICES ASSUME pc'[o] = "duplicateColumn" PROVE FALSE
        OBVIOUS
      <4>2. /\ next[o] \in 1..3
            /\ ColumnOrder[next[o]] \in columns \ column_names[o]
        BY <1>1, <2>5, <4>1, ColumnFacts DEF AddColumn, Goto, StoreTypeOK
      <4>3. PICK n \in 1..(next[o] - 1) : ColumnOrder[n] = ColumnOrder[next[o]]
        BY <3>1, <4>2
      <4> QED
        BY <4>2, <4>3, ColumnsDiffer
    <3>3. /\ next[o] \in 1..3 /\ next'[o] = next[o] + 1
          /\ columns' \subseteq columns \cup {ColumnOrder[next[o]]}
          /\ column_names' = column_names /\ pc'[o] = "addColumns"
      BY <2>5, <3>2, Adding DEF RaceInv
    <3>4. {ColumnOrder[n] : n \in 1..(next'[o] - 1)}
            = {ColumnOrder[n] : n \in 1..(next[o] - 1)} \cup {ColumnOrder[next[o]]}
      BY <3>3, OneMorePassed
    <3>5. columns' \subseteq column_names'[o] \cup {ColumnOrder[n] : n \in 1..(next'[o] - 1)}
      BY <3>1, <3>3, <3>4
    <3> QED
      BY <1>3, <3>3, <3>5 DEF Leader
  <2> QED
    BY <2>1, <2>2, <2>3, <2>4, <2>5 DEF Migrate
<1> QED
  BY <1>2, <1>3

(* Whoever adds a column leads from then on: what it has not passed, it    *)
(* has seen in table_info, since columns are added in order.               *)
LEMMA AdderLeads ==
  ASSUME RaceInv, NEW o \in Openers, AddColumn(o), columns' # columns
  PROVE  Leader(o)'
<1>1. pc'[o] # "duplicateColumn"
  BY DEF RaceInv, StoreInv, StoreTypeOK, AddColumn, Goto
<1>2. /\ pc[o] = "addColumns" /\ pc' = pc
      /\ next[o] \in 1..3 /\ next'[o] = next[o] + 1
      /\ column_names' = column_names
      /\ columns' = columns \cup {ColumnOrder[next[o]]}
      /\ ColumnOrder[next[o]] \notin columns
  BY <1>1, Adding DEF RaceInv
<1>3. ASSUME NEW c \in columns', c \notin column_names[o]
      PROVE  c \in {ColumnOrder[n] : n \in 1..(next'[o] - 1)}
  <2>1. PICK m \in 1..3 : c = ColumnOrder[m]
    BY <1>2, ColumnFacts DEF RaceInv, StoreInv, StoreTypeOK
  <2>2. CASE m <= next[o]
    BY <1>2, <2>1, <2>2
  <2>3. CASE m > next[o]
    <3>1. ColumnOrder[m] \in columns \ column_names[o] /\ next[o] \in 1..(m - 1)
      BY <1>2, <1>3, <2>1, <2>3, ColumnsDiffer
    <3>2. ColumnOrder[next[o]] \in columns
      BY <1>2, <3>1 DEF RaceInv, AddedInOrder
    <3> QED
      BY <1>2, <3>2
  <2> QED
    BY <1>2, <2>2, <2>3
<1> QED
  BY <1>2, <1>3 DEF Leader

LEMMA LeaderStep ==
  ASSUME RaceInv, NEW o \in Openers,
         Begin(o) \/ Migrate(o) \/ OpenFails(o) \/ Close(o)
  PROVE  SomebodyLeads'
<1>1. StoreTypeOK /\ VersionMeansColumns /\ PassedColumnsExist
  BY DEF RaceInv, StoreInv
<1>2. CASE user_version = Version
  <2>1. user_version' = Version
    BY <1>2 DEF Begin, Migrate, CreateTable, ReadVersion, ReadColumns, AddColumn,
                ColumnsAdded, SetVersion, OpenFails, Close, file
  <2> QED
    BY <2>1 DEF SomebodyLeads
<1>3. CASE Begin(o)
  <2>1. pc'[o] = "create"
    BY <1>1, <1>3 DEF Begin, Goto, StoreTypeOK
  <2> QED
    BY <2>1 DEF SomebodyLeads, Leader
<1>4. CASE \A p \in Openers : pc[p] = "closed"
  BY <1>3, <1>4 DEF Migrate, CreateTable, ReadVersion, ReadColumns, AddColumn, ColumnsAdded,
                    SetVersion, OpenFails, Close, Opening, Storeless
<1>5. CASE AddColumn(o) /\ columns' # columns
  BY <1>5, AdderLeads DEF SomebodyLeads
<1>6. CASE CreateTable(o)
  <2>1. pc'[o] = "readVersion"
    BY <1>1, <1>6 DEF CreateTable, Goto, StoreTypeOK
  <2> QED
    BY <2>1 DEF SomebodyLeads, Leader
<1>7. ASSUME NEW p \in Openers, pc[p] = "failed" PROVE SomebodyLeads'
  <2>1. CASE p # o
    BY <1>7, <2>1, StepIsLocal DEF RaceInv, SomebodyLeads
  <2>2. CASE p = o
    BY <1>3, <1>7, <2>2 DEF Migrate, CreateTable, ReadVersion, ReadColumns, AddColumn,
                ColumnsAdded, SetVersion, OpenFails, Close, Opening, Storeless
  <2> QED
    BY <2>1, <2>2
<1>8. ASSUME NEW p \in Openers, Leader(p), columns' = columns PROVE SomebodyLeads'
  BY <1>8, LeaderStays DEF SomebodyLeads
<1>9. columns' = columns \/ CreateTable(o) \/ AddColumn(o)
  BY DEF Begin, Migrate, ReadVersion, ReadColumns, ColumnsAdded, SetVersion, OpenFails, Close, file
<1> QED
  BY <1>2, <1>4, <1>5, <1>6, <1>7, <1>8, <1>9 DEF RaceInv, SomebodyLeads

LEMMA RaceStep == RaceInv /\ [Next]_vars => RaceInv'
<1> SUFFICES ASSUME RaceInv, [Next]_vars PROVE RaceInv'
  OBVIOUS
<1>1. StoreInv'
  BY StoreStep DEF RaceInv
<1>2. CASE UNCHANGED vars
  BY <1>1, <1>2 DEF vars, file, locals, RaceInv, AddedInOrder, SomebodyLeads, Leader
<1>3. ASSUME NEW o \in Openers,
             Begin(o) \/ Migrate(o) \/ OpenFails(o) \/ Close(o)
      PROVE  RaceInv'
  BY <1>1, <1>3, OrderStep, LeaderStep DEF RaceInv
<1> QED
  BY <1>2, <1>3 DEF Next

(* Openers that race to migrate one file through StateStore::migrate may   *)
(* fail each other with a column that is there already, but never all of   *)
(* them: as long as no statement fails by itself and the version is not    *)
(* written, one of them is at work that none of the others can stop.       *)
THEOREM RacesHaveALeader == Spec => []SomebodyLeads
<1>1. Init => RaceInv
  BY StoreInit DEF Init, RaceInv, AddedInOrder, SomebodyLeads
<1>2. RaceInv => SomebodyLeads
  BY DEF RaceInv
<1> QED
  BY <1>1, <1>2, RaceStep, PTL DEF Spec

=============================================================================
