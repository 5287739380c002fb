-------------------------- MODULE MigrationProofs --------------------------
(***************************************************************************)
(* Theorems about Migration, for any number of processes, organizations,   *)
(* outages and crashes.                                                    *)
(*                                                                         *)
(* What a run has done so far nobody takes back: other runs only add to    *)
(* the schema, and the applications insert what its constraints allow.  So *)
(* RunInv says of a run which tables it has completed, and RowInv what the *)
(* constraints that are there say of the rows.                             *)
(***************************************************************************)
EXTENDS Migration, TLAPS

\* A table with everything AutoMigrate gives it.
Done(t) == /\ t \in present /\ t \in indexed
           /\ ColumnOf(t) \subseteq columns
           /\ t = "organizations" => required

\* The tables AutoMigrate takes before t.
Before(t) == CASE t = "organizations" -> {}
               [] t = "users"         -> {"organizations"}
               [] OTHER               -> {"organizations", "users"}

AutoMigratePc == {"lookAtTable", "createTable", "addColumn", "alterColumn", "createIndex"}

FilledPc == AutoMigratePc \cup {"requireSignature", "indexSignature", "checkType", "dropType"}

\* No organization of the first n has ''.
NoEmptyTo(n) == \A o \in OrgId : organizations[o] = "empty" => o > n

RunInv(m) ==
    LET t == run[m].table
    IN  /\ \A s \in Before(t) : Done(s)
        /\ run[m].pc = "addColumn" => t \in present
        /\ run[m].pc = "alterColumn" => t = "organizations" /\ t \in present /\ ColumnOf(t) \subseteq columns
        /\ run[m].pc = "createIndex" => /\ t \in present /\ ColumnOf(t) \subseteq columns
                                        /\ t = "organizations" => required
        /\ run[m].since =< lastId
        /\ run[m].pc \in FilledPc /\ m \in unhurt => NoEmptyTo(run[m].since)

RowInv == /\ \A o \in OrgId : o > lastId => organizations[o] = Nil
          /\ "organizations" \notin present => Stored = {}
          /\ "signature" \notin columns => InUse \subseteq {"null"}
          /\ required => "null" \notin InUse
          /\ "organizations" \in indexed =>
                \A o, q \in Stored : organizations[o] = organizations[q] => o = q \/ organizations[o] = "null"

SettledInv == /\ settled =< lastId
              /\ settled # 0 => Complete /\ NoEmptyTo(settled)

MigrationInv == /\ MigrationTypeOK
                /\ \A m \in Migrators : RunInv(m)
                /\ RowInv
                /\ SuccessMeansComplete
                /\ SettledInv

-----------------------------------------------------------------------------
(* Facts about the data *)

\* A value an organization has is its row's.
LEMMA InUseIs ==
  ASSUME NEW v, v # Nil
  PROVE  v \in InUse <=> \E o \in Stored : organizations[o] = v
BY DEF InUse, Stored

LEMMA StoredInUse == \A o \in Stored : organizations[o] \in InUse
BY DEF InUse, Stored

\* What is drawn is new, and different for each row.
LEMMA DrawIsFresh ==
  ASSUME MigrationTypeOK, NEW keys \in SUBSET OrgId, \A k \in keys : organizations[k] \notin Signature
  PROVE  LET f == Draw(keys, InUse \cup {Nil})
         IN  /\ f \in [keys -> Drawn \ InUse]
             /\ \A j, k \in keys : f[j] = f[k] => j = k
<1>1. Drawn \ (InUse \cup {Nil}) = Drawn \ {organizations[o] : o \in OrgId}
  BY SignatureAssumption DEF InUse
<1>2. \E f \in [keys -> Drawn \ {organizations[o] : o \in OrgId}] :
         \A j, k \in keys : f[j] = f[k] => j = k
  BY DrawAssumption DEF MigrationTypeOK
<1>3. /\ Draw(keys, InUse \cup {Nil}) \in [keys -> Drawn \ (InUse \cup {Nil})]
      /\ \A j, k \in keys : Draw(keys, InUse \cup {Nil})[j] = Draw(keys, InUse \cup {Nil})[k] => j = k
  BY <1>1, <1>2 DEF Draw
<1>4. Drawn \ (InUse \cup {Nil}) = Drawn \ InUse
  BY SignatureAssumption
<1> QED
  BY <1>3, <1>4

\* The same before any row is stored.
LEMMA DrawWhenNoneStored ==
  ASSUME NEW keys \in SUBSET OrgId
  PROVE  LET f == Draw(keys, {Nil})
         IN  f \in [keys -> Drawn] /\ \A j, k \in keys : f[j] = f[k] => j = k
<1> DEFINE none == [o \in OrgId |-> Nil]
<1>1. none \in [OrgId -> Signature \cup Unsigned \cup {Nil}]
  OBVIOUS
<1>2. \A k \in keys : none[k] \notin Signature
  BY SignatureAssumption
<1>3. Drawn \ {none[o] : o \in OrgId} = Drawn \ {Nil}
  BY SignatureAssumption
<1> HIDE DEF none
<1>4. \E f \in [keys -> Drawn \ {none[o] : o \in OrgId}] : \A j, k \in keys : f[j] = f[k] => j = k
  BY <1>1, <1>2, DrawAssumption
<1>5. Draw(keys, {Nil}) \in [keys -> Drawn \ {Nil}]
      /\ \A j, k \in keys : Draw(keys, {Nil})[j] = Draw(keys, {Nil})[k] => j = k
  BY <1>3, <1>4 DEF Draw
<1> QED
  BY <1>5

\* A schema that only grows keeps what is complete complete.
Grows == /\ present \subseteq present' /\ indexed \subseteq indexed'
         /\ columns \ {"signature_type"} \subseteq columns'
         /\ required => required'

\* Only a new row gets ''.
NoNewEmpty == /\ lastId =< lastId'
              /\ \A o \in OrgId : organizations'[o] = "empty" => organizations[o] = "empty" \/ o > lastId

LEMMA EmptiesStayAway ==
  ASSUME NoNewEmpty, NEW n \in OrgId \cup {0}, n =< lastId, NoEmptyTo(n), lastId \in OrgId \cup {0}
  PROVE  \A o \in OrgId : organizations'[o] = "empty" => o > n
BY OrgIdAssumption DEF NoNewEmpty, NoEmptyTo

LEMMA ColumnsOfTables == \A t \in Table : ColumnOf(t) \subseteq {"password", "signature"}
BY DEF Table, ColumnOf

LEMMA DoneStays == ASSUME Grows, NEW t \in Table, Done(t) PROVE Done(t)'
BY ColumnsOfTables DEF Grows, Done, ColumnOf

LEMMA CompleteStays == ASSUME Grows, Complete, MigrationTypeOK' PROVE Complete'
BY DEF Grows, Complete, MigrationTypeOK

LEMMA BeforeIsTables == \A t \in Table : Before(t) \subseteq Table
BY DEF Before, Table

\* A process that does not move keeps its invariant while the schema grows and
\* no '' comes back.
LEMMA OthersStay ==
  ASSUME MigrationInv, Grows, NEW m \in Migrators,
         run'[m] = run[m], m \in unhurt' => m \in unhurt, NoNewEmpty, lastId' \in OrgId \cup {0}
  PROVE  RunInv(m)'
<1>1. RunInv(m) /\ run[m].table \in Table /\ run[m].since \in OrgId \cup {0} /\ lastId \in OrgId \cup {0}
  BY DEF MigrationInv, MigrationTypeOK, Run
<1>2. \A s \in Before(run[m].table) : Done(s)'
  BY <1>1, BeforeIsTables, DoneStays DEF RunInv
<1>3. ColumnOf(run[m].table) \subseteq columns => ColumnOf(run[m].table) \subseteq columns'
  BY <1>1, ColumnsOfTables DEF Grows
<1>4. run'[m].since =< lastId'
  BY <1>1, OrgIdAssumption DEF RunInv, NoNewEmpty
<1>5. run[m].pc \in FilledPc /\ m \in unhurt' => NoEmptyTo(run[m].since)'
  BY <1>1, EmptiesStayAway DEF RunInv, NoEmptyTo
<1> QED
  BY <1>1, <1>2, <1>3, <1>4, <1>5 DEF RunInv, Grows, Before, ColumnOf

LEMMA SettledStays ==
  ASSUME MigrationTypeOK, SettledInv, NoNewEmpty, lastId' \in OrgId \cup {0},
         settled' = settled, Complete => Complete'
  PROVE  SettledInv'
<1>1. lastId \in OrgId \cup {0} /\ settled \in OrgId \cup {0} /\ settled =< lastId
  BY DEF MigrationTypeOK, SettledInv
<1>2. settled' =< lastId'
  BY <1>1, OrgIdAssumption DEF NoNewEmpty
<1>3. settled # 0 => NoEmptyTo(settled)'
  BY <1>1, EmptiesStayAway DEF SettledInv, NoEmptyTo
<1> QED
  BY <1>2, <1>3 DEF SettledInv

\* What a step has to show of its own process and of the rows.
LEMMA Combine ==
  ASSUME MigrationInv, Grows, MigrationTypeOK', NEW m \in Migrators,
         \A n \in Migrators \ {m} : run'[n] = run[n] /\ (n \in unhurt' => n \in unhurt),
         NoNewEmpty, RunInv(m)', RowInv',
         migrated' # {} => migrated # {} \/ Complete',
         settled' = settled \/ (settled' =< lastId' /\ Complete' /\ NoEmptyTo(settled)')
  PROVE  MigrationInv'
<1>1. ASSUME NEW n \in Migrators PROVE RunInv(n)'
  <2>1. CASE n = m
    BY <2>1
  <2>2. CASE n # m
    BY <2>2, OthersStay DEF MigrationTypeOK
  <2> QED BY <2>1, <2>2
<1>2. Complete => Complete'
  BY CompleteStays
<1>3. SuccessMeansComplete'
  BY <1>2 DEF MigrationInv, SuccessMeansComplete
<1>4. SettledInv'
  <2>1. lastId' \in OrgId \cup {0}
    BY DEF MigrationTypeOK
  <2>2. CASE settled' = settled
    BY <1>2, <2>1, <2>2, SettledStays DEF MigrationInv
  <2>3. CASE settled' =< lastId' /\ Complete' /\ NoEmptyTo(settled)'
    BY <2>3 DEF SettledInv
  <2> QED BY <2>2, <2>3
<1> QED
  BY <1>1, <1>3, <1>4 DEF MigrationInv

\* A step that leaves the rows alone brings no '' back.
LEMMA RowsStay ==
  ASSUME organizations' = organizations
  PROVE  InUse' = InUse /\ Stored' = Stored
BY DEF InUse, Stored

LEMMA QuietRows ==
  ASSUME MigrationInv, organizations' = organizations, lastId' = lastId
  PROVE  InUse' = InUse /\ Stored' = Stored /\ NoNewEmpty /\ lastId' \in OrgId \cup {0}
<1>1. lastId \in OrgId \cup {0} /\ lastId =< lastId'
  BY OrgIdAssumption DEF MigrationInv, MigrationTypeOK
<1> QED
  BY <1>1, RowsStay DEF NoNewEmpty

LEMMA StartMigrateKeeps ==
  ASSUME MigrationInv, NEW m \in Migrators, StartMigrate(m) PROVE MigrationInv'
<1> USE DEF StartMigrate, schema, rows
<1>1. MigrationTypeOK'
  BY DEF MigrationInv, MigrationTypeOK, Run, Idle, Pc, Table
<1>2. run'[m].pc = "checkPassword" /\ run'[m].table = "organizations" /\ run'[m].since = lastId
  BY DEF MigrationInv, MigrationTypeOK, Idle
<1>3. RunInv(m)'
  BY <1>2, OrgIdAssumption DEF MigrationInv, MigrationTypeOK, RunInv, Before, FilledPc, AutoMigratePc
<1>4. RowInv' /\ Grows
  BY RowsStay DEF MigrationInv, RowInv, Grows
<1>5. \A n \in Migrators \ {m} : run'[n] = run[n] /\ (n \in unhurt' => n \in unhurt)
  BY DEF MigrationInv, MigrationTypeOK
<1> QED
  BY <1>1, <1>3, <1>4, <1>5, QuietRows, Combine DEF MigrationInv, MigrationTypeOK

\* A step of the preparation goes on in the same table.
LEMMA ProceedIs ==
  ASSUME MigrationTypeOK, NEW m \in Migrators, NEW pc \in Pc, Goto(m, pc)
  PROVE  /\ run' \in [Migrators -> Run]
         /\ run'[m] = [run[m] EXCEPT !.pc = pc]
         /\ run'[m].pc = pc /\ run'[m].table = run[m].table /\ run'[m].since = run[m].since
         /\ \A n \in Migrators \ {m} : run'[n] = run[n]
BY DEF Goto, MigrationTypeOK, Run

\* What such a step has to show of its process: that '' is gone once the filling
\* is behind it.
LEMMA PreparationKeeps ==
  ASSUME MigrationInv, Grows, NEW m \in Migrators,
         run'[m].table = run[m].table, run'[m].since = run[m].since, NoNewEmpty, lastId' \in OrgId \cup {0},
         run'[m].pc \notin {"addColumn", "alterColumn", "createIndex"},
         run'[m].pc \in FilledPc /\ m \in unhurt' => NoEmptyTo(run[m].since) \/ (\A o \in OrgId : organizations'[o] # "empty")
  PROVE  RunInv(m)'
<1>1. RunInv(m) /\ run[m].table \in Table /\ run[m].since \in OrgId \cup {0} /\ lastId \in OrgId \cup {0}
  BY DEF MigrationInv, MigrationTypeOK, Run
<1>2. \A s \in Before(run[m].table) : Done(s)'
  BY <1>1, BeforeIsTables, DoneStays DEF RunInv
<1>3. run'[m].since =< lastId'
  BY <1>1, OrgIdAssumption DEF RunInv, NoNewEmpty
<1>4. run'[m].pc \in FilledPc /\ m \in unhurt' => NoEmptyTo(run[m].since)'
  BY <1>1, EmptiesStayAway DEF RunInv, NoEmptyTo
<1> QED
  BY <1>2, <1>3, <1>4 DEF RunInv, Before, NoEmptyTo

LEMMA CheckColumnKeeps ==
  ASSUME MigrationInv, NEW m \in Migrators, CheckColumn(m) PROVE MigrationInv'
<1> USE DEF schema, rows, history
<1>0. UNCHANGED <<schema, rows, history>>
  BY DEF CheckColumn
<1>1. PICK pc \in {"checkSignature", "addPassword", "fillSignatures", "addSignature", "dropType", "lookAtTable"} :
         /\ Goto(m, pc)
         /\ pc \in {"dropType", "lookAtTable"} => run[m].pc = "checkType"
  <2>1. CASE At(m, "checkPassword")
    BY <2>1 DEF CheckColumn, At
  <2>2. CASE At(m, "checkSignature")
    BY <2>2 DEF CheckColumn, At
  <2>3. CASE At(m, "checkType")
    BY <2>3 DEF CheckColumn, At
  <2> QED
    BY <2>1, <2>2, <2>3 DEF CheckColumn
<1>2. pc \in Pc
  BY <1>1 DEF Pc
<1>3. /\ run' \in [Migrators -> Run]
      /\ run'[m].pc = pc /\ run'[m].table = run[m].table /\ run'[m].since = run[m].since
      /\ \A n \in Migrators \ {m} : run'[n] = run[n]
  BY <1>1, <1>2, ProceedIs DEF MigrationInv
<1>4. MigrationTypeOK' /\ Grows /\ RowInv'
  BY <1>0, <1>3, RowsStay DEF MigrationInv, MigrationTypeOK, Grows, RowInv
<1>5. run[m].pc \in FilledPc /\ m \in unhurt => NoEmptyTo(run[m].since)
  BY DEF MigrationInv, RunInv
<1>6. run'[m].pc \in FilledPc => run[m].pc \in FilledPc
  BY <1>1, <1>3 DEF FilledPc, AutoMigratePc
<1>7. RunInv(m)'
  BY <1>0, <1>1, <1>3, <1>4, <1>5, <1>6, QuietRows, PreparationKeeps
<1> QED
  BY <1>0, <1>3, <1>4, <1>7, QuietRows, Combine

\* The statements of the preparation, each with what it does to the rows and
\* to the schema.
LEMMA ProceedKeeps ==
  ASSUME MigrationInv, Grows, MigrationTypeOK', RowInv',
         NEW m \in Migrators, NEW pc \in Pc \ AutoMigratePc, At(m, pc), Proceed(m), pc # "idle",
         UNCHANGED history,
         pc = "fillSignatures" => \A o \in OrgId : organizations'[o] # "empty", NoNewEmpty
  PROVE  MigrationInv'
<1> USE DEF history
<1>1. PICK next \in Pc : /\ next = AfterError[pc]
                         /\ next \notin {"addColumn", "alterColumn", "createIndex"}
                         /\ next \in FilledPc => pc \in FilledPc \cup {"fillSignatures"}
  BY DEF AfterError, Pc, FilledPc, AutoMigratePc
<1>2. Goto(m, next)
  BY <1>1 DEF Proceed, At
<1>3. /\ run'[m].pc = next /\ run'[m].table = run[m].table /\ run'[m].since = run[m].since
      /\ \A n \in Migrators \ {m} : run'[n] = run[n]
  BY <1>2, ProceedIs DEF MigrationInv
<1>4. run[m].pc \in FilledPc /\ m \in unhurt => NoEmptyTo(run[m].since)
  BY DEF MigrationInv, RunInv
<1>5. RunInv(m)'
  <2>1. lastId' \in OrgId \cup {0}
    BY DEF MigrationTypeOK
  <2> QED
    BY <1>1, <1>3, <1>4, <2>1, PreparationKeeps DEF At
<1> QED
  BY <1>3, <1>5, Combine

\* The next statement is always known.
LEMMA ProceedType ==
  ASSUME MigrationTypeOK, NEW m \in Migrators, Proceed(m)
  PROVE  run' \in [Migrators -> Run]
<1>1. AfterError[run[m].pc] \in Pc
  BY DEF AfterError, MigrationTypeOK, Run, Pc
<1> QED
  BY <1>1, ProceedIs DEF Proceed

LEMMA AddPasswordKeeps ==
  ASSUME MigrationInv, NEW m \in Migrators, AddPassword(m) PROVE MigrationInv'
<1> USE DEF AddPassword, rows, history
<1>1. MigrationTypeOK'
  BY ProceedType DEF MigrationInv, MigrationTypeOK, Column
<1>2. Grows /\ RowInv'
  BY RowsStay DEF MigrationInv, Grows, RowInv
<1> QED
  BY <1>1, <1>2, QuietRows, ProceedKeeps DEF Pc, AutoMigratePc

LEMMA AddSignatureKeeps ==
  ASSUME MigrationInv, NEW m \in Migrators, AddSignature(m) PROVE MigrationInv'
<1> USE DEF AddSignature, rows, history
<1>1. MigrationTypeOK'
  BY ProceedType DEF MigrationInv, MigrationTypeOK, Column
<1>2. Grows /\ RowInv'
  BY RowsStay DEF MigrationInv, Grows, RowInv
<1> QED
  BY <1>1, <1>2, QuietRows, ProceedKeeps DEF Pc, AutoMigratePc

\* After the filling nobody lacks a signature, and no signature has changed.
LEMMA Filled ==
  ASSUME MigrationInv, Fill
  PROVE  /\ organizations' \in [OrgId -> Signature \cup {Nil}]
         /\ Stored' = Stored
         /\ \A o \in Stored : organizations[o] \in Signature => organizations'[o] = organizations[o]
         /\ \A o, q \in Stored : organizations'[o] = organizations'[q] =>
               o = q \/ (organizations[o] = organizations[q] /\ organizations[o] \in Signature)
<1> DEFINE f == Draw(ToFill, InUse \cup {Nil})
<1>1. ToFill \in SUBSET OrgId /\ \A k \in ToFill : organizations[k] \notin Signature
  BY SignatureAssumption DEF ToFill, Stored
<1>2. f \in [ToFill -> Drawn \ InUse] /\ \A j, k \in ToFill : f[j] = f[k] => j = k
  BY <1>1, DrawIsFresh DEF MigrationInv
<1>3. organizations \in [OrgId -> Signature \cup Unsigned \cup {Nil}]
  BY DEF MigrationInv, MigrationTypeOK
<1>4. organizations' = [o \in OrgId |-> IF o \in ToFill THEN f[o] ELSE organizations[o]]
  BY DEF Fill
<1> HIDE DEF f
<1>5. \A o \in OrgId : o \notin ToFill => organizations[o] \in Signature \cup {Nil}
  BY <1>3 DEF ToFill, Stored
<1>6. \A o \in ToFill : f[o] \in Signature /\ f[o] # Nil /\ f[o] \notin InUse
  BY <1>2, SignatureAssumption
<1>7. organizations' \in [OrgId -> Signature \cup {Nil}]
  BY <1>4, <1>5, <1>6
<1>8. Stored' = Stored
  BY <1>4, <1>6, SignatureAssumption DEF Stored, ToFill, Unsigned
<1>9. \A o \in Stored : organizations[o] \in Signature => organizations'[o] = organizations[o]
  BY <1>1, <1>4 DEF Stored
<1>10. ASSUME NEW o \in Stored, NEW q \in Stored, organizations'[o] = organizations'[q]
       PROVE  o = q \/ (organizations[o] = organizations[q] /\ organizations[o] \in Signature)
  <2>1. organizations[o] \in InUse /\ organizations[q] \in InUse /\ o \in OrgId /\ q \in OrgId
    BY StoredInUse DEF Stored
  <2>2. CASE o \in ToFill /\ q \in ToFill
    BY <1>2, <1>4, <1>10, <2>1, <2>2
  <2>3. CASE (o \in ToFill) # (q \in ToFill)
    BY <1>4, <1>6, <1>10, <2>1, <2>3
  <2>4. CASE o \notin ToFill /\ q \notin ToFill
    BY <1>4, <1>5, <1>10, <2>1, <2>4 DEF Stored
  <2> QED BY <2>2, <2>3, <2>4
<1> QED
  BY <1>7, <1>8, <1>9, <1>10

LEMMA FillSignaturesKeeps ==
  ASSUME MigrationInv, NEW m \in Migrators, FillSignatures(m) PROVE MigrationInv'
<1> USE DEF FillSignatures, schema, history
<1>1. run' \in [Migrators -> Run]
  BY ProceedType DEF MigrationInv
<1>2. CASE "signature" \notin columns
  <2>1. organizations' = organizations
    BY <1>2
  <2>2. MigrationTypeOK' /\ Grows /\ RowInv'
    BY <1>1, <2>1, RowsStay DEF MigrationInv, MigrationTypeOK, Grows, RowInv
  <2>3. NoNewEmpty /\ \A o \in OrgId : organizations'[o] # "empty"
    BY <1>2, <2>1, QuietRows, SignatureAssumption DEF MigrationInv, RowInv, InUse, Unsigned
  <2> QED
    BY <2>2, <2>3, ProceedKeeps DEF Pc, AutoMigratePc
<1>3. CASE "signature" \in columns
  <2>1. Fill
    BY <1>3
  <2>2. MigrationTypeOK' /\ Grows
    BY <1>1, <2>1, Filled DEF MigrationInv, MigrationTypeOK, Grows
  <2>3. InUse' \subseteq Signature
    BY <2>1, Filled DEF InUse
  <2>4. "empty" \notin InUse' /\ "null" \notin InUse'
    BY <2>3, SignatureAssumption DEF Unsigned
  <2>5. \A o \in OrgId : organizations[o] = Nil => organizations'[o] = Nil
    BY <2>1, Filled DEF Stored
  <2>6. "organizations" \in indexed => \A o, q \in Stored' : organizations'[o] = organizations'[q] => o = q
    <3>1. ASSUME NEW o \in Stored, NEW q \in Stored, organizations'[o] = organizations'[q],
                 "organizations" \in indexed
          PROVE  o = q
      <4>1. o = q \/ (organizations[o] = organizations[q] /\ organizations[o] \in Signature)
        BY <2>1, <3>1, Filled
      <4>2. organizations[o] = organizations[q] => o = q \/ organizations[o] = "null"
        BY <3>1 DEF MigrationInv, RowInv
      <4> QED
        BY <4>1, <4>2, SignatureAssumption DEF Unsigned
    <3> QED
      BY <3>1, <2>1, Filled
  <2>7. Stored' = Stored
    BY <2>1, Filled
  <2>9. NoNewEmpty /\ \A o \in OrgId : organizations'[o] # "empty"
    <3>1. lastId \in OrgId \cup {0} /\ lastId' = lastId
      BY DEF MigrationInv, MigrationTypeOK
    <3>2. lastId =< lastId'
      BY <3>1, OrgIdAssumption
    <3>3. \A o \in OrgId : organizations'[o] # "empty"
      BY <2>4, SignatureAssumption DEF InUse, Unsigned
    <3> QED
      BY <3>2, <3>3 DEF NoNewEmpty
  <2>8. RowInv'
    BY <1>3, <2>4, <2>5, <2>6, <2>7 DEF MigrationInv, RowInv
  <2> QED
    BY <2>2, <2>8, <2>9, ProceedKeeps DEF Pc, AutoMigratePc
<1> QED
  BY <1>2, <1>3

LEMMA RequireSignatureKeeps ==
  ASSUME MigrationInv, NEW m \in Migrators, RequireSignature(m) PROVE MigrationInv'
<1> USE DEF RequireSignature, rows, history
<1>1. MigrationTypeOK'
  BY ProceedType DEF MigrationInv, MigrationTypeOK
<1>2. Grows /\ RowInv'
  BY RowsStay DEF MigrationInv, Grows, RowInv, CanRequire
<1> QED
  BY <1>1, <1>2, QuietRows, ProceedKeeps DEF Pc, AutoMigratePc

LEMMA IndexSignatureKeeps ==
  ASSUME MigrationInv, NEW m \in Migrators, IndexSignature(m) PROVE MigrationInv'
<1> USE DEF IndexSignature, rows, history
<1>1. MigrationTypeOK'
  BY ProceedType DEF MigrationInv, MigrationTypeOK, CanIndex
<1>2. Grows /\ RowInv'
  BY RowsStay DEF MigrationInv, Grows, RowInv, CanIndex
<1> QED
  BY <1>1, <1>2, QuietRows, ProceedKeeps DEF Pc, AutoMigratePc

LEMMA DropTypeKeeps ==
  ASSUME MigrationInv, NEW m \in Migrators, DropType(m) PROVE MigrationInv'
<1> USE DEF DropType, rows, history
<1>1. run' \in [Migrators -> Run] /\ Goto(m, "lookAtTable")
  BY ProceedType DEF MigrationInv, Proceed, At, AfterError, Pc
<1>2. MigrationTypeOK' /\ Grows /\ RowInv'
  BY <1>1, RowsStay DEF MigrationInv, MigrationTypeOK, Grows, RowInv
<1>3. /\ run'[m].pc = "lookAtTable" /\ run'[m].table = run[m].table /\ run'[m].since = run[m].since
      /\ \A n \in Migrators \ {m} : run'[n] = run[n]
  BY <1>1, ProceedIs DEF MigrationInv, Pc
<1>4. m \in unhurt => NoEmptyTo(run[m].since)
  BY DEF MigrationInv, RunInv, At, FilledPc
<1>5. RunInv(m)'
  BY <1>2, <1>3, <1>4, QuietRows, PreparationKeeps
<1> QED
  BY <1>2, <1>3, <1>5, QuietRows, Combine

LEMMA IdleIsRun == Idle \in Run
BY DEF Idle, Run, Pc, Table

\* A process that has ended its run.
LEMMA IdleInv ==
  ASSUME NEW m \in Migrators, run'[m] = Idle, MigrationTypeOK'
  PROVE  RunInv(m)'
<1>1. 0 =< lastId'
  BY OrgIdAssumption DEF MigrationTypeOK
<1>2. run'[m].pc = "idle" /\ run'[m].table = "organizations" /\ run'[m].since = 0
  BY DEF Idle
<1> QED
  BY <1>1, <1>2 DEF RunInv, Before, FilledPc, AutoMigratePc

-----------------------------------------------------------------------------
(* AutoMigrate *)

\* Its statements leave the rows alone; what is left to show is the table's.
LEMMA AutoMigrateKeeps ==
  ASSUME MigrationInv, Grows, RowInv', NEW m \in Migrators, NEW pc \in AutoMigratePc,
         run[m].pc \in AutoMigratePc, Goto(m, pc), UNCHANGED <<rows, history>>,
         present' \in SUBSET Table, columns' \in SUBSET Column, required' \in BOOLEAN, indexed' \subseteq present',
         pc = "addColumn" => run[m].table \in present',
         pc = "alterColumn" => /\ run[m].table = "organizations"
                               /\ run[m].table \in present' /\ ColumnOf(run[m].table) \subseteq columns',
         pc = "createIndex" => /\ run[m].table \in present' /\ ColumnOf(run[m].table) \subseteq columns'
                               /\ run[m].table = "organizations" => required'
  PROVE  MigrationInv'
<1> USE DEF rows, history
<1>1. pc \in Pc
  BY DEF Pc, AutoMigratePc
<1>2. /\ run' \in [Migrators -> Run]
      /\ run'[m].pc = pc /\ run'[m].table = run[m].table /\ run'[m].since = run[m].since
      /\ \A n \in Migrators \ {m} : run'[n] = run[n]
  BY <1>1, ProceedIs DEF MigrationInv
<1>3. MigrationTypeOK'
  BY <1>2 DEF MigrationInv, MigrationTypeOK
<1>4. RunInv(m) /\ run[m].table \in Table
  BY DEF MigrationInv, MigrationTypeOK, Run
<1>5. \A s \in Before(run[m].table) : Done(s)'
  BY <1>4, BeforeIsTables, DoneStays DEF RunInv
<1>6. /\ m \in unhurt => NoEmptyTo(run[m].since)'
      /\ run'[m].since =< lastId'
  BY <1>2, <1>4 DEF RunInv, FilledPc, NoEmptyTo
<1>7. RunInv(m)'
  BY <1>2, <1>5, <1>6 DEF RunInv, Before, ColumnOf
<1> QED
  BY <1>2, <1>3, <1>7, QuietRows, Combine

LEMMA LookAtTableKeeps ==
  ASSUME MigrationInv, NEW m \in Migrators, LookAtTable(m) PROVE MigrationInv'
<1> USE DEF LookAtTable, At, schema
<1>1. Grows /\ RowInv'
  BY RowsStay DEF MigrationInv, Grows, RowInv, rows
<1>2. /\ present' \in SUBSET Table /\ columns' \in SUBSET Column
      /\ required' \in BOOLEAN /\ indexed' \subseteq present'
  BY DEF MigrationInv, MigrationTypeOK
<1>3. run[m].pc \in AutoMigratePc
  BY DEF AutoMigratePc
<1> DEFINE t == run[m].table
<1>4. CASE t \notin present
  <2>1. Goto(m, "createTable") BY <1>4
  <2> QED BY <1>1, <1>2, <1>3, <2>1, AutoMigrateKeeps DEF AutoMigratePc
<1>5. CASE t \in present /\ ~ ColumnOf(t) \subseteq columns
  <2>1. Goto(m, "addColumn") BY <1>5
  <2> QED BY <1>1, <1>2, <1>3, <1>5, <2>1, AutoMigrateKeeps DEF AutoMigratePc
<1>6. CASE t \in present /\ ColumnOf(t) \subseteq columns /\ t = "organizations" /\ ~required
  <2>1. Goto(m, "alterColumn") BY <1>6
  <2> QED BY <1>1, <1>2, <1>3, <1>6, <2>1, AutoMigrateKeeps DEF AutoMigratePc
<1>7. CASE t \in present /\ ColumnOf(t) \subseteq columns /\ ~ (t = "organizations" /\ ~required)
  <2>1. Goto(m, "createIndex") BY <1>7
  <2> QED BY <1>1, <1>2, <1>3, <1>7, <2>1, AutoMigrateKeeps DEF AutoMigratePc
<1> QED
  BY <1>4, <1>5, <1>6, <1>7

LEMMA CreateTableKeeps ==
  ASSUME MigrationInv, NEW m \in Migrators, CreateTable(m) PROVE MigrationInv'
<1> DEFINE t == run[m].table
<1> USE DEF CreateTable, At, rows
<1>0. t \in Table /\ MigrationTypeOK
  BY DEF MigrationInv, MigrationTypeOK, Run
<1>1. /\ present' \in SUBSET Table /\ columns' \in SUBSET Column
      /\ required' \in BOOLEAN /\ indexed' \subseteq present'
  BY <1>0 DEF MigrationTypeOK, ColumnOf, Column
<1>2. Grows
  BY DEF Grows
<1>3. t = "organizations" => Stored = {} /\ InUse = {}
  BY DEF MigrationInv, RowInv, Stored, InUse
<1>4. RowInv'
  BY <1>3, RowsStay DEF MigrationInv, RowInv, ColumnOf
<1> QED
  BY <1>1, <1>2, <1>4, AutoMigrateKeeps DEF AutoMigratePc

LEMMA AddColumnKeeps ==
  ASSUME MigrationInv, NEW m \in Migrators, AddColumn(m) PROVE MigrationInv'
<1> DEFINE t == run[m].table
<1> USE DEF AddColumn, At, rows
<1>0. t \in Table /\ MigrationTypeOK /\ RunInv(m)
  BY DEF MigrationInv, MigrationTypeOK, Run
<1>1. /\ present' \in SUBSET Table /\ columns' \in SUBSET Column
      /\ required' \in BOOLEAN /\ indexed' \subseteq present'
  BY <1>0 DEF MigrationTypeOK, ColumnOf, Column
<1>2. Grows
  BY DEF Grows
<1>3. t = "organizations" => Stored = {} /\ InUse = {}
  BY DEF CanAddSignature, Stored, InUse
<1>4. RowInv'
  BY <1>3, RowsStay DEF MigrationInv, RowInv, ColumnOf
<1>5. t \in present
  BY <1>0 DEF RunInv
<1> QED
  BY <1>1, <1>2, <1>4, <1>5, AutoMigrateKeeps DEF AutoMigratePc

LEMMA AlterColumnKeeps ==
  ASSUME MigrationInv, NEW m \in Migrators, AlterColumn(m) PROVE MigrationInv'
<1> USE DEF AlterColumn, At, rows
<1>1. /\ present' \in SUBSET Table /\ columns' \in SUBSET Column
      /\ required' \in BOOLEAN /\ indexed' \subseteq present'
  BY DEF MigrationInv, MigrationTypeOK
<1>2. Grows /\ RowInv'
  BY RowsStay DEF MigrationInv, Grows, RowInv, CanRequire
<1>3. run[m].table \in present /\ ColumnOf(run[m].table) \subseteq columns
  BY DEF MigrationInv, RunInv
<1> QED
  BY <1>1, <1>2, <1>3, AutoMigrateKeeps DEF AutoMigratePc

LEMMA CreateIndexKeeps ==
  ASSUME MigrationInv, NEW m \in Migrators, CreateIndex(m) PROVE MigrationInv'
<1> USE DEF CreateIndex, At, rows
<1>0. PICK t \in Table : t = run[m].table
  BY DEF MigrationInv, MigrationTypeOK, Run
<1>1. t = run[m].table /\ MigrationTypeOK /\ RunInv(m) /\ t \in present
  BY <1>0 DEF MigrationInv, CanIndex
<1>2. Grows
  BY DEF Grows
<1>3. RowInv'
  BY RowsStay DEF MigrationInv, RowInv, CanIndex
<1>4. Done(t)'
  BY <1>1 DEF RunInv, Done
<1>5. \A s \in Before(t) : Done(s)'
  BY <1>1, <1>2, BeforeIsTables, DoneStays DEF RunInv
<1>6. /\ m \in unhurt => \A o \in OrgId : organizations'[o] = "empty" => o > run[m].since
      /\ run[m].since =< lastId'
  BY <1>1 DEF RunInv, FilledPc, AutoMigratePc, NoEmptyTo
<1>7. CASE t # "invitations"
  <2>1. run' = [run EXCEPT ![m] = [@ EXCEPT !.pc = "lookAtTable", !.table = NextTable(t)]] /\ UNCHANGED <<migrated, settled>>
    BY <1>1, <1>7
  <2>2. /\ run'[m].pc = "lookAtTable" /\ run'[m].table = NextTable(t) /\ run'[m].since = run[m].since
        /\ \A n \in Migrators \ {m} : run'[n] = run[n]
        /\ run' \in [Migrators -> Run]
    <3>1. run[m] \in Run /\ NextTable(t) \in Table /\ "lookAtTable" \in Pc
      BY <1>1 DEF MigrationTypeOK, NextTable, Table, Pc
    <3>2. PICK r : r = [run[m] EXCEPT !.pc = "lookAtTable", !.table = NextTable(t)]
      OBVIOUS
    <3>3. r \in Run /\ r.pc = "lookAtTable" /\ r.table = NextTable(t) /\ r.since = run[m].since
      BY <3>1, <3>2 DEF Run
    <3>4. run' = [run EXCEPT ![m] = r] /\ run \in [Migrators -> Run]
      BY <1>1, <2>1, <3>2 DEF MigrationTypeOK
    <3> QED
      BY <3>3, <3>4
  <2>3. MigrationTypeOK'
    BY <1>1, <2>1, <2>2 DEF MigrationTypeOK
  <2>4. Before(NextTable(t)) \subseteq Before(t) \cup {t}
    BY <1>1, <1>7 DEF Before, NextTable, Table
  <2>5. \A s \in Before(NextTable(t)) : Done(s)'
    BY <1>4, <1>5, <2>4
  <2>6. RunInv(m)'
    BY <1>6, <2>2, <2>5 DEF RunInv, NoEmptyTo
  <2> QED
    BY <1>2, <1>3, <2>1, <2>2, <2>3, <2>6, QuietRows, Combine
<1>8. CASE t = "invitations"
  <2>1. Finish(m)
    BY <1>1, <1>8
  <2>2. /\ run'[m] = Idle
        /\ \A n \in Migrators \ {m} : run'[n] = run[n]
        /\ run' \in [Migrators -> Run]
    BY <1>1, <2>1, IdleIsRun DEF Finish, MigrationTypeOK
  <2>3. MigrationTypeOK'
    <3>1. run[m].since \in OrgId \cup {0} /\ settled \in OrgId \cup {0}
      BY <1>1 DEF MigrationTypeOK, Run
    <3>2. settled' \in OrgId \cup {0} /\ migrated' \subseteq Migrators
      BY <1>1, <2>1, <3>1 DEF MigrationTypeOK, Finish
    <3> QED
      BY <1>1, <2>2, <3>2 DEF MigrationTypeOK
  <2>4. Done("organizations")' /\ Done("users")' /\ Done("invitations")'
    BY <1>4, <1>5, <1>8 DEF Before
  <2>5. Complete'
    BY <2>3, <2>4 DEF Complete, Done, ColumnOf, MigrationTypeOK, Table
  <2>6. RunInv(m)'
    BY <2>2, <2>3, IdleInv
  <2>7. settled' = settled \/ (settled' = run[m].since /\ m \in unhurt)
    BY <2>1 DEF Finish
  <2>8. settled' = settled \/ (settled' =< lastId' /\ NoEmptyTo(settled)')
    BY <1>6, <2>7 DEF NoEmptyTo
  <2> QED
    BY <1>2, <1>3, <1>6, <2>2, <2>3, <2>5, <2>6, <2>8, QuietRows, Combine
<1> QED
  BY <1>7, <1>8

-----------------------------------------------------------------------------
(* A run that ends early, and the applications *)

\* A run that is given up leaves no trace.
LEMMA GivenUp ==
  ASSUME MigrationInv, NEW m \in Migrators, run' = [run EXCEPT ![m] = Idle],
         UNCHANGED <<schema, rows, migrated, settled>>,
         unhurt' \in {unhurt, unhurt \ {m}}, failures' \in 0..MaxFailures
  PROVE  MigrationInv'
<1> USE DEF schema, rows
<1>1. /\ run'[m] = Idle
      /\ \A n \in Migrators \ {m} : run'[n] = run[n]
      /\ run' \in [Migrators -> Run]
  BY IdleIsRun DEF MigrationInv, MigrationTypeOK
<1>2. MigrationTypeOK' /\ Grows /\ RowInv'
  BY <1>1, RowsStay DEF MigrationInv, MigrationTypeOK, Grows, RowInv
<1>3. RunInv(m)'
  BY <1>1, <1>2, IdleInv
<1> QED
  BY <1>1, <1>2, <1>3, QuietRows, Combine

LEMMA OutageKeeps ==
  ASSUME MigrationInv, NEW m \in Migrators, Outage(m) PROVE MigrationInv'
<1> USE DEF Outage, schema, rows
<1>1. failures' \in 0..MaxFailures
  BY FailuresAssumption DEF MigrationInv, MigrationTypeOK
<1> DEFINE next == AfterError[run[m].pc]
<1>2. CASE next = "idle"
  BY <1>1, <1>2, GivenUp
<1>3. CASE next # "idle"
  <2>1. run[m] \in Run /\ run[m].pc # "idle"
    BY DEF MigrationInv, MigrationTypeOK, At
  <2>2. next \in Pc \ {"addColumn", "alterColumn", "createIndex"}
    BY <2>1, <1>3 DEF AfterError, Pc, Run
  <2> HIDE DEF next
  <2>3. /\ run'[m].pc = next /\ run'[m].table = run[m].table /\ run'[m].since = run[m].since
        /\ \A n \in Migrators \ {m} : run'[n] = run[n]
        /\ run' \in [Migrators -> Run]
    BY <1>3, <2>1, <2>2 DEF MigrationInv, MigrationTypeOK, Run, next
  <2>4. MigrationTypeOK' /\ Grows /\ RowInv'
    BY <1>1, <2>3, RowsStay DEF MigrationInv, MigrationTypeOK, Grows, RowInv
  <2>5. RunInv(m)'
    BY <2>2, <2>3, <2>4, QuietRows, PreparationKeeps
  <2> QED
    BY <2>3, <2>4, <2>5, QuietRows, Combine
<1> QED
  BY <1>2, <1>3

LEMMA CrashKeeps ==
  ASSUME MigrationInv, NEW m \in Migrators, Crash(m) PROVE MigrationInv'
<1>1. failures' \in 0..MaxFailures
  BY FailuresAssumption DEF MigrationInv, MigrationTypeOK, Crash
<1> QED
  BY <1>1, GivenUp DEF Crash

LEMMA RefusedKeeps ==
  ASSUME MigrationInv, NEW m \in Migrators, Refused(m) PROVE MigrationInv'
<1>1. failures' \in 0..MaxFailures
  BY DEF MigrationInv, MigrationTypeOK, Refused, history
<1> QED
  BY <1>1, GivenUp DEF Refused, history

\* An organization that is founded gets a row nobody had, with a value the
\* constraints allow.
LEMMA InsertKeeps ==
  ASSUME MigrationInv, NEW o \in OrgId, NEW s \in Signature \cup Unsigned, Insert(o, s),
         s = "null" => ~required, s # "null" => "signature" \in columns,
         UNCHANGED <<schema, run, history>>
  PROVE  /\ MigrationInv'
         /\ \A q \in OrgId : organizations[q] # Nil => organizations'[q] = organizations[q]
<1> USE DEF Insert, schema, history
<1>0. MigrationTypeOK /\ RowInv /\ o = lastId + 1 /\ o \in Nat /\ lastId \in Nat
  BY OrgIdAssumption DEF MigrationInv, MigrationTypeOK
<1>1. organizations[o] = Nil
  BY <1>0 DEF RowInv
<1>2. organizations' = [organizations EXCEPT ![o] = s] /\ organizations \in [OrgId -> Signature \cup Unsigned \cup {Nil}]
  BY <1>0 DEF MigrationTypeOK
<1>3. s # Nil
  BY SignatureAssumption DEF Unsigned
<1>4. Stored' = Stored \cup {o} /\ InUse' = InUse \cup {s}
  <2>1. \A q \in OrgId : organizations'[q] = IF q = o THEN s ELSE organizations[q]
    BY <1>2
  <2>2. Stored' = Stored \cup {o}
    BY <1>3, <2>1 DEF Stored
  <2>3. InUse' \subseteq InUse \cup {s}
    BY <2>1 DEF InUse
  <2>4. ASSUME NEW v \in InUse PROVE v \in InUse'
    BY <1>1, <2>1 DEF InUse
  <2>5. s \in InUse'
    BY <1>3, <2>1 DEF InUse
  <2> QED
    BY <2>2, <2>3, <2>4, <2>5
<1>5. MigrationTypeOK'
  BY <1>0, <1>2, <1>3 DEF MigrationTypeOK
<1>6. Grows /\ UNCHANGED run /\ unhurt' = unhurt /\ migrated' = migrated /\ settled' = settled
  BY DEF Grows
<1>7. RowInv'
  <2>1. \A q \in OrgId : q > lastId' => organizations'[q] = Nil
    BY <1>0, <1>2, OrgIdAssumption DEF RowInv
  <2>2. "signature" \notin columns' => InUse' \subseteq {"null"}
    BY <1>0, <1>4 DEF RowInv
  <2>3. required' => "null" \notin InUse'
    BY <1>0, <1>4 DEF RowInv
  <2>4. ASSUME "organizations" \in indexed, NEW p \in Stored', NEW q \in Stored',
               organizations'[p] = organizations'[q]
        PROVE  p = q \/ organizations'[p] = "null"
    <3>1. s = "null" \/ s \notin InUse
      BY <2>4
    <3>2. CASE p = o \/ q = o
      BY <1>2, <1>4, <2>4, <3>1, <3>2, StoredInUse DEF Stored
    <3>3. CASE p # o /\ q # o
      BY <1>0, <1>2, <1>4, <2>4, <3>3 DEF RowInv, Stored
    <3> QED BY <3>2, <3>3
  <2> QED
    BY <2>1, <2>2, <2>3, <2>4 DEF RowInv
<1>8. NoNewEmpty /\ lastId' \in OrgId \cup {0}
  BY <1>0, <1>2 DEF NoNewEmpty
<1>9. \A m \in Migrators : RunInv(m)'
  BY <1>6, <1>8, OthersStay
<1>10. SuccessMeansComplete' /\ SettledInv'
  BY <1>5, <1>6, <1>8, CompleteStays, SettledStays DEF MigrationInv, SuccessMeansComplete
<1>11. \A q \in OrgId : organizations[q] # Nil => organizations'[q] = organizations[q]
  BY <1>1, <1>2
<1> QED
  BY <1>5, <1>7, <1>9, <1>10, <1>11 DEF MigrationInv

LEMMA FoundUnsignedKeeps ==
  ASSUME MigrationInv, FoundUnsigned
  PROVE  /\ MigrationInv'
         /\ \A q \in OrgId : organizations[q] # Nil => organizations'[q] = organizations[q]
<1>1. CASE ~required /\ \E o \in OrgId : Insert(o, "null")
  BY <1>1, InsertKeeps DEF FoundUnsigned, Unsigned
<1>2. CASE "signature" \in columns /\ \E o \in OrgId : Insert(o, "empty")
  BY <1>2, InsertKeeps DEF FoundUnsigned, Unsigned
<1> QED
  BY <1>1, <1>2 DEF FoundUnsigned

LEMMA FoundSignedKeeps ==
  ASSUME MigrationInv, FoundSigned
  PROVE  /\ MigrationInv'
         /\ \A q \in OrgId : organizations[q] # Nil => organizations'[q] = organizations[q]
<1>1. PICK o \in OrgId : Insert(o, Draw({o}, InUse \cup {Nil})[o])
  BY DEF FoundSigned
<1>2. organizations[o] = Nil
  BY <1>1, OrgIdAssumption DEF Insert, MigrationInv, MigrationTypeOK, RowInv
<1>3. Draw({o}, InUse \cup {Nil})[o] \in Signature
  <2>1. {o} \in SUBSET OrgId /\ \A k \in {o} : organizations[k] \notin Signature
    BY <1>2, SignatureAssumption
  <2>2. Draw({o}, InUse \cup {Nil}) \in [{o} -> Drawn \ InUse]
    BY <2>1, DrawIsFresh DEF MigrationInv
  <2> QED
    BY <2>2, SignatureAssumption
<1>4. "signature" \in columns
  BY DEF FoundSigned, MigrationInv, SuccessMeansComplete, Complete
<1>5. Draw({o}, InUse \cup {Nil})[o] # "null"
  BY <1>3, SignatureAssumption DEF Unsigned
<1> QED
  BY <1>1, <1>3, <1>4, <1>5, InsertKeeps DEF FoundSigned

-----------------------------------------------------------------------------
(* The theorems *)

LEMMA InitInv == MigrationInit => MigrationInv
<1> SUFFICES ASSUME MigrationInit PROVE MigrationInv
  OBVIOUS
<1> USE DEF MigrationInit
<1>1. PICK given \in SUBSET (OrgId \cap 1..lastId), left \in [OrgId -> Unsigned] :
          organizations = [o \in OrgId |-> IF o > lastId THEN Nil
                                           ELSE IF o \in given THEN Draw(given, {Nil})[o] ELSE left[o]]
  OBVIOUS
<1> DEFINE f == Draw(given, {Nil})
<1>2. f \in [given -> Drawn] /\ \A j, k \in given : f[j] = f[k] => j = k
  BY DrawWhenNoneStored
<1> HIDE DEF f
<1>3. \A o \in OrgId : organizations[o] = IF o > lastId THEN Nil ELSE IF o \in given THEN f[o] ELSE left[o]
  BY <1>1 DEF f
<1>4. \A o \in given : f[o] \in Signature
  BY <1>2, SignatureAssumption
<1>5. MigrationTypeOK
  <2>1. organizations \in [OrgId -> Signature \cup Unsigned \cup {Nil}]
    BY <1>1, <1>3, <1>4
  <2>2. indexed \subseteq present
    BY DEF OldSchema
  <2>3. run \in [Migrators -> Run]
    BY DEF Run, Idle, Pc, Table
  <2>4. present \subseteq Table /\ columns \subseteq Column /\ lastId \in OrgId \cup {0} /\ failures \in 0..MaxFailures
    BY FailuresAssumption
  <2>5. required \in BOOLEAN /\ settled \in OrgId \cup {0} /\ unhurt \subseteq Migrators /\ migrated \subseteq Migrators
    OBVIOUS
  <2> QED
    BY <2>1, <2>2, <2>3, <2>4, <2>5, Zenon DEF MigrationTypeOK
<1>6. ASSUME NEW m \in Migrators PROVE RunInv(m)
  BY OrgIdAssumption DEF RunInv, Idle, Before, FilledPc, AutoMigratePc
<1>7. RowInv
  <2>1. \A o \in OrgId : o > lastId => organizations[o] = Nil
    BY <1>3
  <2>2. "organizations" \notin present => Stored = {}
    BY DEF OldSchema, Table
  <2>3. "signature" \notin columns => InUse \subseteq {"null"}
    BY DEF OldSchema, Stored, InUse
  <2>4. ASSUME "organizations" \in indexed, NEW o \in Stored, NEW q \in Stored, organizations[o] = organizations[q]
        PROVE  o = q \/ organizations[o] = "null"
    <3>1. o \in OrgId /\ q \in OrgId /\ ~ (o > lastId) /\ ~ (q > lastId)
      BY <1>3 DEF Stored
    <3>2. CASE o \in given /\ q \in given
      BY <1>2, <1>3, <2>4, <3>1, <3>2
    <3>3. CASE (o \in given) # (q \in given)
      BY <1>3, <1>4, <2>4, <3>1, <3>3, SignatureAssumption
    <3>4. CASE o \notin given /\ q \notin given
      BY <1>3, <2>4, <3>1, <3>4 DEF RowsRespectSchema, Unsigned
    <3> QED BY <3>2, <3>3, <3>4
  <2> QED
    BY <2>1, <2>2, <2>3, <2>4 DEF RowInv, RowsRespectSchema
<1>8. SettledInv
  BY OrgIdAssumption DEF SettledInv
<1> QED
  BY <1>5, <1>6, <1>7, <1>8 DEF MigrationInv, SuccessMeansComplete

LEMMA NextInv == MigrationInv /\ [MigrationNext]_migration => MigrationInv'
<1> SUFFICES ASSUME MigrationInv, [MigrationNext]_migration PROVE MigrationInv'
  OBVIOUS
<1>1. ASSUME NEW m \in Migrators, StartMigrate(m) PROVE MigrationInv'
  BY <1>1, StartMigrateKeeps
<1>2. ASSUME NEW m \in Migrators, Step(m) PROVE MigrationInv'
  BY <1>2, CheckColumnKeeps, AddPasswordKeeps, AddSignatureKeeps, FillSignaturesKeeps, RequireSignatureKeeps,
     IndexSignatureKeeps, DropTypeKeeps, LookAtTableKeeps, CreateTableKeeps, AddColumnKeeps, AlterColumnKeeps,
     CreateIndexKeeps, RefusedKeeps DEF Step
<1>3. ASSUME NEW m \in Migrators, Outage(m) \/ Crash(m) PROVE MigrationInv'
  BY <1>3, OutageKeeps, CrashKeeps
<1>4. ASSUME FoundUnsigned \/ FoundSigned PROVE MigrationInv'
  BY <1>4, FoundUnsignedKeeps, FoundSignedKeeps
<1>5. CASE UNCHANGED migration
  <2> USE <1>5 DEF migration, schema, rows, history
  <2>1. MigrationTypeOK' /\ Grows /\ RowInv' /\ Complete' = Complete
    BY RowsStay DEF MigrationInv, MigrationTypeOK, Grows, RowInv, Complete
  <2>2. NoNewEmpty /\ lastId' \in OrgId \cup {0}
    BY QuietRows
  <2>3. \A m \in Migrators : RunInv(m)'
    BY <2>1, <2>2, OthersStay
  <2>4. SettledInv'
    BY <2>1, <2>2, SettledStays DEF MigrationInv
  <2> QED
    BY <2>1, <2>3, <2>4 DEF MigrationInv, SuccessMeansComplete
<1> QED
  BY <1>1, <1>2, <1>3, <1>4, <1>5 DEF MigrationNext

\* Of the statements of Migrate only the UPDATE of the signatures writes rows.
LEMMA StepKeepsRows ==
  ASSUME NEW m \in Migrators, Step(m), ~FillSignatures(m)
  PROVE  organizations' = organizations /\ Grows
<1>1. CASE CheckColumn(m)
  BY <1>1 DEF CheckColumn, schema, rows, Grows
<1>2. CASE AddPassword(m)
  BY <1>2 DEF AddPassword, schema, rows, Grows
<1>3. CASE AddSignature(m)
  BY <1>3 DEF AddSignature, schema, rows, Grows
<1>4. CASE RequireSignature(m)
  BY <1>4 DEF RequireSignature, schema, rows, Grows
<1>5. CASE IndexSignature(m)
  BY <1>5 DEF IndexSignature, schema, rows, Grows
<1>6. CASE DropType(m)
  BY <1>6 DEF DropType, schema, rows, Grows
<1>7. CASE LookAtTable(m)
  BY <1>7 DEF LookAtTable, schema, rows, Grows
<1>8. CASE CreateTable(m)
  BY <1>8 DEF CreateTable, schema, rows, Grows
<1>9. CASE AddColumn(m)
  BY <1>9 DEF AddColumn, schema, rows, Grows
<1>10. CASE AlterColumn(m)
  BY <1>10 DEF AlterColumn, schema, rows, Grows
<1>11. CASE CreateIndex(m)
  BY <1>11 DEF CreateIndex, schema, rows, Grows
<1>12. CASE Refused(m)
  BY <1>12 DEF Refused, schema, rows, Grows
<1> QED
  BY <1>1, <1>2, <1>3, <1>4, <1>5, <1>6, <1>7, <1>8, <1>9, <1>10, <1>11, <1>12 DEF Step

\* The state keeps its shape, whatever fails and whoever migrates with whom.
THEOREM MigrationTypes == MigrationSpec => []MigrationTypeOK
<1>1. MigrationInv => MigrationTypeOK
  BY DEF MigrationInv
<1> QED
  BY <1>1, InitInv, NextInv, PTL DEF MigrationSpec

\* Once Migrate has returned nil the schema is complete: AutoMigrate, whose
\* errors alone are returned, refuses or repairs what the statements before it
\* were silently denied.
THEOREM NilMeansComplete == MigrationSpec => []SuccessMeansComplete
<1>1. MigrationInv => SuccessMeansComplete
  BY DEF MigrationInv
<1> QED
  BY <1>1, InitInv, NextInv, PTL DEF MigrationSpec

\* Once a run that no outage hit has returned nil, every organization that was
\* there when it began has a signature, and no two have the same: what an
\* application of an earlier version inserts beside it or after it (NULL or '')
\* is refused or stays the only one (internal/database/database.go, the UPDATE,
\* SET NOT NULL and CREATE UNIQUE INDEX).
THEOREM NilMeansSigned == MigrationSpec => []SuccessMeansSigned
<1>1. MigrationInv => SuccessMeansSigned
  <2> SUFFICES ASSUME MigrationInv, settled # 0
               PROVE  /\ \A o \in Stored : o =< settled => organizations[o] \in Signature
                      /\ \A o, q \in Stored : organizations[o] = organizations[q] => o = q
                      /\ "null" \notin InUse
    BY DEF SuccessMeansSigned
  <2>1. NoEmptyTo(settled) /\ "null" \notin InUse /\ "organizations" \in indexed
    BY DEF MigrationInv, SettledInv, Complete, RowInv, Table
  <2>2. ASSUME NEW o \in Stored, o =< settled PROVE organizations[o] \in Signature
    <3>1. organizations[o] # "empty"
      BY <2>1, <2>2, OrgIdAssumption DEF NoEmptyTo, Stored, MigrationInv, MigrationTypeOK
    <3> QED
      BY <2>1, <3>1, StoredInUse DEF MigrationInv, MigrationTypeOK, Stored, Unsigned
  <2>3. \A o, q \in Stored : organizations[o] = organizations[q] => o = q
    BY <2>1, StoredInUse DEF MigrationInv, RowInv
  <2> QED
    BY <2>1, <2>2, <2>3
<1> QED
  BY <1>1, InitInv, NextInv, PTL DEF MigrationSpec

\* No migration touches a signature that an organization has.
THEOREM SignaturesStay == MigrationSpec => SignaturesSurvive
<1> DEFINE Stays == \A o \in OrgId : organizations[o] \in Signature => organizations'[o] \in {organizations[o], Nil}
<1>1. MigrationInv /\ [MigrationNext]_migration => [Stays]_migration
  <2> SUFFICES ASSUME MigrationInv, MigrationNext PROVE Stays
    OBVIOUS
  <2>1. CASE organizations' = organizations
    BY <2>1
  <2>2. ASSUME NEW m \in Migrators, StartMigrate(m) \/ Outage(m) \/ Crash(m) PROVE organizations' = organizations
    BY <2>2 DEF StartMigrate, Outage, Crash, rows
  <2>3. ASSUME NEW m \in Migrators, Step(m), ~FillSignatures(m) PROVE organizations' = organizations
    BY <2>3, StepKeepsRows
  <2>4. ASSUME NEW m \in Migrators, FillSignatures(m) PROVE Stays
    BY <2>1, <2>4, Filled, SignatureAssumption DEF FillSignatures, Stored
  <2>5. ASSUME FoundUnsigned \/ FoundSigned PROVE Stays
    BY <2>5, FoundUnsignedKeeps, FoundSignedKeeps, SignatureAssumption
  <2> QED
    BY <2>1, <2>2, <2>3, <2>4, <2>5 DEF MigrationNext
<1>2. [][Stays]_migration => SignaturesSurvive
  BY PTL DEF SignaturesSurvive
<1> QED
  BY <1>1, <1>2, InitInv, NextInv, PTL DEF MigrationSpec

\* Migrate runs at every start of an application, and of several at once: once
\* the schema is complete it is changed no more but by the dropping of
\* signature_type, and of the rows only one with '' that an application of an
\* earlier version founded since the last unhurt run began.
MigratingAgainChangesNothing ==
    [][Complete => /\ UNCHANGED <<present, required, indexed>>
                   /\ columns' \ {"signature_type"} = columns \ {"signature_type"}
                   /\ \A o \in Stored : organizations'[o] # organizations[o] =>
                                          organizations[o] = "empty" /\ o > settled]_migration

\* With every column, constraint and index there, each statement of Migrate
\* (internal/database/database.go) finds nothing to do, and the UPDATE only what
\* an application of an earlier version has inserted with ''.
THEOREM MigratingIsIdempotent == MigrationSpec => MigratingAgainChangesNothing
<1> DEFINE Same == /\ UNCHANGED <<present, required, indexed>>
                   /\ columns' \ {"signature_type"} = columns \ {"signature_type"}
                   /\ \A o \in Stored : organizations'[o] # organizations[o] =>
                                          organizations[o] = "empty" /\ o > settled
<1>1. MigrationInv /\ [MigrationNext]_migration => [Complete => Same]_migration
  <2> SUFFICES ASSUME MigrationInv, MigrationNext, Complete PROVE Same
    OBVIOUS
  <2>1. MigrationInv'
    BY NextInv
  <2>2. ASSUME Grows PROVE /\ UNCHANGED <<present, required, indexed>>
                          /\ columns' \ {"signature_type"} = columns \ {"signature_type"}
    <3>1. MigrationTypeOK /\ MigrationTypeOK' /\ Complete'
      BY <2>1, <2>2, CompleteStays DEF MigrationInv
    <3> QED
      BY <2>2, <3>1 DEF MigrationTypeOK, Complete, Column
  <2>4. CASE UNCHANGED <<schema, organizations>>
    BY <2>4 DEF schema
  <2>5. ASSUME NEW m \in Migrators, StartMigrate(m) \/ Outage(m) \/ Crash(m) PROVE Same
    BY <2>4, <2>5 DEF StartMigrate, Outage, Crash, rows
  <2>6. ASSUME NEW m \in Migrators, Step(m), ~FillSignatures(m) PROVE Same
    BY <2>2, <2>6, StepKeepsRows
  <2>7. ASSUME NEW m \in Migrators, FillSignatures(m) PROVE Same
    <3>1. UNCHANGED schema
      BY <2>7 DEF FillSignatures
    <3>2. ASSUME NEW o \in Stored, organizations'[o] # organizations[o]
          PROVE  organizations[o] = "empty" /\ o > settled
      <4>1. o \in OrgId /\ organizations[o] \in Signature \cup Unsigned /\ organizations[o] # "null"
        BY StoredInUse DEF Stored, MigrationInv, MigrationTypeOK, RowInv, Complete
      <4>2. organizations[o] \notin Signature
        BY <2>7, <3>2, Filled DEF FillSignatures
      <4>3. organizations[o] = "empty"
        BY <4>1, <4>2 DEF Unsigned
      <4>4. settled # 0 => o > settled
        BY <4>1, <4>3 DEF MigrationInv, SettledInv, NoEmptyTo
      <4> QED
        BY <4>1, <4>3, <4>4, OrgIdAssumption
    <3> QED
      BY <3>1, <3>2 DEF schema
  <2>8. ASSUME FoundUnsigned \/ FoundSigned PROVE Same
    <3>1. \A o \in Stored : organizations'[o] = organizations[o]
      BY <2>8, FoundUnsignedKeeps, FoundSignedKeeps DEF Stored
    <3> QED
      BY <2>8, <3>1 DEF FoundUnsigned, FoundSigned, schema
  <2> QED
    BY <2>5, <2>6, <2>7, <2>8 DEF MigrationNext
<1>2. [][Complete => Same]_migration => MigratingAgainChangesNothing
  BY PTL DEF MigratingAgainChangesNothing
<1> QED
  BY <1>1, <1>2, InitInv, NextInv, PTL DEF MigrationSpec
=============================================================================
