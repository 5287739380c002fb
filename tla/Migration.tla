----------------------------- MODULE Migration -----------------------------
(***************************************************************************)
(* Migrate (internal/database/database.go): how the database gets the      *)
(* schema the program needs, from an older one or from none.               *)
(*                                                                         *)
(* Migrate is a sequence of statements, each its own transaction, so it    *)
(* may stop after any of them, and several processes may run it at once:   *)
(* the migrate command and every application that starts (README.md).      *)
(* The statements down to AutoMigrate discard their errors; AutoMigrate,   *)
(* GORM's own, goes through the tables and returns its first error.        *)
(*                                                                         *)
(* Of the schema the model keeps what the statements depend on, and of the *)
(* rows the signatures of the organizations, the only column that a        *)
(* migration fills and that can be refused for the rows it finds.          *)
(***************************************************************************)
EXTENDS Naturals

CONSTANTS Migrators,   \* processes that call Migrate
          OrgId,       \* ids of organizations, in order
          Signature,   \* signatures an organization can have
          Drawn,       \* those that are drawn at random
          MaxFailures, \* bound on outages and crashes
          Nil          \* no row

\* A column without a value; the '' an older version left in it.
Unsigned == {"null", "empty"}

ASSUME OrgIdAssumption == OrgId \subseteq Nat \ {0}
ASSUME FailuresAssumption == MaxFailures \in Nat
ASSUME SignatureAssumption == /\ Drawn \subseteq Signature
                              /\ Signature \cap Unsigned = {}
                              /\ Nil \notin Signature \cup Unsigned

\* There are always enough random values that nothing has yet.
ASSUME DrawAssumption ==
    \A keys \in SUBSET OrgId, table \in [OrgId -> Signature \cup Unsigned \cup {Nil}] :
       (\A k \in keys : table[k] \notin Signature) =>
          \E f \in [keys -> Drawn \ {table[o] : o \in OrgId}] :
             \A j, k \in keys : f[j] = f[k] => j = k

Table  == {"organizations", "users", "invitations"}
Column == {"password",         \* of users
           "signature",        \* of organizations
           "signature_type"}   \* of organizations, no longer needed

\* The statement a run of Migrate executes next.
Pc == {"idle", "checkPassword", "addPassword", "checkSignature", "addSignature",
       "fillSignatures", "requireSignature", "indexSignature", "checkType", "dropType",
       "lookAtTable", "createTable", "addColumn", "alterColumn", "createIndex"}

\* since: history, the last organization there was when the run began.
Run == [pc : Pc, table : Table, since : OrgId \cup {0}]

Idle == [pc |-> "idle", table |-> "organizations", since |-> 0]

VARIABLES present,        \* the tables there are
          columns,        \* which of Column they have
          required,       \* whether organizations.signature is NOT NULL
          indexed,        \* the tables that have their unique index
          organizations,  \* the signatures stored
          lastId,         \* the serial of organizations
          run,            \* what each process is doing
          failures,       \* outages and crashes so far
          unhurt,         \* history: the runs that no outage has hit
          migrated,       \* history: the processes Migrate has returned nil to
          settled         \* history: the last organization there was when an unhurt
                          \* run began that has returned nil

schema    == <<present, columns, required, indexed>>
rows      == <<organizations, lastId>>
history   == <<failures, unhurt, migrated, settled>>
migration == <<schema, rows, run, history>>

Stored == {o \in OrgId : organizations[o] # Nil}

InUse == {organizations[o] : o \in OrgId} \ {Nil}

\* Signatures for the organizations of keys: random values of 96 bits and more,
\* so no two are the same and none is in use.
Draw(keys, used) == CHOOSE f \in [keys -> Drawn \ used] :
                       \A j, k \in keys : f[j] = f[k] => j = k

MigrationTypeOK ==
    /\ present \subseteq Table
    /\ columns \subseteq Column
    /\ required \in BOOLEAN
    /\ indexed \subseteq present
    /\ organizations \in [OrgId -> Signature \cup Unsigned \cup {Nil}]
    /\ lastId \in OrgId \cup {0}
    /\ run \in [Migrators -> Run]
    /\ failures \in 0..MaxFailures
    /\ unhurt \subseteq Migrators
    /\ migrated \subseteq Migrators
    /\ settled \in OrgId \cup {0}

\* No database yet, or the one an earlier version or a Migrate that broke off
\* left: any of the columns, with signatures that may be missing.
OldSchema ==
    \/ /\ present = {} /\ columns = {} /\ indexed = {} /\ Stored = {}
    \/ /\ present = Table
       /\ "signature_type" \in columns => "signature" \in columns
       /\ indexed \in {Table, Table \ {"organizations"}}
       /\ "signature" \notin columns => InUse \subseteq {"null"} /\ "organizations" \notin indexed

\* What the constraints that are there say of the rows.
RowsRespectSchema ==
    /\ required => "signature" \in columns /\ "null" \notin InUse
    /\ "organizations" \in indexed =>
          \A o, q \in Stored : organizations[o] = "empty" /\ organizations[q] = "empty" => o = q

MigrationInit ==
    /\ present \in SUBSET Table /\ columns \in SUBSET Column
    /\ required \in BOOLEAN     /\ indexed \in SUBSET Table
    /\ lastId \in {0, 2} \cap (OrgId \cup {0})
    /\ \E given \in SUBSET (OrgId \cap 1..lastId), left \in [OrgId -> Unsigned] :
          organizations = [o \in OrgId |-> IF o > lastId THEN Nil
                                           ELSE IF o \in given THEN Draw(given, {Nil})[o] ELSE left[o]]
    /\ OldSchema /\ RowsRespectSchema
    /\ run = [m \in Migrators |-> Idle]
    /\ failures = 0 /\ unhurt = {} /\ migrated = {} /\ settled = 0

-----------------------------------------------------------------------------
(* The statements: when the database executes one, and what it does then. *)

\* A column that is NOT NULL needs an empty table.
CanAddSignature(notNull) == /\ "organizations" \in present
                            /\ "signature" \notin columns
                            /\ notNull => Stored = {}

CanAddPassword == "users" \in present /\ "password" \notin columns

CanRequire == /\ "signature" \in columns
              /\ "null" \notin InUse

\* Mistake: there may be no table yet.
CanIndexAnyhow(t) ==
    \A o, q \in Stored : organizations[o] = organizations[q] => o = q \/ organizations[o] = "null"

\* IF NOT EXISTS: an index that is there is no error.  Two missing values are
\* not equal to each other, two '' are.
CanIndex(t) ==
    /\ t \in present
    /\ t = "organizations" /\ t \notin indexed =>
          /\ "signature" \in columns
          /\ \A o, q \in Stored : organizations[o] = organizations[q] => o = q \/ organizations[o] = "null"

\* Mistakes: no WHERE clause, or one that forgets the empty string.
ToFillAll == Stored
ToFillMissing == {o \in Stored : organizations[o] = "null"}

\* WHERE signature IS NULL OR signature = ''
ToFill == {o \in Stored : organizations[o] \in Unsigned}

Fill == organizations' = LET f == Draw(ToFill, InUse \cup {Nil})
                         IN  [o \in OrgId |-> IF o \in ToFill THEN f[o] ELSE organizations[o]]

-----------------------------------------------------------------------------
(* A run of Migrate *)

At(m, pc) == run[m].pc = pc

Goto(m, pc) == run' = [run EXCEPT ![m].pc = pc]

\* The preparation goes on with the next statement whether this one succeeds
\* or not; from "lookAtTable" on, an error is returned.  A count that cannot
\* be read is 0.
AfterError ==
    [pc \in Pc |-> CASE pc = "checkPassword"    -> "addPassword"
                     [] pc = "addPassword"      -> "checkSignature"
                     [] pc = "checkSignature"   -> "addSignature"
                     [] pc = "addSignature"     -> "fillSignatures"
                     [] pc = "fillSignatures"   -> "requireSignature"
                     [] pc = "requireSignature" -> "indexSignature"
                     [] pc = "indexSignature"   -> "checkType"
                     [] pc = "checkType"        -> "lookAtTable"
                     [] pc = "dropType"         -> "lookAtTable"
                     [] OTHER                   -> "idle"]

Proceed(m) == Goto(m, AfterError[run[m].pc])

StartMigrate(m) ==
    /\ At(m, "idle")
    /\ run' = [run EXCEPT ![m] = [Idle EXCEPT !.pc = "checkPassword", !.since = lastId]]
    /\ unhurt' = unhurt \cup {m}
    /\ migrated' = migrated \ {m}
    /\ UNCHANGED <<schema, rows, failures, settled>>

\* The three counts of information_schema.columns.
CheckColumn(m) ==
    /\ \/ At(m, "checkPassword")  /\ Goto(m, IF "password" \in columns THEN "checkSignature" ELSE "addPassword")
       \/ At(m, "checkSignature") /\ Goto(m, IF "signature" \in columns THEN "fillSignatures" ELSE "addSignature")
       \/ At(m, "checkType")      /\ Goto(m, IF "signature_type" \in columns THEN "dropType" ELSE "lookAtTable")
    /\ UNCHANGED <<schema, rows, history>>

\* The UPDATE of the NULL passwords after it changes nothing the model keeps.
AddPassword(m) ==
    /\ At(m, "addPassword")
    /\ columns' = IF CanAddPassword THEN columns \cup {"password"} ELSE columns
    /\ Proceed(m)
    /\ UNCHANGED <<present, required, indexed, rows, history>>

\* Mistake: the column is NOT NULL from the start.
AddSignatureNotNull(m) ==
    /\ At(m, "addSignature")
    /\ columns' = IF CanAddSignature(TRUE) THEN columns \cup {"signature"} ELSE columns
    /\ Proceed(m)
    /\ UNCHANGED <<present, required, indexed, rows, history>>

AddSignature(m) ==
    /\ At(m, "addSignature")
    /\ columns' = IF CanAddSignature(FALSE) THEN columns \cup {"signature"} ELSE columns
    /\ Proceed(m)
    /\ UNCHANGED <<present, required, indexed, rows, history>>

FillSignatures(m) ==
    /\ At(m, "fillSignatures")
    /\ \/ "signature" \in columns /\ Fill
       \/ "signature" \notin columns /\ UNCHANGED organizations
    /\ Proceed(m)
    /\ UNCHANGED <<schema, lastId, history>>

RequireSignature(m) ==
    /\ At(m, "requireSignature")
    /\ required' = (required \/ CanRequire)
    /\ Proceed(m)
    /\ UNCHANGED <<present, columns, indexed, rows, history>>

IndexSignature(m) ==
    /\ At(m, "indexSignature")
    /\ indexed' = IF CanIndex("organizations") THEN indexed \cup {"organizations"} ELSE indexed
    /\ Proceed(m)
    /\ UNCHANGED <<present, columns, required, rows, history>>

\* Its index goes with the column.
DropType(m) ==
    /\ At(m, "dropType")
    /\ columns' = columns \ {"signature_type"}
    /\ Proceed(m)
    /\ UNCHANGED <<present, required, indexed, rows, history>>

-----------------------------------------------------------------------------
(* AutoMigrate (GORM): for each table, create it or add what it lacks, then *)
(* its indexes.                                                             *)

\* The column of a table that an older version may lack.
ColumnOf(t) == CASE t = "organizations" -> {"signature"}
                 [] t = "users"         -> {"password"}
                 [] OTHER               -> {}

LookAtTable(m) ==
    LET t == run[m].table
    IN  /\ At(m, "lookAtTable")
        /\ \/ t \notin present /\ Goto(m, "createTable")
           \/ /\ t \in present
              /\ \/ ~ ColumnOf(t) \subseteq columns /\ Goto(m, "addColumn")
                 \/ /\ ColumnOf(t) \subseteq columns
                    /\ Goto(m, IF t = "organizations" /\ ~required THEN "alterColumn" ELSE "createIndex")
        /\ UNCHANGED <<schema, rows, history>>

\* A table created has all its columns, and no index yet.
CreateTable(m) ==
    LET t == run[m].table
    IN  /\ At(m, "createTable")
        /\ t \notin present
        /\ present' = present \cup {t}
        /\ columns' = columns \cup ColumnOf(t)
        /\ required' = (required \/ t = "organizations")
        /\ Goto(m, "createIndex")
        /\ UNCHANGED <<indexed, rows, history>>

AddColumn(m) ==
    LET t == run[m].table
    IN  /\ At(m, "addColumn")
        /\ IF t = "organizations" THEN CanAddSignature(TRUE) ELSE CanAddPassword
        /\ columns' = columns \cup ColumnOf(t)
        /\ required' = (required \/ t = "organizations")
        /\ Goto(m, "createIndex")
        /\ UNCHANGED <<present, indexed, rows, history>>

AlterColumn(m) ==
    /\ At(m, "alterColumn")
    /\ CanRequire
    /\ required' = TRUE
    /\ Goto(m, "createIndex")
    /\ UNCHANGED <<present, columns, indexed, rows, history>>

\* Migrate returns nil.
Finish(m) == /\ run' = [run EXCEPT ![m] = Idle]
             /\ migrated' = migrated \cup {m}
             /\ settled' = IF m \in unhurt /\ run[m].since > settled THEN run[m].since ELSE settled

NextTable(t) == IF t = "organizations" THEN "users" ELSE "invitations"

CreateIndex(m) ==
    LET t == run[m].table
    IN  /\ At(m, "createIndex")
        /\ CanIndex(t)
        /\ indexed' = indexed \cup {t}
        /\ \/ /\ t # "invitations"
              /\ run' = [run EXCEPT ![m] = [@ EXCEPT !.pc = "lookAtTable", !.table = NextTable(t)]]
              /\ UNCHANGED <<migrated, settled>>
           \/ t = "invitations" /\ Finish(m)
        /\ UNCHANGED <<present, columns, required, rows, failures, unhurt>>

\* Mistake: the error is dropped like those before it.
RefusedIsNil(m) ==
    /\ \/ At(m, "createTable") \/ At(m, "addColumn") \/ At(m, "alterColumn") \/ At(m, "createIndex")
    /\ Finish(m)
    /\ UNCHANGED <<schema, rows, failures, unhurt>>

\* The database refuses a statement of AutoMigrate: Migrate returns the error.
Refused(m) ==
    LET t == run[m].table
    IN  /\ \/ At(m, "createTable") /\ t \in present
           \/ /\ At(m, "addColumn")
              /\ ~ (IF t = "organizations" THEN CanAddSignature(TRUE) ELSE CanAddPassword)
           \/ At(m, "alterColumn") /\ ~CanRequire
           \/ At(m, "createIndex") /\ ~CanIndex(t)
        /\ run' = [run EXCEPT ![m] = Idle]
        /\ UNCHANGED <<schema, rows, history>>

-----------------------------------------------------------------------------
(* What else happens to the database *)

\* A statement fails for want of a connection, a lock or space.
Outage(m) ==
    /\ ~At(m, "idle") /\ failures < MaxFailures
    /\ failures' = failures + 1
    /\ unhurt' = unhurt \ {m}
    /\ run' = [run EXCEPT ![m] = IF AfterError[run[m].pc] = "idle" THEN Idle
                                 ELSE [@ EXCEPT !.pc = AfterError[run[m].pc]]]
    /\ UNCHANGED <<schema, rows, migrated, settled>>

Crash(m) ==
    /\ ~At(m, "idle") /\ failures < MaxFailures
    /\ failures' = failures + 1
    /\ run' = [run EXCEPT ![m] = Idle]
    /\ UNCHANGED <<schema, rows, unhurt, migrated, settled>>

\* INSERT INTO organizations
Insert(o, signature) ==
    /\ "organizations" \in present
    /\ o = lastId + 1 /\ lastId' = o
    /\ "organizations" \in indexed => signature \notin InUse \ {"null"}
    /\ organizations' = [organizations EXCEPT ![o] = signature]

\* An application of an earlier version founds an organization, while the new
\* version migrates or after it: one that knows no signatures leaves out the
\* column, one that knows them and sets none leaves '', which is not NULL.
FoundUnsigned ==
    /\ \/ /\ ~required
          /\ \E o \in OrgId : Insert(o, "null")
       \/ /\ "signature" \in columns
          /\ \E o \in OrgId : Insert(o, "empty")
    /\ UNCHANGED <<schema, run, history>>

\* An application that has migrated founds one (createOrganization).
FoundSigned ==
    /\ migrated # {}
    /\ \E o \in OrgId : Insert(o, Draw({o}, InUse \cup {Nil})[o])
    /\ UNCHANGED <<schema, run, history>>

Step(m) == \/ CheckColumn(m)    \/ AddPassword(m) \/ AddSignature(m)
           \/ FillSignatures(m) \/ RequireSignature(m)
           \/ IndexSignature(m) \/ DropType(m)
           \/ LookAtTable(m)    \/ CreateTable(m) \/ AddColumn(m)
           \/ AlterColumn(m)    \/ CreateIndex(m) \/ Refused(m)

MigrationNext == \/ \E m \in Migrators : StartMigrate(m) \/ Step(m) \/ Outage(m) \/ Crash(m)
                 \/ FoundUnsigned \/ FoundSigned

MigrationSpec == MigrationInit /\ [][MigrationNext]_migration

\* A run goes on, and whoever migrates runs Migrate again until it returns nil.
Rerun(m) == m \notin migrated /\ StartMigrate(m)

FairMigrationSpec == MigrationSpec /\ \A m \in Migrators : /\ WF_migration(Step(m))
                                                          /\ WF_migration(Rerun(m))

-----------------------------------------------------------------------------
Complete == /\ present = Table /\ indexed = Table
            /\ {"password", "signature"} \subseteq columns
            /\ required

\* Migrate drops the error of every statement but AutoMigrate's: once it has
\* returned nil, the schema nevertheless has all the program relies on,
\* whatever failed before and whoever else was migrating.
SuccessMeansComplete == migrated # {} => Complete

\* A run that no outage hit has left every organization that was there when it
\* began a signature of its own, and so it stays.  Of those an application of
\* an earlier version founds meanwhile or later, at most one is without: the
\* index holds one ''.
SuccessMeansSigned ==
    settled # 0 => /\ \A o \in Stored : o <= settled => organizations[o] \in Signature
                   /\ \A o, q \in Stored : organizations[o] = organizations[q] => o = q
                   /\ "null" \notin InUse

\* A signature that was given, by an application or by a migration, is never
\* changed by a later migration; it goes with its row only.
SignaturesSurvive ==
    [][\A o \in OrgId : organizations[o] \in Signature => organizations'[o] \in {organizations[o], Nil}]_migration

\* Outages and crashes cannot leave a schema that no later run completes.
MigrationCompletes == \A m \in Migrators : <>(m \in migrated)
=============================================================================
