---------------------------- MODULE SetupProofs ----------------------------
(***************************************************************************)
(* Theorems about Setup.                                                   *)
(*                                                                         *)
(* Seed and Cleanup keep what MigrationProofs says of the database, and a  *)
(* Seed in progress finds the rows it has inserted where it left them: the *)
(* applications and the migrations beside it neither delete nor re-sign an *)
(* organization.                                                           *)
(***************************************************************************)
EXTENDS Setup, MigrationProofs

\* Row k of this Seed is stored, under its organization.
Placed(k) ==
    LET i == SeedRow[k].of
    IN  /\ SeedRow[k].table = "organizations" =>
              job.org[i] \in Stored /\ organizations[job.org[i]] = SeedSignature[i]
        /\ SeedRow[k].table = "users" => users[k] = job.org[i]
        /\ SeedRow[k].table = "invitations" => invitations[k] = job.org[i]

JobInv == /\ Busy => Complete
          /\ job.pc \in {"seeding", "seeded"} => \A k \in Key : k < job.next => Placed(k)
          /\ job.pc = "seeding" => job.next \in Key
          /\ job.pc = "seeded" => job.next = 9
          /\ job.pc = "cleaning" /\ job.next > 1 => \A k \in KeyOf("invitations") : invitations[k] = Nil
          /\ job.pc = "cleaning" /\ job.next > 2 => \A k \in KeyOf("users") : users[k] = Nil

SetupInv == TypeOK /\ MigrationInv /\ NoOrphans /\ JobInv

-----------------------------------------------------------------------------
LEMMA SeedRowIs ==
  \A k \in Key : /\ SeedRow[k].of \in 1..2
                 /\ SeedRow[k].table = "organizations" <=> k \in 1..2
                 /\ SeedRow[k].table = "users" <=> k \in 3..5
                 /\ SeedRow[k].table = "invitations" <=> k \in 6..8
                 /\ k \in 1..2 => SeedRow[k].of = k
<1> SUFFICES ASSUME NEW k \in Key
             PROVE  /\ SeedRow[k].of \in 1..2
                    /\ SeedRow[k].table = "organizations" <=> k \in 1..2
                    /\ SeedRow[k].table = "users" <=> k \in 3..5
                    /\ SeedRow[k].table = "invitations" <=> k \in 6..8
                    /\ k \in 1..2 => SeedRow[k].of = k
  OBVIOUS
<1>1. CASE k \in 1..2 BY <1>1 DEF SeedRow, Key
<1>2. CASE k \in 3..5 BY <1>2 DEF SeedRow, Key
<1>3. CASE k \in 6..8 BY <1>3 DEF SeedRow, Key
<1> QED BY <1>1, <1>2, <1>3 DEF Key

LEMMA KeysAre == KeyOf("users") = 3..5 /\ KeyOf("invitations") = 6..8
BY SeedRowIs DEF KeyOf, Key

\* What a step of Migration leaves to Setup: rows that stay, schema that grows.
Stays == /\ Complete => Complete'
         /\ \A o \in Stored : o \in Stored' /\ (organizations[o] \in Signature => organizations'[o] = organizations[o])

LEMMA InsertStays ==
  ASSUME MigrationInv, MigrationInv', UNCHANGED schema,
         \A q \in OrgId : organizations[q] # Nil => organizations'[q] = organizations[q]
  PROVE  Stays
BY DEF Stays, Stored, Complete, schema

LEMMA MigrationStays ==
  ASSUME MigrationInv, MigrationNext PROVE Stays
<1>1. CASE UNCHANGED <<schema, rows>>
  BY <1>1, RowsStay DEF Stays, Complete, schema, rows
<1>2. ASSUME NEW m \in Migrators, StartMigrate(m) \/ Outage(m) \/ Crash(m) PROVE Stays
  BY <1>1, <1>2 DEF StartMigrate, Outage, Crash
<1>3. ASSUME NEW m \in Migrators, Step(m), ~FillSignatures(m) PROVE Stays
  <2>1. organizations' = organizations /\ Grows
    BY <1>3, StepKeepsRows
  <2>2. MigrationTypeOK'
    BY <1>3, NextInv DEF MigrationNext, MigrationInv
  <2> QED
    BY <2>1, <2>2, RowsStay, CompleteStays DEF Stays, MigrationInv
<1>4. ASSUME NEW m \in Migrators, FillSignatures(m) PROVE Stays
  <2>1. UNCHANGED organizations \/ Fill
    BY <1>4 DEF FillSignatures
  <2>2. Complete' = Complete
    BY <1>4 DEF FillSignatures, Complete, schema
  <2> QED
    BY <2>1, <2>2, RowsStay, Filled DEF Stays
<1>5. ASSUME FoundUnsigned \/ FoundSigned PROVE Stays
  BY <1>5, FoundUnsignedKeeps, FoundSignedKeeps, InsertStays DEF FoundUnsigned, FoundSigned
<1> QED
  BY <1>2, <1>3, <1>4, <1>5 DEF MigrationNext

\* A step that leaves job and the seeded rows alone.
LEMMA OtherKeeps ==
  ASSUME SetupInv, MigrationInv', Stays, UNCHANGED <<users, invitations, job>>
  PROVE  SetupInv'
<1>1. TypeOK'
  BY DEF SetupInv, TypeOK, MigrationInv
<1>2. NoOrphans'
  BY DEF SetupInv, NoOrphans, Stays
<1>3. ASSUME NEW k \in Key, Placed(k) PROVE Placed(k)'
  BY <1>3, SeedRowIs, SeedAssumption DEF Placed, Stays
<1>4. JobInv'
  BY <1>3 DEF SetupInv, JobInv, Busy, Stays
<1> QED
  BY <1>1, <1>2, <1>4 DEF SetupInv

LEMMA StartJobKeeps ==
  ASSUME SetupInv, NEW pc \in {"seeding", "cleaning"}, StartJob(pc) PROVE SetupInv'
<1>1. job' \in Job /\ job'.pc = pc /\ job'.next = 1
  <2>1. NoJob \in Job /\ NoJob.next = 1
    BY DEF NoJob, Job, JobPc
  <2>2. job' = [NoJob EXCEPT !.pc = pc, !.fresh = (job.pc = "cleaned")] /\ (job.pc = "cleaned") \in BOOLEAN
    BY DEF StartJob
  <2>3. \A b \in BOOLEAN : [NoJob EXCEPT !.pc = pc, !.fresh = b] \in Job
    BY <2>1 DEF Job, JobPc
  <2>4. job'.pc = pc /\ job'.next = NoJob.next
    BY <2>1, <2>2 DEF Job
  <2> QED
    BY <2>1, <2>2, <2>3, <2>4
<1>2. TypeOK' /\ MigrationInv' /\ NoOrphans' /\ Complete'
  <2>1. UNCHANGED <<migration, users, invitations>> /\ migrated # {}
    BY DEF StartJob
  <2>2. MigrationInv'
    BY <2>1, NextInv DEF SetupInv
  <2>3. Complete' /\ NoOrphans'
    BY <2>1, RowsStay DEF SetupInv, MigrationInv, SuccessMeansComplete, Complete, NoOrphans, migration, schema, rows
  <2> QED
    BY <1>1, <2>1, <2>2, <2>3 DEF SetupInv, TypeOK, MigrationInv
<1>3. JobInv'
  BY <1>1, <1>2 DEF JobInv, Key
<1> QED
  BY <1>2, <1>3 DEF SetupInv

\* The row in progress goes in, and the rows before it stay.
LEMMA AdvanceKeeps ==
  ASSUME TypeOK', MigrationInv', NoOrphans', Complete', NEW k \in Key, NEW j \in Job, j.pc = "seeding", j.next = k,
         job.next = k, job' = Advance(j),
         \A i \in Key : i =< k => Placed(i)'
  PROVE  SetupInv'
<1>1. /\ job'.next = k + 1
      /\ job'.pc = IF k = 8 THEN "seeded" ELSE "seeding"
  BY DEF Advance, Job, JobPc
<1>2. JobInv'
  <2>1. \A i \in Key : i < k + 1 => Placed(i)'
    BY DEF Key
  <2> QED
    BY <1>1, <2>1 DEF JobInv, Busy, Key
<1> QED
  BY <1>2 DEF SetupInv

LEMMA AdvanceType == ASSUME NEW j \in Job, j.next \in Key PROVE Advance(j) \in Job /\ Advance(j).org = j.org
<1>1. j.next + 1 \in 1..9
  BY DEF Key
<1> QED
  BY <1>1 DEF Advance, Job, JobPc

LEMMA SeedUserKeeps ==
  ASSUME SetupInv, SeedUser PROVE SetupInv'
<1> USE DEF SeedUser, Seeds
<1>1. PICK k \in Key : k = job.next /\ k \in 3..5
  BY SeedRowIs
<1>2. PICK i \in 1..2 : i = SeedRow[k].of
  BY SeedRowIs
<1>3. TypeOK /\ job \in Job /\ job.pc = "seeding" /\ UNCHANGED <<migration, invitations>>
  BY DEF SetupInv, TypeOK
<1>4. MigrationInv' /\ Complete'
  BY <1>3, NextInv DEF SetupInv, JobInv, Busy, Complete, migration, schema
<1>5. \A l \in Key : l < k => Placed(l)
  BY <1>1, <1>3 DEF SetupInv, JobInv
<1>6. job.org[i] \in Stored
  BY <1>1, <1>2, <1>5, SeedRowIs DEF Placed, Key
<1>7. users' = [users EXCEPT ![k] = job.org[i]]
  BY <1>1, <1>2 DEF OrgOfRow
<1>8. users' \in [KeyOf("users") -> OrgId \cup {Nil}]
  BY <1>3, <1>6, <1>7 DEF TypeOK, Stored
<1>9. job' \in Job /\ job'.org = job.org
  BY <1>1, <1>3, AdvanceType
<1>10. TypeOK'
  BY <1>3, <1>4, <1>8, <1>9 DEF TypeOK, MigrationInv
<1>11. organizations' = organizations /\ Stored' = Stored
  BY <1>3, RowsStay DEF migration, rows
<1>12. NoOrphans'
  BY <1>3, <1>6, <1>7, <1>11 DEF SetupInv, NoOrphans, TypeOK
<1>13. ASSUME NEW l \in Key, l =< k PROVE Placed(l)'
  <2>1. CASE l = k
    BY <1>1, <1>2, <1>3, <1>7, <1>9, <2>1, SeedRowIs, KeysAre DEF Placed, TypeOK
  <2>2. CASE l < k
    <3>1. Placed(l)
      BY <1>5, <2>2
    <3> QED
      BY <1>3, <1>7, <1>9, <1>11, <2>2, <3>1, SeedRowIs, KeysAre DEF Placed, TypeOK
  <2> QED
    BY <1>13, <2>1, <2>2 DEF Key
<1> QED
  BY <1>1, <1>3, <1>4, <1>10, <1>12, <1>13, AdvanceKeeps

LEMMA SeedInvitationKeeps ==
  ASSUME SetupInv, SeedInvitation PROVE SetupInv'
<1> USE DEF SeedInvitation, Seeds
<1>1. PICK k \in Key : k = job.next /\ k \in 6..8
  BY SeedRowIs
<1>2. PICK i \in 1..2 : i = SeedRow[k].of
  BY SeedRowIs
<1>3. TypeOK /\ job \in Job /\ job.pc = "seeding" /\ UNCHANGED <<migration, users>>
  BY DEF SetupInv, TypeOK
<1>4. MigrationInv' /\ Complete'
  BY <1>3, NextInv DEF SetupInv, JobInv, Busy, Complete, migration, schema
<1>5. \A l \in Key : l < k => Placed(l)
  BY <1>1, <1>3 DEF SetupInv, JobInv
<1>6. job.org[i] \in Stored
  BY <1>1, <1>2, <1>5, SeedRowIs DEF Placed, Key
<1>7. invitations' = [invitations EXCEPT ![k] = job.org[i]]
  BY <1>1, <1>2 DEF OrgOfRow
<1>8. invitations' \in [KeyOf("invitations") -> OrgId \cup {Nil}]
  BY <1>3, <1>6, <1>7 DEF TypeOK, Stored
<1>9. job' \in Job /\ job'.org = job.org
  BY <1>1, <1>3, AdvanceType
<1>10. TypeOK'
  BY <1>3, <1>4, <1>8, <1>9 DEF TypeOK, MigrationInv
<1>11. organizations' = organizations /\ Stored' = Stored
  BY <1>3, RowsStay DEF migration, rows
<1>12. NoOrphans'
  BY <1>3, <1>6, <1>7, <1>11 DEF SetupInv, NoOrphans, TypeOK
<1>13. ASSUME NEW l \in Key, l =< k PROVE Placed(l)'
  <2>1. CASE l = k
    BY <1>1, <1>2, <1>3, <1>7, <1>9, <2>1, SeedRowIs, KeysAre DEF Placed, TypeOK
  <2>2. CASE l < k
    <3>1. Placed(l)
      BY <1>5, <2>2
    <3> QED
      BY <1>3, <1>7, <1>9, <1>11, <2>2, <3>1, SeedRowIs, KeysAre DEF Placed, TypeOK
  <2> QED
    BY <1>13, <2>1, <2>2 DEF Key
<1> QED
  BY <1>1, <1>3, <1>4, <1>10, <1>12, <1>13, AdvanceKeeps

LEMMA SeedOrganizationKeeps ==
  ASSUME SetupInv, SeedOrganization PROVE SetupInv'
<1> USE DEF SeedOrganization, Seeds
<1>1. PICK k \in 1..2 : k = job.next /\ k = SeedRow[k].of /\ k \in Key
  BY SeedRowIs DEF Key
<1>2. PICK o \in OrgId : /\ Insert(o, SeedSignature[k])
                         /\ job' = Advance([job EXCEPT !.org[k] = o])
  BY <1>1
<1>3. TypeOK /\ job \in Job /\ job.pc = "seeding" /\ UNCHANGED <<schema, run, history, users, invitations>>
  BY DEF SetupInv, TypeOK
<1>4. Complete
  BY <1>3 DEF SetupInv, JobInv, Busy
<1>5. SeedSignature[k] \in Signature /\ SeedSignature[k] # "null" /\ SeedSignature[k] # Nil
  BY SeedAssumption, SignatureAssumption DEF Unsigned
<1>6. /\ MigrationInv'
      /\ \A q \in OrgId : organizations[q] # Nil => organizations'[q] = organizations[q]
  BY <1>2, <1>3, <1>4, <1>5, InsertKeeps DEF SetupInv, Complete
<1>7. Stays
  BY <1>3, <1>6, InsertStays DEF SetupInv
<1>8. o \in Stored' /\ organizations'[o] = SeedSignature[k]
  BY <1>2, <1>3, <1>5 DEF Insert, TypeOK, MigrationTypeOK, Stored
<1> DEFINE j == [job EXCEPT !.org[k] = o]
<1>9. /\ j \in Job /\ j.pc = "seeding" /\ j.next = k
      /\ j.org = [job.org EXCEPT ![k] = o] /\ job.org \in [1..2 -> OrgId \cup {Nil}]
  BY <1>1, <1>3 DEF Job
<1> HIDE DEF j
<1>10. job' = Advance(j)
  BY <1>2 DEF j
<1>11. job' \in Job /\ job'.org = j.org
  BY <1>1, <1>9, <1>10, AdvanceType
<1>12. TypeOK' /\ NoOrphans'
  BY <1>3, <1>6, <1>7, <1>11 DEF SetupInv, TypeOK, MigrationInv, NoOrphans, Stays
<1>13. ASSUME NEW l \in Key, l =< k PROVE Placed(l)'
  <2>1. l \in 1..2 /\ SeedRow[l].of = l /\ SeedRow[l].table = "organizations"
    BY <1>13, SeedRowIs DEF Key
  <2>2. CASE l = k
    BY <1>8, <1>9, <1>11, <2>1, <2>2 DEF Placed
  <2>3. CASE l < k
    <3>1. Placed(l)
      BY <1>1, <1>3, <2>3 DEF SetupInv, JobInv
    <3>2. job.org[l] \in Stored /\ organizations[job.org[l]] = SeedSignature[l] /\ SeedSignature[l] \in Signature
      BY <2>1, <3>1, SeedAssumption DEF Placed
    <3>3. job'.org[l] = job.org[l]
      BY <1>9, <1>11, <2>1, <2>3
    <3> QED
      BY <1>7, <2>1, <3>2, <3>3 DEF Placed, Stays
  <2> QED
    BY <1>13, <2>1, <2>2, <2>3
<1>14. Complete'
  BY <1>4, <1>7 DEF Stays
<1> QED
  BY <1>1, <1>6, <1>9, <1>10, <1>12, <1>13, <1>14, AdvanceKeeps

\* A step that leaves the rows and the schema alone.
LEMMA QuietMigration ==
  ASSUME MigrationInv, UNCHANGED <<schema, rows, run, unhurt, migrated, settled>>, failures' \in 0..MaxFailures
  PROVE  MigrationInv' /\ Stays
<1> USE DEF schema, rows
<1>1. MigrationTypeOK' /\ Grows /\ RowInv' /\ Complete' = Complete
  BY RowsStay DEF MigrationInv, MigrationTypeOK, Grows, RowInv, Complete
<1>2. NoNewEmpty /\ lastId' \in OrgId \cup {0}
  BY QuietRows
<1>3. \A m \in Migrators : RunInv(m)'
  BY <1>1, <1>2, OthersStay
<1>4. SettledInv'
  BY <1>1, <1>2, SettledStays DEF MigrationInv
<1> QED
  BY <1>1, <1>3, <1>4, RowsStay DEF MigrationInv, SuccessMeansComplete, Stays

LEMMA GiveUpKeeps ==
  ASSUME SetupInv, SeedRefused \/ JobFails PROVE SetupInv'
<1>1. failures' \in 0..MaxFailures /\ UNCHANGED <<schema, rows, run, unhurt, migrated, settled, users, invitations>>
  <2>1. failures \in 0..MaxFailures
    BY DEF SetupInv, TypeOK, MigrationTypeOK
  <2>2. CASE SeedRefused
    BY <2>1, <2>2 DEF SeedRefused, migration, history
  <2>3. CASE JobFails
    BY <2>1, <2>3, FailuresAssumption DEF JobFails
  <2> QED BY <2>2, <2>3
<1>2. MigrationInv' /\ Stays
  BY <1>1, QuietMigration DEF SetupInv
<1>3. job' \in Job /\ job'.pc = "idle"
  BY DEF SetupInv, TypeOK, SeedRefused, JobFails, Job, JobPc
<1>4. TypeOK' /\ NoOrphans'
  BY <1>1, <1>2, <1>3 DEF SetupInv, TypeOK, MigrationInv, NoOrphans, Stays
<1>5. JobInv'
  BY <1>3 DEF JobInv, Busy
<1> QED
  BY <1>2, <1>4, <1>5 DEF SetupInv

\* What the deletes have in common.
LEMMA CleaningKeeps ==
  ASSUME SetupInv, MigrationInv', Complete', NoOrphans', job.pc = "cleaning",
         users' \in [KeyOf("users") -> OrgId \cup {Nil}], invitations' \in [KeyOf("invitations") -> OrgId \cup {Nil}],
         NEW n \in 2..3, job' = [job EXCEPT !.next = n],
         \A k \in KeyOf("invitations") : invitations'[k] = Nil,
         n = 3 => \A k \in KeyOf("users") : users'[k] = Nil
  PROVE  SetupInv'
<1>1. job' \in Job /\ job'.pc = "cleaning" /\ job'.next = n
  BY DEF SetupInv, TypeOK, Job
<1> QED
  BY <1>1 DEF SetupInv, JobInv, TypeOK, MigrationInv, Busy

LEMMA DeletesKeep ==
  ASSUME SetupInv, DeleteInvitations \/ DeleteUsers PROVE SetupInv'
<1>1. TypeOK /\ JobInv /\ UNCHANGED migration /\ job.pc = "cleaning"
  BY DEF SetupInv, DeleteInvitations, DeleteUsers, Empties
<1>2. MigrationInv' /\ Complete' /\ Stored' = Stored
  BY <1>1, NextInv, RowsStay DEF SetupInv, JobInv, Busy, Complete, migration, schema, rows
<1>3. CASE DeleteInvitations
  <2>1. NoOrphans'
    BY <1>2, <1>3 DEF SetupInv, NoOrphans, DeleteInvitations
  <2> QED
    BY <1>1, <1>2, <1>3, <2>1, CleaningKeeps DEF DeleteInvitations, TypeOK
<1>4. CASE DeleteUsers
  <2>1. NoOrphans' /\ job.next = 2
    BY <1>2, <1>4 DEF SetupInv, NoOrphans, DeleteUsers, Empties
  <2> QED
    BY <1>1, <1>2, <1>4, <2>1, CleaningKeeps DEF DeleteUsers, TypeOK, JobInv
<1> QED
  BY <1>3, <1>4

LEMMA DeleteOrganizationsKeeps ==
  ASSUME SetupInv, DeleteOrganizations PROVE SetupInv'
<1> USE DEF DeleteOrganizations, Empties, schema, history
<1>1. TypeOK /\ JobInv /\ MigrationInv /\ Stored' = {} /\ InUse' = {}
  BY DEF SetupInv, Stored, InUse
<1>2. MigrationTypeOK' /\ Grows /\ RowInv'
  BY <1>1 DEF MigrationInv, MigrationTypeOK, Grows, RowInv
<1>21. NoNewEmpty /\ lastId' \in OrgId \cup {0}
  <2>1. lastId \in OrgId \cup {0} /\ lastId' = lastId
    BY <1>1 DEF MigrationInv, MigrationTypeOK
  <2>2. \A o \in OrgId : organizations'[o] # "empty"
    BY SignatureAssumption DEF Unsigned
  <2> QED
    BY <2>1, <2>2, OrgIdAssumption DEF NoNewEmpty
<1>3. \A m \in Migrators : RunInv(m)'
  BY <1>1, <1>2, <1>21, OthersStay
<1>22. SettledInv'
  BY <1>1, <1>2, <1>21, CompleteStays, SettledStays DEF MigrationInv
<1>4. MigrationInv'
  BY <1>1, <1>2, <1>3, <1>22, CompleteStays DEF MigrationInv, SuccessMeansComplete
<1>5. NoOrphans'
  BY <1>1 DEF JobInv, NoOrphans
<1>6. job' \in Job /\ job'.pc = "cleaned"
  BY <1>1 DEF TypeOK, Job, JobPc
<1>7. TypeOK'
  BY <1>1, <1>2, <1>6 DEF TypeOK
<1>8. JobInv'
  BY <1>6 DEF JobInv, Busy
<1> QED
  BY <1>4, <1>5, <1>7, <1>8 DEF SetupInv

-----------------------------------------------------------------------------
LEMMA SetupInitInv == Init => SetupInv
<1> SUFFICES ASSUME Init PROVE SetupInv
  OBVIOUS
<1>1. MigrationInv
  BY InitInv DEF Init
<1>2. job \in Job /\ job.pc = "idle"
  BY DEF Init, NoJob, Job, JobPc
<1>3. TypeOK /\ NoOrphans
  BY <1>1, <1>2 DEF Init, TypeOK, NoOrphans, MigrationInv
<1> QED
  BY <1>1, <1>2, <1>3 DEF SetupInv, JobInv, Busy

LEMMA SetupNextInv == SetupInv /\ [Next]_vars => SetupInv'
<1> SUFFICES ASSUME SetupInv, [Next]_vars PROVE SetupInv'
  OBVIOUS
<1>1. CASE MigrationNext /\ UNCHANGED <<users, invitations, job>>
  BY <1>1, NextInv, MigrationStays, OtherKeeps DEF SetupInv
<1>2. CASE SetupNext
  BY <1>2, StartJobKeeps, SeedOrganizationKeeps, SeedUserKeeps, SeedInvitationKeeps, GiveUpKeeps, DeletesKeep,
     DeleteOrganizationsKeeps DEF SetupNext, StartSeed, StartCleanup
<1>3. CASE UNCHANGED vars
  <2>1. MigrationInv' /\ Stays
    <3>1. UNCHANGED <<schema, rows, run, unhurt, migrated, settled>> /\ failures' \in 0..MaxFailures
      BY <1>3 DEF vars, migration, history, SetupInv, TypeOK, MigrationTypeOK
    <3> QED
      BY <3>1, QuietMigration DEF SetupInv
  <2> QED
    BY <1>3, <2>1, OtherKeeps DEF vars
<1> QED
  BY <1>1, <1>2, <1>3 DEF Next

\* No user and no invitation that Seed stores is ever without its organization,
\* although no table has a foreign key: the order of Seed's inserts and of
\* Cleanup's deletes (internal/seed/seed.go) is enough.
THEOREM NobodyIsOrphaned == Spec => []NoOrphans
<1>1. SetupInv => NoOrphans
  BY DEF SetupInv
<1> QED
  BY <1>1, SetupInitInv, SetupNextInv, PTL DEF Spec

\* A Seed that returned has stored all its rows, under its own organizations.
THEOREM SeedStoresAll == Spec => []SeedIsWhole
<1>1. SetupInv => SeedIsWhole
  <2> SUFFICES ASSUME SetupInv, job.pc = "seeded"
               PROVE  /\ \A i \in 1..2 : job.org[i] \in Stored /\ organizations[job.org[i]] = SeedSignature[i]
                      /\ \A k \in KeyOf("users") : users[k] = job.org[SeedRow[k].of]
                      /\ \A k \in KeyOf("invitations") : invitations[k] = job.org[SeedRow[k].of]
    BY DEF SeedIsWhole
  <2>1. \A k \in Key : Placed(k)
    BY DEF SetupInv, JobInv, Key
  <2> QED
    BY <2>1, SeedRowIs, KeysAre DEF Placed, Key
<1> QED
  BY <1>1, SetupInitInv, SetupNextInv, PTL DEF Spec


-----------------------------------------------------------------------------
(* A Seed that follows a Cleanup *)

\* Nothing has what is unique about row k of Seed.
Free(k) ==
    /\ SeedRow[k].table = "organizations" => SeedSignature[SeedRow[k].of] \notin InUse
    /\ SeedRow[k].table = "users" => users[k] = Nil
    /\ SeedRow[k].table = "invitations" => invitations[k] = Nil

\* Cleanup frees all the rows, and a Seed right after it finds those still to
\* come free: no migration and no application takes one meanwhile.
FreshInv == /\ job.pc = "cleaned" => \A k \in Key : Free(k)
            /\ job.pc = "seeding" /\ job.fresh => \A k \in Key : k >= job.next => Free(k)

\* A migration or an application gives an organization no value that Seed has
\* for its own.
LEMMA OnlyDrawn ==
  ASSUME MigrationInv, MigrationNext PROVE InUse' \subseteq InUse \cup Drawn \cup Unsigned
<1>t. MigrationTypeOK
  BY DEF MigrationInv
<1>1. ASSUME organizations' = organizations PROVE InUse' \subseteq InUse
  BY <1>1 DEF InUse
<1>2. ASSUME NEW m \in Migrators, StartMigrate(m) \/ Outage(m) \/ Crash(m) PROVE InUse' \subseteq InUse
  BY <1>1, <1>2 DEF StartMigrate, Outage, Crash, rows
<1>3. ASSUME NEW m \in Migrators, Step(m), ~FillSignatures(m) PROVE InUse' \subseteq InUse
  BY <1>1, <1>3, StepKeepsRows
<1>4. ASSUME Fill PROVE InUse' \subseteq InUse \cup Drawn
  <2> DEFINE f == Draw(ToFill, InUse \cup {Nil})
  <2>1. ToFill \in SUBSET OrgId /\ \A k \in ToFill : organizations[k] \notin Signature
    BY SignatureAssumption DEF ToFill, Stored
  <2>2. f \in [ToFill -> Drawn \ InUse]
    BY <2>1, DrawIsFresh DEF MigrationInv
  <2>3. organizations' = [o \in OrgId |-> IF o \in ToFill THEN f[o] ELSE organizations[o]]
    BY <1>4 DEF Fill
  <2> HIDE DEF f
  <2> QED
    BY <2>2, <2>3 DEF InUse
<1>5. ASSUME NEW m \in Migrators, FillSignatures(m) PROVE InUse' \subseteq InUse \cup Drawn
  BY <1>1, <1>4, <1>5 DEF FillSignatures
<1>6. ASSUME NEW o \in OrgId, NEW s, Insert(o, s) PROVE InUse' \subseteq InUse \cup {s}
  <2>1. organizations' = [organizations EXCEPT ![o] = s]
    BY <1>6 DEF Insert
  <2> QED
    BY <1>t, <2>1 DEF InUse, MigrationTypeOK
<1>7. ASSUME FoundUnsigned PROVE InUse' \subseteq InUse \cup Unsigned
  BY <1>6, <1>7 DEF FoundUnsigned, Unsigned
<1>8. ASSUME FoundSigned PROVE InUse' \subseteq InUse \cup Drawn
  <2>1. PICK o \in OrgId : Insert(o, Draw({o}, InUse \cup {Nil})[o])
    BY <1>8 DEF FoundSigned
  <2>2. organizations[o] = Nil
    BY <2>1, OrgIdAssumption DEF Insert, MigrationInv, MigrationTypeOK, RowInv
  <2>3. {o} \in SUBSET OrgId /\ \A k \in {o} : organizations[k] \notin Signature
    BY <2>2, SignatureAssumption
  <2>4. Draw({o}, InUse \cup {Nil}) \in [{o} -> Drawn \ InUse]
    BY <2>3, DrawIsFresh DEF MigrationInv
  <2>5. PICK s : s = Draw({o}, InUse \cup {Nil})[o] /\ s \in Drawn
    BY <2>4
  <2> QED
    BY <1>6, <2>1, <2>5
<1> QED
  BY <1>2, <1>3, <1>5, <1>7, <1>8 DEF MigrationNext

LEMMA FreshOtherKeeps ==
  ASSUME SetupInv, FreshInv, UNCHANGED <<users, invitations, job>>,
         InUse' \subseteq InUse \cup Drawn \cup Unsigned
  PROVE  FreshInv'
<1>1. ASSUME NEW k \in Key, Free(k) PROVE Free(k)'
  <2>1. SeedSignature[SeedRow[k].of] \in Signature \ Drawn
    BY SeedRowIs, SeedAssumption
  <2>2. Signature \cap Unsigned = {}
    BY SignatureAssumption
  <2> QED
    BY <1>1, <2>1, <2>2 DEF Free
<1> QED
  BY <1>1 DEF FreshInv

\* A row that goes in takes nothing from the rows to come.
LEMMA FreshSeedKeeps ==
  ASSUME SetupInv, FreshInv, SeedOrganization \/ SeedUser \/ SeedInvitation
  PROVE  FreshInv'
<1> USE DEF Seeds
<1>t. TypeOK /\ MigrationTypeOK /\ job \in Job
  BY DEF SetupInv, TypeOK
<1>1. PICK k \in Key : k = job.next /\ job.pc = "seeding"
  BY DEF SeedOrganization, SeedUser, SeedInvitation
<1>2. PICK j \in Job : job' = Advance(j) /\ j.next = k /\ j.pc = "seeding" /\ j.fresh = job.fresh
  <2>1. CASE SeedOrganization
    <3>1. PICK o \in OrgId : job' = Advance([job EXCEPT !.org[SeedRow[job.next].of] = o])
      BY <2>1 DEF SeedOrganization
    <3>2. SeedRow[k].of \in 1..2
      BY SeedRowIs
    <3> QED
      BY <1>t, <1>1, <3>1, <3>2 DEF Job
  <2>2. CASE SeedUser \/ SeedInvitation
    BY <1>t, <1>1, <2>2 DEF SeedUser, SeedInvitation
  <2> QED
    BY <2>1, <2>2
<1>3. job'.next = k + 1 /\ job'.fresh = job.fresh /\ job'.pc \in {"seeding", "seeded"}
  BY <1>1, <1>2 DEF Advance, Job, JobPc
<1>4. ASSUME NEW l \in Key, l >= k + 1, Free(l) PROVE Free(l)'
  <2>1. CASE SeedOrganization
    <3>1. k \in 1..2 /\ SeedRow[k].of = k
      BY <1>1, <2>1, SeedRowIs DEF SeedOrganization
    <3>2. PICK o \in OrgId : organizations' = [organizations EXCEPT ![o] = SeedSignature[k]]
      BY <1>1, <2>1, <3>1 DEF SeedOrganization, Insert
    <3>3. InUse' \subseteq InUse \cup {SeedSignature[k]}
      BY <1>t, <3>2 DEF InUse, MigrationTypeOK
    <3>4. SeedRow[l].table = "organizations" => l = 2 /\ k = 1 /\ SeedRow[l].of = l
      BY <1>4, <3>1, SeedRowIs DEF Key
    <3>5. UNCHANGED <<users, invitations>>
      BY <2>1 DEF SeedOrganization
    <3> QED
      BY <1>4, <3>3, <3>4, <3>5, SeedAssumption DEF Free
  <2>2. CASE SeedUser
    <3>1. organizations' = organizations /\ InUse' = InUse /\ UNCHANGED invitations
      BY <2>2 DEF SeedUser, migration, rows, InUse
    <3>2. users'[l] = users[l] \/ SeedRow[l].table # "users"
      <4>1. users' = [users EXCEPT ![k] = OrgOfRow] /\ l # k
        BY <1>1, <1>4, <2>2 DEF SeedUser, Key
      <4> QED
        BY <1>t, <4>1 DEF TypeOK, KeyOf
    <3> QED
      BY <1>4, <3>1, <3>2 DEF Free
  <2>3. CASE SeedInvitation
    <3>1. organizations' = organizations /\ InUse' = InUse /\ UNCHANGED users
      BY <2>3 DEF SeedInvitation, migration, rows, InUse
    <3>2. invitations'[l] = invitations[l] \/ SeedRow[l].table # "invitations"
      <4>1. invitations' = [invitations EXCEPT ![k] = OrgOfRow] /\ l # k
        BY <1>1, <1>4, <2>3 DEF SeedInvitation, Key
      <4> QED
        BY <1>t, <4>1 DEF TypeOK, KeyOf
    <3> QED
      BY <1>4, <3>1, <3>2 DEF Free
  <2> QED
    BY <2>1, <2>2, <2>3
<1>5. job'.fresh => \A l \in Key : l >= k + 1 => Free(l)
  BY <1>1, <1>3 DEF FreshInv, Key
<1> QED
  BY <1>3, <1>4, <1>5 DEF FreshInv

LEMMA FreshStartKeeps ==
  ASSUME SetupInv, FreshInv, NEW pc \in {"seeding", "cleaning"}, StartJob(pc) PROVE FreshInv'
<1>1. job'.pc = pc /\ job'.next = 1 /\ job'.fresh = (job.pc = "cleaned")
  <2>1. job' = [NoJob EXCEPT !.pc = pc, !.fresh = (job.pc = "cleaned")]
    BY DEF StartJob
  <2> QED
    BY <2>1 DEF NoJob
<1>2. \A k \in Key : Free(k) => Free(k)'
  BY DEF StartJob, Free, migration, rows, InUse
<1> QED
  BY <1>1, <1>2 DEF FreshInv

LEMMA FreshDeleteKeeps ==
  ASSUME SetupInv, FreshInv, DeleteInvitations \/ DeleteUsers \/ DeleteOrganizations PROVE FreshInv'
<1>t. job \in Job
  BY DEF SetupInv, TypeOK
<1>1. CASE DeleteInvitations \/ DeleteUsers
  <2>1. job'.pc = "cleaning"
    BY <1>t, <1>1 DEF DeleteInvitations, DeleteUsers, Empties, Job
  <2> QED
    BY <2>1 DEF FreshInv
<1>2. CASE DeleteOrganizations
  <2>1. job'.pc = "cleaned" /\ job.pc = "cleaning" /\ job.next = 3
    BY <1>t, <1>2 DEF DeleteOrganizations, Empties, Job
  <2>2. /\ \A k \in KeyOf("invitations") : invitations'[k] = Nil
        /\ \A k \in KeyOf("users") : users'[k] = Nil
    BY <1>2, <2>1 DEF SetupInv, JobInv, DeleteOrganizations
  <2>3. InUse' = {}
    BY <1>2 DEF DeleteOrganizations, InUse
  <2>4. \A k \in Key : Free(k)'
    BY <2>2, <2>3 DEF Free, KeyOf
  <2> QED
    BY <2>1, <2>4 DEF FreshInv
<1> QED
  BY <1>1, <1>2

LEMMA FreshNext == SetupInv /\ FreshInv /\ [Next]_vars => FreshInv'
<1> SUFFICES ASSUME SetupInv, FreshInv, [Next]_vars PROVE FreshInv'
  OBVIOUS
<1>1. CASE MigrationNext /\ UNCHANGED <<users, invitations, job>>
  BY <1>1, OnlyDrawn, FreshOtherKeeps DEF SetupInv
<1>2. CASE SeedRefused \/ JobFails
  <2>1. job'.pc = "idle"
    BY <1>2 DEF SetupInv, TypeOK, SeedRefused, JobFails, Job
  <2> QED
    BY <2>1 DEF FreshInv
<1>3. CASE UNCHANGED vars
  BY <1>3 DEF FreshInv, Free, vars, migration, rows, InUse
<1> QED
  BY <1>1, <1>2, <1>3, FreshStartKeeps, FreshSeedKeeps, FreshDeleteKeeps
  DEF Next, SetupNext, StartSeed, StartCleanup

\* A Seed (internal/seed/seed.go) that follows a Cleanup which returned nil
\* finds every row it inserts free, whatever an earlier Seed left behind and
\* whoever founds organizations and migrates in between.
THEOREM CleanupMakesRoom == Spec => []SeedAfterCleanup
<1>1. Init => FreshInv
  BY DEF Init, NoJob, FreshInv
<1>2. FreshInv => SeedAfterCleanup
  BY DEF FreshInv, SeedAfterCleanup, RowTaken, Seeds, Free, Key
<1> QED
  BY <1>1, <1>2, SetupInitInv, SetupNextInv, FreshNext, PTL DEF Spec
=============================================================================
