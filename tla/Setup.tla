------------------------------- MODULE Setup -------------------------------
(***************************************************************************)
(* The migrate command with -seed (cmd/migrate/main.go), and the set-up of *)
(* the integration tests: Migrate, then Seed and Cleanup                   *)
(* (internal/seed/seed.go) on the database Migration describes.            *)
(*                                                                         *)
(* Seed is eight inserts and Cleanup three deletes, each a transaction of  *)
(* its own.  One of the two runs at a time.  Seed gives its rows the same  *)
(* signatures, addresses and tokens on every run, all under a unique       *)
(* index.  No table has a foreign key.                                     *)
(***************************************************************************)
EXTENDS Migration

CONSTANT SeedSignature  \* the signatures of the two organizations Seed creates

ASSUME SeedAssumption == /\ SeedSignature \in [1..2 -> Signature \ Drawn]
                         /\ SeedSignature[1] # SeedSignature[2]

\* The rows Seed inserts, in order: the table, and which of its two
\* organizations the row is, or belongs to.
SeedRow == <<[table |-> "organizations", of |-> 1], [table |-> "organizations", of |-> 2],
             [table |-> "users", of |-> 1], [table |-> "users", of |-> 1],
             [table |-> "users", of |-> 2],
             [table |-> "invitations", of |-> 1], [table |-> "invitations", of |-> 1],
             [table |-> "invitations", of |-> 2]>>

Key == 1..8

KeyOf(table) == {k \in Key : SeedRow[k].table = table}

\* What the command or the tests are doing; a finished Seed or Cleanup is
\* kept apart from one that failed.
JobPc == {"idle", "seeding", "seeded", "cleaning", "cleaned"}

Job == [pc    : JobPc,
        next  : 1..9,                       \* the row to insert, the table to empty
        org   : [1..2 -> OrgId \cup {Nil}], \* the ids of this run's organizations
        fresh : BOOLEAN]                    \* whether a Cleanup finished just before

NoJob == [pc |-> "idle", next |-> 1, org |-> [i \in 1..2 |-> Nil], fresh |-> FALSE]

VARIABLES users,        \* the organization of the seeded user with each address
          invitations,  \* and of the seeded invitation with each token
          job

vars == <<migration, users, invitations, job>>

TypeOK == /\ MigrationTypeOK
          /\ users \in [KeyOf("users") -> OrgId \cup {Nil}]
          /\ invitations \in [KeyOf("invitations") -> OrgId \cup {Nil}]
          /\ job \in Job

Init == /\ MigrationInit
        /\ users = [k \in KeyOf("users") |-> Nil]
        /\ invitations = [k \in KeyOf("invitations") |-> Nil]
        /\ job = NoJob

-----------------------------------------------------------------------------
Busy == job.pc \in {"seeding", "cleaning"}

\* log.Fatalf: neither starts unless Migrate has returned nil.
StartJob(pc) == /\ migrated # {} /\ ~Busy
                /\ job' = [NoJob EXCEPT !.pc = pc, !.fresh = (job.pc = "cleaned")]
                /\ UNCHANGED <<migration, users, invitations>>

StartSeed == StartJob("seeding")

StartCleanup == StartJob("cleaning")

\* The next row of Seed, in progress at table.
Seeds(table) == /\ job.pc = "seeding" /\ job.next \in Key
                /\ SeedRow[job.next].table = table

\* Mistake: everything goes to the first organization.
FirstOrgOfRow == job.org[1]

\* The OrganizationID of the row.
OrgOfRow == job.org[SeedRow[job.next].of]

Advance(j) == [j EXCEPT !.next = @ + 1, !.pc = IF job.next = 8 THEN "seeded" ELSE @]

SeedOrganization ==
    /\ Seeds("organizations")
    /\ \E o \in OrgId : /\ Insert(o, SeedSignature[SeedRow[job.next].of])
                        /\ job' = Advance([job EXCEPT !.org[SeedRow[job.next].of] = o])
    /\ UNCHANGED <<schema, run, history, users, invitations>>

SeedUser ==
    /\ Seeds("users")
    /\ users[job.next] = Nil
    /\ users' = [users EXCEPT ![job.next] = OrgOfRow]
    /\ job' = Advance(job)
    /\ UNCHANGED <<migration, invitations>>

SeedInvitation ==
    /\ Seeds("invitations")
    /\ invitations[job.next] = Nil
    /\ invitations' = [invitations EXCEPT ![job.next] = OrgOfRow]
    /\ job' = Advance(job)
    /\ UNCHANGED <<migration, users>>

\* A unique index refuses the next row.
RowTaken == \/ Seeds("organizations") /\ SeedSignature[SeedRow[job.next].of] \in InUse
            \/ Seeds("users") /\ users[job.next] # Nil
            \/ Seeds("invitations") /\ invitations[job.next] # Nil

\* Seed returns the error and leaves the rows it has inserted.
SeedRefused == /\ RowTaken
               /\ job' = [job EXCEPT !.pc = "idle"]
               /\ UNCHANGED <<migration, users, invitations>>

Empties(n) == job.pc = "cleaning" /\ job.next = n

\* Mistake: the organizations go first.
DeleteOrganizationsFirst ==
    /\ Empties(1)
    /\ organizations' = [o \in OrgId |-> Nil]
    /\ job' = [job EXCEPT !.pc = "cleaned"]
    /\ UNCHANGED <<schema, lastId, run, history, users, invitations>>

DeleteInvitations == /\ Empties(1)
                     /\ invitations' = [k \in KeyOf("invitations") |-> Nil]
                     /\ job' = [job EXCEPT !.next = 2]
                     /\ UNCHANGED <<migration, users>>

DeleteUsers == /\ Empties(2)
               /\ users' = [k \in KeyOf("users") |-> Nil]
               /\ job' = [job EXCEPT !.next = 3]
               /\ UNCHANGED <<migration, invitations>>

\* All organizations, not only the seeded ones.
DeleteOrganizations == /\ Empties(3)
                       /\ organizations' = [o \in OrgId |-> Nil]
                       /\ job' = [job EXCEPT !.pc = "cleaned"]
                       /\ UNCHANGED <<schema, lastId, run, history, users, invitations>>

\* Mistake: Cleanup goes on after an error and returns nil.
JobFailsUnnoticed ==
    /\ Busy /\ failures < MaxFailures
    /\ failures' = failures + 1
    /\ job' = [job EXCEPT !.pc = IF @ = "cleaning" THEN "cleaned" ELSE "idle"]
    /\ UNCHANGED <<schema, rows, run, unhurt, migrated, settled, users, invitations>>

\* A statement of Seed or Cleanup fails, or the process dies.
JobFails ==
    /\ Busy /\ failures < MaxFailures
    /\ failures' = failures + 1
    /\ job' = [job EXCEPT !.pc = "idle"]
    /\ UNCHANGED <<schema, rows, run, unhurt, migrated, settled, users, invitations>>

SetupNext == \/ StartSeed         \/ StartCleanup
             \/ SeedOrganization  \/ SeedUser    \/ SeedInvitation      \/ SeedRefused
             \/ DeleteInvitations \/ DeleteUsers \/ DeleteOrganizations
             \/ JobFails

Next == \/ MigrationNext /\ UNCHANGED <<users, invitations, job>>
        \/ SetupNext

Spec == Init /\ [][Next]_vars

-----------------------------------------------------------------------------
\* No table has a foreign key, yet no user and no invitation is ever without
\* its organization: whichever insert or delete was the last one.
NoOrphans == /\ \A k \in KeyOf("users") : users[k] # Nil => users[k] \in Stored
             /\ \A k \in KeyOf("invitations") : invitations[k] # Nil => invitations[k] \in Stored

\* A Seed that returned has stored all its rows under its own organizations,
\* however often an earlier one broke off.
SeedIsWhole ==
    job.pc = "seeded" =>
        /\ \A i \in 1..2 : job.org[i] \in Stored /\ organizations[job.org[i]] = SeedSignature[i]
        /\ \A k \in KeyOf("users") : users[k] = job.org[SeedRow[k].of]
        /\ \A k \in KeyOf("invitations") : invitations[k] = job.org[SeedRow[k].of]

\* A Seed that broke off makes the next one fail on its rows, but never one
\* that follows a Cleanup which returned nil.
SeedAfterCleanup == job.fresh => ~RowTaken
=============================================================================
