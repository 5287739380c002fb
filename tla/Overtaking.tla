----------------------------- MODULE Overtaking -----------------------------
(***************************************************************************)
(* Manager with a record of the rows that were overtaken: those a request  *)
(* has read and is still to write back whole, and that another request has *)
(* written in between.  Nothing in the code keeps that from happening, and *)
(* a save of an overtaken row undoes what the other request did; this      *)
(* module says what such saves can undo, and that nothing else does.       *)
(*                                                                         *)
(* The added variables are history: no action of Manager reads them, and   *)
(* every behavior of Manager is one of OvertakingSpec with them hidden.    *)
(* A row counts as overtaken when what the model keeps of it has changed.  *)
(***************************************************************************)
EXTENDS Manager

VARIABLES staleUsers,          \* the overtaken user rows each process holds
          staleOrganizations,  \* the overtaken organization rows
          staleInvitations     \* the overtaken invitation rows

stale == <<staleUsers, staleOrganizations, staleInvitations>>

overtakingVars == <<vars, stale>>

Moves(p) == req'[p] # req[p]

\* What p still holds after a step was overtaken before it, or is by the step
\* of another process.
Overtaken(p, before, held, table) ==
    {k \in held : k \in before \/ (~Moves(p) /\ table'[k] # table[k])}

HeldOrganization(r) == IF r.orow # Nil THEN {r.org} ELSE {}

HeldInvitation(r) == IF r.irow # Nil THEN {r.inv} ELSE {}

Overtake ==
    /\ staleUsers' = [p \in Procs |->
          Overtaken(p, staleUsers[p], Stored(req'[p].urows), users)]
    /\ staleOrganizations' = [p \in Procs |->
          Overtaken(p, staleOrganizations[p], HeldOrganization(req'[p]), organizations)]
    /\ staleInvitations' = [p \in Procs |->
          Overtaken(p, staleInvitations[p], HeldInvitation(req'[p]), invitations)]

OvertakingInit == /\ Init
                  /\ staleUsers = [p \in Procs |-> {}]
                  /\ staleOrganizations = [p \in Procs |-> {}]
                  /\ staleInvitations = [p \in Procs |-> {}]

OvertakingNext == Next /\ Overtake

OvertakingSpec == OvertakingInit /\ [][OvertakingNext]_overtakingVars

-----------------------------------------------------------------------------
(* What only the save of an overtaken row undoes *)

\* What is done to a user row is not undone by writing new over it.
KeepsMarks(row, new) == /\ row.deletedAt = "set" => new.deletedAt = "set"
                        /\ row.password = "chosen" => new.password = "chosen"

\* A deletion of a user or an organization, and a password somebody chose, are
\* undone by nothing but a save of a row that another request has written since
\* it was read: with any number of requests under way, each of the operations
\* carries into its save what it found in the row.
OnlyOvertakenSavesUndo ==
    [][/\ \A u \in Stored(users) : ~KeepsMarks(users[u], users'[u]) =>
             \E p \in Procs : Moves(p) /\ At(p, "saveUsers") /\ u \in staleUsers[p]
       /\ \A o \in Stored(organizations) :
             organizations[o].deletedAt = "set" /\ organizations'[o].deletedAt # "set" =>
                \E p \in Procs : Moves(p) /\ At(p, "saveOrganization") /\ o \in staleOrganizations[p]
      ]_overtakingVars

\* What opens an invitation, and until when.
Link(row) == [token |-> row.token, expiresAt |-> row.expiresAt]

\* The link of an invitation changes, and a rejection is taken back, only by
\* ResendInvitation or by a save of a row that another request has written since
\* it was read: no acceptance is written over a rejection that was there to see.
OnlyOvertakenSavesReopen ==
    [][\A i \in Stored(invitations) :
          \/ Link(invitations'[i]) # Link(invitations[i])
          \/ invitations[i].status = "rejected" /\ invitations'[i].status # "rejected"
          => \E p \in Procs :
                /\ Moves(p) /\ At(p, "saveInvitation")
                /\ req[p].op = "ResendInvitation" \/ i \in staleInvitations[p]
      ]_overtakingVars
=============================================================================
