# Verification of orgboss

TLA+ models of [orgboss](../src/README.md), the Go library that adds
organizations, invitations and memberships to an Authboss application, with TLC
runs on small instances and theorems checked by TLAPS.  Paths below are relative
to the repository; `manager.go` is `src/manager.go` in it.

## The system

| Component | State | Operations | Modelled |
|---|---|---|---|
| Manager (`manager.go`) | none of its own; what a request has read and still holds | founding, inviting, bulk inviting, resending, accepting, rejecting, passwords, profiles, renaming, deleting | `Manager`; over the maps, `LocalManager` |
| PostgresStorage (`internal/storage/postgres.go`, `types/models.go`) | three tables | inserts, reads, whole-row saves, deletes | `PostgresStorage` (what Manager calls), `MaskingHandler` (upserts, refused saves, DeleteOrganization) |
| InMemoryStorage (`storage.go`, `internal/storage/storage.go`) | maps by id, invitations also by token | the same interface, with pointers | `InMemoryStorage` (what Manager calls, and DeleteInvitation) |
| DeletionHandler (`deletion_handler.go`; the README's own, `README.md:206-225`) | the storage it saves to | logical deletion; masking and physical deletion | in `Rules`, `Manager`, `Wiring`; the README's in `MaskingHandler` |
| RoleChecker (`role_checker.go`) | none | `HasPermission` | in `Rules` |
| Hooks (`hooks.go`) | eight function fields, all nil | called around operations | no: nothing can set them |
| Construction (`config.go`, `NewManager*`) | the `Config`, shared by reference | fills in handlers and templates | `Wiring` (handlers), `Mailing` (templates and From) |
| SMTPEmailSender (`internal/email/smtp.go`) | two templates, a From address | is made, reconfigured, sends an invitation | `Mailing`; the outcome of a mail in `Manager` |
| Authboss integration (`internal/authboss/integration.go`) | none | lets a user in to an organization; placeholder set-up | no: it keeps no state and reads one row |
| Migration (`internal/database/database.go`) | the schema, the signatures of old rows | `Migrate` | `Migration` |
| Seed and the migrate command (`internal/seed`, `cmd/migrate`) | three tables | `Migrate`, `Seed`, `Cleanup` | `Setup` |

An HTTP handler of the application calls a method of Manager.  The method makes
one storage call after another, each a single SQL statement, and sends at most
one e-mail per address.  There are no locks and no transactions ("no actual
transaction", `manager.go:94`), so requests interact through the tables only,
and interleave between any two calls.  Updates go through GORM's `Save`, which
writes every column of the row the caller holds: a request that read a row some
time ago overwrites whatever has become of it since.

What is hard about it: requests that interleave between a read and the save
that follows, checks that are stale when acted on, requests that end between
two calls (an error, a cancelled context, a dead process) with nothing undone,
e-mail that fails after the row it announces was stored, errors that are
discarded (`manager.go:183`, `manager.go:319`), and sequences of legal calls
that take status, token, expiry and account out of step.  `PROJECT.json` lists
each of these at its line.

What makes each component correct:

- *Manager*: every account belongs to one organization, which founded or
  invited it; an organization has one manager at most; a link opens the
  invitation it was mailed for, while that is pending; an acceptance is on
  behalf of an account; a deletion reaches every member and stays; every
  request ends.
- *PostgresStorage*: an insert takes a fresh key and respects the unique
  indexes, a save changes no other row, a query sees the rows it asks for.
- *InMemoryStorage*: its two invitation indexes agree, and a link opens the
  invitation it was made for, whatever was replaced or deleted since.
- *DeletionHandler*, *RoleChecker*: the row is marked and saved; only managers
  update; what one request marked, another one undoes only with a row it read
  before.
- *DeletionHandler of the README*: whatever addresses it masks and frees, no
  account becomes another's.
- *Construction*: a handler in use writes to the storage of a Manager that uses
  it, and never into a storage whose Managers keep their handlers to themselves.
- *SMTPEmailSender*: a Manager mails what its Config asks for if its sender serves
  no other Config; a mail that meets no constructor is of the latest configuration.
- *Migration*: nil means that the schema is complete and every organization
  there was is signed, nothing that was signed changes, and trying again gets there.
- *Seed*: it is whole or it has failed, and whatever broke off, nothing is left
  without its organization and a Cleanup makes room for the next Seed.

## The modules

`Rows` defines the rows of the models, with the sets of keys, and `Rules` what the
methods of Manager and the default handlers decide and write whatever the
storage: permissions, expiry, the rows inserted, the changes made to rows.

`PostgresStorage` holds the tables `organizations`, `users` and `invitations`:
functions from ids to rows, or to `Nil` where no row was inserted yet.  Its
operators are the effects of single storage calls.  Ids are handed out in order,
as a serial does.  Rows keep the columns that decide something.  A password is
`"random"` (generated by Manager) or `"chosen"`, as the only thing said about
it is whether its owner has set it; a `*time.Time` is `"null"` or `"set"`.
`DeletedAt` is no `gorm.DeletedAt`, so no query hides deleted rows, and the
unique index on `users.email` covers them.

`Manager` EXTENDS both with the methods.  `req[p]` is the request that goroutine
`p` serves: the method (`op`), the storage call or e-mail it makes next (`pc`),
and the ids and rows it holds.  A method is split as follows.

| Method | Starting action (checks, first reads) | Later actions |
|---|---|---|
| CreateOrganizationWithUser | `CreateOrganizationWithUser` (inserts the organization) | `CreateUserWithPassword` |
| InviteUser | `InviteUser` (inserts the invitation) | `SendMail` |
| InviteUsers | `InviteUsers` (checks the limit) | `InviteNext` or `InviteNextFails`, `SendMail`, per address |
| ResendInvitation | `ResendInvitation` | `SaveInvitation`, `SendMail` |
| AcceptInvitation | `AcceptInvitation` | `CreateUserWithPassword` |
| RejectInvitation | `RejectInvitation` | `SaveInvitation` |
| UpdatePassword | `UpdatePassword` | `SaveUser`, `ReadPending`, `SaveInvitation` |
| UpdateProfile | `UpdateProfile` | `SaveUser` |
| DeleteUser, of a user | `DeleteUser` | `SaveUser` |
| DeleteUser, of a manager; DeleteOrganization | `DeleteUser`, `DeleteOrganization` | `ReadMembers`, `SaveUser` per member, `SaveOrganization` |
| UpdateOrganization | `UpdateOrganizationName` | `SaveOrganization` |

A request whose checks fail changes nothing, so it is the absence of a step.
Repeated reads of the same user inside a method (`ValidateOrganizationAccess`,
`CheckPermission`, the second `GetUser` of UpdateOrganization) are part of the
starting action: they look only at the organization and the role, which no step
changes, as `TenancyStable` states and `RowsStay` proves.  `Abort` ends a
request at any storage call, whatever the reason; nothing of what it did is
undone.  `issuedTo` (which invitation a token was drawn for) and `lastMailed`
(the last e-mail of an invitation) are history variables.

`InMemoryStorage` holds the maps of the storage that `NewManager` creates.
`invitations` (by token) and `invitationsByID` hold addresses of a `heap`,
because the code stores pointers and hands them out: a caller changes the stored
row before it calls UpdateInvitation, and even if that call fails.  The index by
token keeps every token an invitation ever had; DeleteInvitation removes only
the newest.  Organizations and users are reached by id only, so nobody can
tell a pointer from a copy and their tables hold the rows.

`LocalManager` puts the methods of Manager over it.  Concurrent calls of the
unlocked maps are undefined in Go and no call of them fails half-way, so each
method is one action.  UpdateProfile, UpdateOrganization, DeleteUser and
DeleteOrganization are left out here: what they write (a name, `DeletedAt`) is
read by nobody, and `Manager` models them.  `WithdrawInvitation` is an application
that deletes an invitation in the storage it passed to `NewManagerWithStorage`.

`Overtaking` EXTENDS `Manager` with the record of which rows a request holds, to
be saved whole, that another request has written since they were read:
`staleUsers`, `staleOrganizations` and `staleInvitations`.  They are history; the
actions are those of `Manager`.

`Wiring` is about several Managers in one program: `config` and `storage` of each
Manager, the `handler` in each Config, the storage in each handler, and the users
as pointers that a handler may save into a storage they do not come from.
`Configure` is the application setting `Config.DeletionHandler`, to a new handler or
to one that another Config has; `Build` is the common part of the constructors,
which either write a handler into the caller's Config or repoint the one that is
there.  Configs, handlers and storages are shared in every way Go allows.

`Tenancy` is the abstract specification: organizations are founded, a manager is
appointed once at most, addresses are invited, and an address joins an
organization on an invitation only; with `EmailsAreUnique` it joins one, once.
Its state is the organizations, the pairs (organization, address) invited, and
the members; there are no requests, rows, tokens or statuses in it.  Both
`Manager` (unique addresses, founding in two steps) and `LocalManager` (founding
in one step, `FoundWithManager`, addresses not unique) implement it.

`MaskingHandler` EXTENDS `Manager` and replaces the handler by the one README.md
shows: `MaskUser` saves the row with the mask's address, `EraseOrganization` deletes
the row for good.  That brings in what the default handler never meets:
`SaveRefused` (the unique index refuses a row and the request ends, in the middle
of a deletion too) and `SaveOrInsertOrganization` (GORM's Save inserts the row that
is gone).  `erased` holds the organizations that are gone, `joinedAs` is a history
variable.  Its instances mask into one address, as the README does.

`Mailing` is `applyEmailTemplateConfig` and the fields of SMTPEmailSender.  A sender
has two paths, a template of a file, or the default, for the subject and the body,
and a From; `settings` is what each Config asks for, `made` the arguments of the
sender's constructor, `readable` the files that can be loaded now.  One `NewManager`
stands for both constructors, which treat the sender alike.  Nothing locks a sender,
so a constructor is a sequence of actions: two writes of paths (`SetSubjectPath`,
`SetBodyPath`), then for each template a read of the file by the path that is then
in the sender, whoever wrote it, and a write of what was loaded (`ReadSubject`,
`StoreSubject`, `ReadBody`, `StoreBody`), then `SetFrom`; `step` says where it is.  A mail
reads one field after another (`SendInvitation`, then `ReadOn`: the body, the From of
the header, the From of the envelope), so constructors come in between.  `mail` is
any one mail of any number, as mails change nothing; a new one replaces it whether
it was read to the end or gave up.  `steady` says that the mail has met no
constructor, `latest` what is in force at a sender, and `missed` which files were
missing at some time: history.

`Migration` is `Migrate`, one action per statement: the counts (`CheckColumn`), the
statements that add, fill, require and index the signature and drop its type,
and AutoMigrate table by table (`LookAtTable`, then `CreateTable`, `AddColumn` or
`AlterColumn`, then `CreateIndex`).  Of the schema it keeps what these
depend on (tables, three columns, NOT NULL, unique indexes), of the rows the
signatures, where `"null"` and `"empty"` are what older versions left.
`AfterError` says where a run goes on after an error: with the next statement,
silently, up to AutoMigrate, and nowhere from then on.  `Refused` is a statement
of AutoMigrate the database refuses, `Outage` one that fails for want of a
connection, `Crash` the end of the process.  `MigrationInit` ranges over no
database and every schema and row an earlier version, or a Migrate that broke off,
can have left: the three columns in every combination but a type without a signature.
`FoundUnsigned` is an application of an earlier version that is still running: one
that knows no signatures inserts NULL, one that knows them and sets none inserts
'', also after NOT NULL is in force.  `FoundSigned` is one that has migrated.
`since` and `settled` record up to which organization an unhurt run that returned
nil found them.  AutoMigrate is GORM's, so its actions are
external: what GORM does for these three models.

`Setup` EXTENDS `Migration` with the command's `-seed` and the set-up of the
integration tests: `Seed`, one action per insert, and `Cleanup`, one per delete,
after a Migrate that returned nil.  `job` is the one in progress, `RowTaken` the
unique index that refuses the next row, and `JobFails` a failure between any two
statements.  Rows are the organization they belong to; names, times and roles
decide nothing.

The MC modules name the groups of methods that the instances call, the symmetry and
a view.  The theorems are in `ManagerProofs`, `OvertakingProofs` (overtaken rows with
any number of requests; then what holds of one request at a time),
`MaskingHandlerProofs`, `LocalManagerProofs`, `WiringProofs`, `MailingProofs`,
`MigrationProofs` and `SetupProofs`.
Definitions commented "Mistake" are the errors the properties were tried
against; nothing uses them.

## The runs

| Run | Instance | What it shows |
|---|---|---|
| `joining` | 2 processes, 2 each of organizations, users, invitations, addresses and tokens; requests abort, e-mail fails | `TypeOK`, one manager per organization, everybody invited where they belong, acceptances on behalf of accounts, tokens kept apart; Manager implements `Tenancy` |
| `overtaking` | 2 processes, 1 organization and invitation, 2 users, addresses and tokens, every method but the bulk invitation; requests abort, the list of members fails | stale saves move nobody (`TenancyStable`), addresses stay unique, and the inductive invariant `TenancyInv` of the proofs holds; nothing but the save of an overtaken row undoes a deletion or a password (`OnlyOvertakenSavesUndo`), and nothing but that or a resend changes a link or takes a rejection back (`OnlyOvertakenSavesReopen`) |
| `sequential` | 1 process, all methods, 2 of everything, 3 tokens, clock 0..1, an expiry of 0, so a link lives for one instant | what an application that serves one request at a time can rely on: deletions are final and complete, accepted means password set, a mailed link works as long as it says |
| `ending` | 2 processes under fairness, 1 organization, 2 users, 1 invitation; addresses and e-mail fail | every request ends; a deletion reaches the organization; a bulk invitation tries every address |
| `memory` | InMemoryStorage, one request at a time, 2 of everything, 3 tokens and addresses of invitations, clock 0..1 | the indexes agree, links open what they were made for, mailed links live as long as they say, and LocalManager implements `Tenancy` without unique addresses |
| `wiring` | 3 Managers, Configs and storages, 2 handlers, 2 users per storage, shared in every way | in every order of construction, a handler in use saves to the storage of a Manager that uses it, and no deletion gets into a storage whose Managers share no handler with another storage's |
| `masking` | 2 processes, organizations and users, 1 invitation, 2 addresses and the mask; requests abort | with the README's handler, accounts keep organization, role and, but for the mask, address, whatever is freed, taken again and saved late |
| `mailing` | 2 Managers, 2 Configs, 1 sender, 2 files that come and go, 1 From address, 8 ways to set them | a Config alone with its sender gets what it asks for; a mail that meets no constructor is all of the configuration in force |
| `migration` | 2 migrators under fairness, 3 organizations of which 2 may be old, 1 outage or crash, every old schema | nil means complete, and every organization there was signed if no outage hit that run; signatures survive; every migrator gets there |
| `setup` | 1 migrator, Seed and Cleanup in any order, 4 organizations, 2 failures | no orphans, Seed is whole, a Seed after a Cleanup is not refused |
| `founded_with_manager`, `resurrection` | the smallest instance that has the behaviour | two disagreements with the documents: see below |

**Bounds.**  Two processes are enough for every race of a read with a save: a race
has one stale request and one that makes it stale, and nothing in the code looks
at more than one other request.  Two organizations and two addresses separate
"of another tenant" and "of somebody else" from "of the same"; two
invitations give an address two pending ones.  Two tokens are two invitations, or one
and its replacement; the third one of `sequential` and `memory` gives a replacement
beside another invitation, or two in a row.  `overtaking` has one
organization and one invitation, as a row is overtaken by a request that saves the
same row; `joining` has two of them.  `wiring` has three Managers and storages, so
that two Managers can share a storage while a third has another, and two handlers,
so that two of the three share one.
The ids are also what ends a run: no insert happens when they are used up, so
these instances have deadlocks that mean nothing (`CHECK_DEADLOCK FALSE`), and
clients may stop calling in any case.  `MaxNow` bounds the clock: with an expiry
of 0, the clock's two values are the last instant of an invitation and the first
instant after it.  `MaxBulkInviteCount` is 2, so that there is an address after
the first one.  `joining` and `overtaking` have no clock: expiry only disables
steps, and their properties hold of every subset of steps.  Processes and
addresses are symmetric in the runs without liveness properties; the view of
those two runs drops `lastMailed`, which no action reads.  `ending` has no
aborts, and its ids end earlier; an address that no id is left for is one that
fails.

`masking` has one invitation: it needs one account that is founded, one that joins,
and one address that is freed and taken again.  `mailing` has one sender, since
senders share nothing but the files; two Managers are one Config used twice, one
constructor in the middle of another's mail, or two constructors of different
Configs at once.  Its settings leave out one file for both templates, a From beside
a subject alone, and a body without a From.  `migration` has two migrators because a count or a look is
stale after one other statement.  Two of its organizations may be left by the old
version, each with a signature, a NULL or an '', and so differ or agree in that; the
third one is inserted during the migration or after it, with '' too.
`MaxFailures` bounds outages and crashes together: one lets any statement of any run
fail, beside the refusals and races that need none, and the schemas in which earlier
runs may have broken off are initial ones.  The theorems hold for any number.
`setup` has ids for two Seeds on an empty database, or one with foundings around it;
`NoOrphans`, `SeedIsWhole` and `SeedAfterCleanup` are proved without that bound.

**Fairness.**  `FairSpec` is weak fairness of `Continue(p)` for each process: a
goroutine that serves a request is scheduled again, and a storage call or an
e-mail returns, with an error if need be.  No fairness is assumed of starting a
request, of `Abort` or of the clock.  Weak fairness suffices because nothing a
process waits for is ever taken away by another one: there are no locks.
`FairMigrationSpec` is weak fairness of the statements of each migrator, which the
database executes or refuses, and of `Rerun`: whoever migrates tries again until
Migrate returns nil, as an application does that is restarted when it exits at
start-up.  Nothing is assumed of outages, crashes and foundings but that
they are finitely many (`MaxFailures`, the ids): a database that fails for ever is
never migrated.

**Disagreements.**

- A founding whose second insert fails leaves an organization without a manager,
  though README.md:17 promises one transaction.
- UpdateProfile (or a renaming) that read its row before a deletion brings the
  deleted user (or organization) back to life.

These are the runs `founded_with_manager` and `resurrection`.  Others were met while
modelling and are part of the models, without a run of their own:

- RejectInvitation rejects an accepted invitation; logics.md:82 looks only for
  pending ones.
- AcceptInvitation returns an error "if already accepted or rejected"
  (`manager.go:208`), but a rejection stored between that check and the insert
  (`manager.go:230`) is not noticed: the user joins on a rejected invitation.
- DeleteOrganization is to delete the related users (`manager.go:327`,
  logics.md:127), but one who joins after they were listed stays, and so do all of
  them if the list fails (`manager.go:319`).
- A user who has left, or was made to leave (main.md:59-61), is let in to the
  organization by the integration's `ValidateOrganizationAccess` as before: it finds
  the account by its address and does not look at DeletedAt (`integration.go:207`).
  The documents do not say that access ends, so it is recorded here and neither
  stated nor denied by a property.
- An invitation that was resent and then deleted from InMemoryStorage is still
  found, and can be accepted, by the link that was replaced; a test expects a
  deleted one to be gone (orgboss_test.go:1539).
- A second Manager built from the Config of a first one, for another storage,
  redirects the first one's deletions to its own, where they are saved over the user
  who has the same id; the comment speaks of unifying the two (`manager.go:38`).
  `StoragesStayApart` says which storages are safe from it.
- Managers that share a sender change each other's mails, the From included, and
  as nothing is locked, a mail that meets a constructor mixes configurations
  (`smtp.go:110-125` beside `:134-158`).  Constructors that overlap may leave a sender
  with a mixture, which stays until a Config that sets templates and From is applied
  alone.
- The README's handler gives everybody the address "deleted@example.com"
  (README.md:214), which is unique (models.go:36): the second user who leaves is
  refused, and so is the deletion of an organization with two members.
- UpdateOrganization of PostgresStorage returns ErrOrganizationNotFound for a row
  that is gone, but Save inserts the row instead.  postgres.go:65 calls the
  deletion of an organization logical; it is physical.
- AcceptInvitation's status is set by UpdatePassword for the first pending
  invitation of the address only (`manager.go:433`); further ones stay pending.
- Migrate may return nil although an organization has no signature: when the
  UPDATE failed, or when an application of an earlier version inserts one with ''
  after it.  One '' passes NOT NULL and the unique index, and the next Migrate gives
  it a signature.  Likewise signature_type may stay.

`resurrection` needs two requests: `sequential` checks `DeletionIsFinal` with one.  The
same kind of stale save also loses a new password, which is why
`AcceptedMeansPasswordSet` is checked in `sequential` only, and brings back a link or a
state of an invitation.  `overtaking` bounds the damage: only a row that another
request has written since it was read does any of this.  Two documents are out
of date beyond that: TEST.md:71 has AcceptInvitation set the status, where the
code leaves that to UpdatePassword and says so, and main.md:107 and :114 call
OrganizationID a foreign key, which neither the models nor the methods enforce.
The two storages differ where the documents do not say so: a replaced link is
dead in PostgresStorage and alive in InMemoryStorage, and an address is unique in
the first (`models.go:36`) and not in the second, which accepts one link twice.

## The proofs

The theorems hold for every value of the constants: any number of processes,
organizations, users, invitations, tokens and addresses, any expiry and bulk
limit, any set of faults, any Managers, Configs, handlers and storages.  The
assumptions are that ids, tokens and addresses of the heap are naturals
(`KeysAreNaturals`, `AddressesAreNaturals`, `UserIdsAreNaturals`), that `Nil` is
none of the values it marks the absence of (`NilIsNoRow`, `NilIsNoPointer`,
`NilIsNothing`), and that the configuration consists of integers
(`ConfigAssumption`, `LocalConfigAssumption`).  Of the other modules: ids of
organizations are positive naturals and outages finitely many (`OrgIdAssumption`,
`FailuresAssumption`), signatures are no missing values (`SignatureAssumption`),
enough random values are unused (`DrawAssumption`: 96 bits and more), Seed's two
signatures differ and are none of these (`SeedAssumption`), the mask is an address
(`MaskAssumption`), defaults and `Nil` are no settings (`DefaultIsNoSetting`,
`NilIsNoObject`), and what applications ask for are settings (`SettingsAssumption`).
TLC evaluates all of them in the passing runs.

Three theorems of `OvertakingProofs` have hypotheses of their own, about how the
library is used and what may fail.  `AcceptedHavePasswords`, `DeletionsAreComplete` and
`MailedLinksStayLive` assume `OneAtATime`, that all processes are one: nothing in the
code sees to that, an application has to, and `Disagreements` above says what two
requests lose.  `DeletionsAreComplete` also assumes that
the list of members does not fail ("list"), since DeleteOrganization then goes on with
none (manager.go:319), and `MailedLinksStayLive` that mails do not fail and
requests are not cut off ("mail", "abort"), since a resend has by then replaced
the stored token and nobody is told the new one.

`ManagerProofs`:

- `TypeCorrect`: `TypeOK`, which includes `HoldsItsArguments`: a request that is
  about to save, insert or mail something holds the ids and rows it needs.
- `TenancyInvariant`: the inductive invariant `TenancyInv`.  What the tables
  promise is not inductive, because a later `Save` writes a row read any number
  of steps ago.  The strengthening says what such a row still shares with the
  stored one: `RowsAgree` (a user row held has the organization, address and role
  of the stored row with its key; an invitation row the organization and address,
  and a token that was drawn for it), `Justified` (a user about to be inserted is
  the manager of a stored organization or was invited; an acceptance about to be
  saved has an account) and `FounderIsAlone` (an organization about to get its
  manager has none, and nobody else is about to give it one).
- The argument goes in three steps.  `StepKeepsRows` and `StepKeepsTokens`: under
  `TenancyInv` no step changes the identity of a stored row or the invitation of
  a token.  `Carry`: therefore whatever another request holds stays right, which
  leaves one request per action to look at (`HeldAfterMove`).  `NoNewUser`,
  `NoNewFounder`, `OldInvitation` and `NoNewInvitation` carry the promises of the
  tables over the steps that insert nothing; the inserting actions are proved
  one by one in `TenancyNext`.
- `OneManager`, `EverybodyBelongs`, `NobodyElseAccepts`, `LinksStayApart` and
  `EmailsStayUnique` follow; `RowsStay` proves the action property
  `TenancyStable` from the same invariant.
- `Implements`: every step of `Manager` is a step of `Tenancy` or leaves
  organizations, invitations and members as they are.  The inserts are the steps
  that show: an organization is `Found`, the insert of its manager is `Appoint`, an
  insert of an invitation `Invite`, and the insert of an acceptance `Join`, whose
  guards `Justified`, `FounderIsAlone` and the unique index give.  The other
  steps save rows that still agree with the stored ones.
- `EveryRequestAdvances`: why a request ends.  What it has left is `Left`: addresses
  to invite, calls to make, rows to save.  Each storage call and each e-mail decreases it in
  the lexicographic order `Nearer`, which is well-founded
  (`NearerIsWellFounded`), and nobody else's step changes it.  `FiniteInv` says that the
  rows held are finitely many, as the members listed are.  With the fairness above this
  is `RequestsReturn`; the last step from here to there is left to TLC.

`OvertakingProofs`, first part, any number of requests: `OvertakingInv` adds to
`TenancyInv` that a row held carries what the table has, unless it is recorded as
overtaken (`Carries`: the marks of a user, the deletion of an organization, the link and
the rejection of an invitation).  A request that moves reads rows as they are or
changes what it holds in its own way (`EveryRequestMovesOn`, with a lemma for each kind
of method); when another one moves, a row either is as before or becomes
overtaken.  `OnlyStaleRowsUndo` and `OnlyStaleRowsReopen` follow, as only three
actions write over rows (`OnlySavesWrite`).

Second part, one request at a time: what a request has read stays so
until it saves.  `SequentialInv` adds to `TenancyInv` that no row held undoes a
deletion or a password that is stored (`RowsAreCurrent`); that a deletion of an
organization holds, deleted, every member that is not stored as deleted yet
(`MembersLeave`); and that an acceptance about to be saved has an account whose new
password is stored (`AnswersInTime`).  `OnlyOneMoves` leaves one request to look at per
action.  `DeletionsAreComplete` and `AcceptedHavePasswords` follow.
`MailedLinksStayLive` has an invariant of its own,
`MailInv`: the invitation row held has the token and the expiry of the stored
one, unless it is the renewal, and the link mailed last is the stored one, or the
e-mail with the stored one is about to go out.

`MaskingHandlerProofs`: `TenancyInv` is lost with the README's handler, because a
row held may have another address than the stored one: it was read before the
masking, or is the masked one itself.  `MaskingInv` compares both with the row the user was
inserted with, `joinedAs`, which nothing changes: organization and role are
the same, the address is that one or the mask (`StaysWho`).  A saved address is one's own
or free, by the unique index, so addresses stay unique, which the invariant needs;
`AccountsKeepIdentity` is part of it.  What a move may add
to the rows a request holds (`HeldRows`, `EveryMove`) is proved once, in `ManagerProofs`,
for `Manager` and `MaskingHandler` alike.

`LocalManagerProofs`: the invariant `LinkInv` adds to `IndexesAgree` and
`LinkOpensItsInvitation` that pointers lead to allocated invitations and that the
counter is beyond every id (`PointersAreGood`).  One lemma for each operation of
the storage (`CreateKeepsLinks`, `ChangeKeepsLinks`, `RenewKeepsLinks`,
`DeleteKeepsLinks`) compares the maps entry by entry; the methods are then a line
or two each.  `MapsAgree`, `LinksStayTrue` and `TypesStay` follow.

- `AccountInv` adds that ids come from counters (`IdsAreCounted`), so an insert
  overwrites nobody, and `AcceptedHasAccount`.  `NobodyElseAccepts` follows, and so does
  `Implements`, method by method: the links only lead to invitations that were made, so
  whoever joins was invited, by a replaced or withdrawn link too, and the saves
  change nothing `Tenancy` sees.  `OneManager` is the promise of `Manager` that does not
  depend on unique addresses.
- `LinksAreCurrent` adds for `MailedLinksStayLive` that the link mailed last
  reaches the stored invitation, which expires no earlier than the mail says: a
  resend only moves the expiry on, as the clock does not go back and an expiry is the
  same number of days (`Row(a).expiresAt <= CalculateExpiry`).  A failing mail needs
  no exception here, because the maps keep the replaced token.

`WiringProofs`, for every way of sharing: `HandlersServeManagers` and `NoUserStrays`
are inductive together, with the types and `Equipped` (a Manager that was built has a
storage and a handler).  A constructor may repoint a handler others use, but to its
own Manager's storage; and a storage no other storage's Managers share a handler with
is saved to by its own Managers only, whose users it has.

`MailingProofs`, for any number of overlapping constructors and mails: `Progress` says
how much of what was asked for a constructor has put into its sender so far.
`OwnSender` has it of the constructors of a Config alone with its sender, which may
overlap but all write the same; `LatestInForce` has it of the one constructor at a sender
whose settings in force are known, and that the sender is as these say when nobody is
at it.  `AsMade` is a sender nobody has come to.  `ConfigIsFollowed` and
`LatestConfigIsInForce` read off that every field a mail reads is right at that time,
and stays as it was asked for until the mail is read to the end.

`MigrationProofs`: the inductive invariant `MigrationInv`.  That nil means a complete
schema rests on what a run has behind it: the tables AutoMigrate has gone
through are complete (`RunInv`, with `Before` and `Done`), and no statement of any
process takes a table, column or index back (`Grows`), so nobody else can
undo it.  `RowInv` says what the constraints that are there say of the rows.  The last
line of `RunInv` and `SettledInv` carry that no organization there was when an unhurt run
began has '' once it is past the filling, and that this stays so: a '' only comes in with
a new row.  NOT NULL refuses a NULL at the end.  `NilMeansComplete`, `NilMeansSigned` and
`MigrationTypes` follow, `SignaturesStay` is an action property.
`MigratingIsIdempotent` says what an application relies on that migrates at every
start: once the schema is complete nothing is changed any more but signature_type, which
may go, and the one '' that an application of an earlier version may have inserted since,
as the counts find every column and the UPDATE no other row.

`SetupProofs`: `SetupInv` extends it to the job in progress: the ids of the
organizations Seed has inserted so far are stored under its signatures, the
rows behind it are theirs, and the tables Cleanup has emptied are empty.  Organizations are
deleted only when nothing is left that belongs to them, hence `NobodyIsOrphaned`;
`SeedStoresAll` reads the rest off at the last row.  `FreshInv` adds that after a
Cleanup all of Seed's rows are free, and during the Seed that follows those still
to come: a migration draws signatures, and Seed's are none of those (`OnlyDrawn`).
Hence `CleanupMakesRoom`.  `SignaturesStayInSetup` carries `SignaturesStay` over.

Only model-checked is liveness: `RequestsReturn`, `BulkTriesEveryAddress`,
`DeletionReachesOrganization` and `MigrationCompletes`.  Weak fairness is about ENABLED,
which this prover does not treat, and the induction over a well-founded order needs a
theorem with an operator for a parameter.

## Not modelled

Names, creation and update times; signatures outside of `Migration` and `Setup`; the
validation of names and addresses (inputs are valid); bcrypt; the text of
e-mails and the SMTP exchange; hooks, which are all nil; GetInvitationURL, which
formats a link; `Connect`, which is I/O.  The collision of two random tokens or
signatures is left out: an unused one is drawn.  Of the storages, the calls nothing
in the repository but tests makes: DeleteUser, DeleteInvitation of PostgresStorage,
the lookups by signature and by e-mail, ListOrganizations.  The Authboss integration:
its `ValidateOrganizationAccess` reads one row, `SetupAuthboss` is a placeholder, its
User has getters and setters, and the login gate is a storer of the integration test.  Of GORM, everything but what AutoMigrate and Save do for
these models.  Data races of InMemoryStorage: two requests at once are undefined in
Go, and the models serve one.

## The plan

Done: Manager over PostgresStorage and over InMemoryStorage, construction, the
README's deletion handler, mails, migration and seed, and the theorems about them: each
safety and action property of the passing runs is stated by one, but `DeletionIsFinal`,
which is what `OnlyStaleRowsUndo` leaves when no request overtakes another.  What is left, in this order:

1. The rest of the Storage interface, for applications that call it themselves.
2. The path of an invitation link: redirect, password form, login with a pending
   invitation, and what `EnableAutoLoginAfterPasswordReset` promises.
