------------------------------ MODULE Startup ------------------------------
(* How a process comes to serve a database: the commands of src/src/main.rs    *)
(* (keygen, invite, serve) and Store::open, setup and bind of                  *)
(* src/src/store.rs.  Several processes share one database file and a few key  *)
(* files; each can be killed, or fail, between any two steps.                  *)
(*                                                                             *)
(* A process runs one command at a time, by the stages of Stages below.  A     *)
(* migration is one transaction: begun when the write lock is taken, with the  *)
(* version read inside it, and applied at its commit.                          *)
EXTENDS Naturals, FiniteSets

CONSTANTS
    Processes,
    Paths,        \* key files
    Keys,         \* key pairs keygen may draw
    Components,   \* component ids a server may be configured with
    Migrations,   \* MIGRATIONS.len(): the schema this build knows
    None

ASSUME StartupAssumption == Migrations \in Nat \ {0}

\* What bind records: the component, operator key and enrollment key.
Identities == [component : Components, key : Keys]

\* No file and no row is not a key, an identity or a mode; and a key file cut
\* short holds no key.
ASSUME NoneAssumption ==
    /\ None \notin Processes
    /\ None \notin Keys
    /\ None \notin Identities
    /\ None \notin {"owner", "shared", "partial"}
    /\ "partial" \notin Keys

Stages ==
    {"off",        \* not running
     "writing",    \* keygen: file created, not yet written
     "config",     \* serve: configuration read, key file next
     "opening",    \* open_store: database file next
     "migrating",  \* setup: between two transactions
     "in_tx",      \* setup: holding the write lock
     "opened",     \* Store::open returned
     "bound",      \* serve: identity checked
     "serving"}

VARIABLES
    keyFile,   \* path -> [content, mode]: a key, "partial", or None if no file
    db,        \* [mode, version, schema, identity, custody]; mode None: no file
    lock,      \* the process in a write transaction, or None
    proc       \* process -> [stage, command, path, component, key, seen]

vars == <<keyFile, db, lock, proc>>

Off == [stage |-> "off", command |-> None, path |-> None, component |-> None,
        key |-> None, seen |-> None]

Identity(p) == [component |-> proc[p].component, key |-> proc[p].key]

\* A database as an earlier run of this or another build left it.  Up to schema
\* 1 nothing recorded whose custody it holds; custody is known by the identity it
\* was sealed to.
Inherited ==
    LET File(mode, version, identity, custody) ==
            [mode |-> mode, version |-> version, schema |-> 1..version,
             identity |-> identity, custody |-> custody]
    IN  {File(None, 0, None, {})}
        \cup {File(mode, 1, None, c) : mode \in {"owner", "shared"}, c \in SUBSET Identities}
        \cup {File("owner", Migrations, i, {i}) : i \in Identities}
        \cup {File("owner", Migrations + 1, None, {})}

Init ==
    /\ keyFile \in [Paths -> [content : Keys \cup {"partial"}, mode : {"owner", "shared"}]
                             \cup {[content |-> None, mode |-> None]}]
    /\ db \in Inherited
    /\ lock = None
    /\ proc = [p \in Processes |-> Off]

\* A stage reached, the rest of the process's state as it was.
To(p, stage) == proc' = [proc EXCEPT ![p].stage = stage]

\* The process ends.  An open transaction is rolled back, its lock released.
End(p) ==
    /\ proc' = [proc EXCEPT ![p] = Off]
    /\ lock' = IF lock = p THEN None ELSE lock

(* -------------------------------- keygen -------------------------------- *)

MutCreateNew(path) == TRUE

\* OpenOptions::create_new: refuses to overwrite.
CreateNew(path) == keyFile[path].content = None

\* `keygen`: create the file, owner-only.
Keygen(p, path) ==
    /\ proc[p].stage = "off"
    /\ CreateNew(path)
    /\ keyFile' = [keyFile EXCEPT ![path] = [content |-> "partial", mode |-> "owner"]]
    /\ proc' = [proc EXCEPT ![p] = [Off EXCEPT !.stage = "writing", !.path = path]]
    /\ UNCHANGED <<db, lock>>

\* `keygen`: write and sync a freshly drawn key pair, print its public half.
WriteKeys(p, key) ==
    /\ proc[p].stage = "writing"
    /\ \A path \in Paths : keyFile[path].content # key
    /\ keyFile' = [keyFile EXCEPT ![proc[p].path].content = key]
    /\ End(p)
    /\ UNCHANGED db

(* --------------------------- serve and invite ---------------------------- *)

\* `serve`: Config::from_env.
Serve(p, path, component) ==
    /\ proc[p].stage = "off"
    /\ proc' = [proc EXCEPT ![p] = [Off EXCEPT !.stage = "config", !.command = "serve",
                                               !.path = path, !.component = component]]
    /\ UNCHANGED <<keyFile, db, lock>>

\* `invite`: straight to the database, with no key.
Invite(p) ==
    /\ proc[p].stage = "off"
    /\ proc' = [proc EXCEPT ![p] = [Off EXCEPT !.stage = "opening", !.command = "invite"]]
    /\ UNCHANGED <<keyFile, db, lock>>

\* `check_private`
CheckPrivate(mode) == mode = "owner"

\* `parse_keys`: exactly what keygen writes; a file cut short is refused.
ParseKeys(content) == content \in Keys

\* `Config::trustee`, and the random number generator tried once.
LoadKeys(p) ==
    LET file == keyFile[proc[p].path] IN
    /\ proc[p].stage = "config"
    /\ IF CheckPrivate(file.mode) /\ ParseKeys(file.content)
       THEN /\ proc' = [proc EXCEPT ![p].stage = "opening", ![p].key = file.content]
            /\ UNCHANGED lock
       ELSE End(p)
    /\ UNCHANGED <<keyFile, db>>

\* create(true).truncate(false).mode(0o600): an existing file keeps its mode.
DatabaseMode(mode) == IF mode = None THEN "owner" ELSE mode

\* `open_store`, up to Store::open.
OpenStore(p) ==
    /\ proc[p].stage = "opening"
    /\ db' = [db EXCEPT !.mode = DatabaseMode(@)]
    /\ IF CheckPrivate(db'.mode) THEN To(p, "migrating") /\ UNCHANGED lock ELSE End(p)
    /\ UNCHANGED keyFile

(* ------------------------------ migrations ------------------------------- *)

MutWriteLockFree(p) == TRUE

\* TransactionBehavior::Immediate: one writer at a time.
WriteLockFree(p) == lock = None

\* `setup`: begin a transaction and read the version inside it.
BeginImmediate(p) ==
    /\ proc[p].stage = "migrating"
    /\ WriteLockFree(p)
    /\ lock' = p
    /\ proc' = [proc EXCEPT ![p].stage = "in_tx", ![p].seen = db.version]
    /\ UNCHANGED <<keyFile, db>>

\* `setup`: apply the step after the version read, raise the version, commit.
\* A step's CREATE TABLEs fail on a schema that has them already: Die.
Migrate(p) ==
    LET step == proc[p].seen + 1 IN
    /\ proc[p].stage = "in_tx"
    /\ proc[p].seen < Migrations
    /\ step \notin db.schema
    /\ db' = [db EXCEPT !.schema = @ \cup {step}, !.version = step]
    /\ To(p, "migrating")
    /\ lock' = None
    /\ UNCHANGED keyFile

MutVersionVerdict(version) == IF version = Migrations THEN "opened" ELSE "migrating"

\* Up to date: done.  Newer than this build: "Never guess at a layout this build
\* does not know."
VersionVerdict(version) == IF version = Migrations THEN "opened" ELSE "refused"

\* `setup`: no step to apply; the transaction is dropped.
LeaveMigrations(p) ==
    /\ proc[p].stage = "in_tx"
    /\ proc[p].seen >= Migrations
    /\ IF VersionVerdict(proc[p].seen) = "refused"
       THEN End(p)
       ELSE To(p, VersionVerdict(proc[p].seen)) /\ lock' = None
    /\ UNCHANGED <<keyFile, db>>

\* busy_timeout: a writer that waits five seconds for the lock gives up, and
\* setup, bind or the invitation fails.
Busy(p) ==
    /\ proc[p].stage \in {"migrating", "opened"}
    /\ lock # None
    /\ End(p)
    /\ UNCHANGED <<keyFile, db>>

(* --------------------------------- bind ---------------------------------- *)

MutUnboundCustody(file) == FALSE

\* Enrollments without an identity: "cannot show whose it is".
UnboundCustody(file) == file.identity = None /\ file.custody # {}

MutBoundIdentity(stored, identity) == identity

\* INSERT OR IGNORE INTO identity: the first identity stays.
BoundIdentity(stored, identity) == IF stored = None THEN identity ELSE stored

\* `bind`, and serve's refusal of false.  One transaction.
Bind(p) ==
    /\ proc[p].stage = "opened" /\ proc[p].command = "serve"
    /\ lock = None
    /\ IF UnboundCustody(db)
       THEN End(p) /\ UNCHANGED db
       ELSE /\ db' = [db EXCEPT !.identity = BoundIdentity(@, Identity(p))]
            /\ IF db'.identity = Identity(p) THEN To(p, "bound") /\ UNCHANGED lock ELSE End(p)
    /\ UNCHANGED keyFile

\* `serve`: the manifest built once, then the listener.
Listen(p) ==
    /\ proc[p].stage = "bound"
    /\ To(p, "serving")
    /\ UNCHANGED <<keyFile, db, lock>>

\* `invite`: create_invitation commits, the code is printed.  No identity is
\* asked for and none is recorded.
PrintInvitation(p) ==
    /\ proc[p].stage = "opened" /\ proc[p].command = "invite"
    /\ lock = None
    /\ End(p)
    /\ UNCHANGED <<keyFile, db>>

\* A serving process takes custody sealed to its own keys (Store's Enroll).
TakeCustody(p) ==
    /\ proc[p].stage = "serving"
    /\ lock = None
    /\ db' = [db EXCEPT !.custody = @ \cup {Identity(p)}]
    /\ UNCHANGED <<keyFile, lock, proc>>

\* Killed, stopped by a signal, or failed: a disk, clock or random number
\* error, an address in use, a refused configuration.
Die(p) ==
    /\ proc[p].stage # "off"
    /\ End(p)
    /\ UNCHANGED <<keyFile, db>>

-----------------------------------------------------------------------------

\* What a started process does next of its own accord.
Progress(p) ==
    \/ \E key \in Keys : WriteKeys(p, key)
    \/ LoadKeys(p)
    \/ OpenStore(p)
    \/ BeginImmediate(p) \/ Migrate(p) \/ LeaveMigrations(p) \/ Busy(p)
    \/ Bind(p) \/ Listen(p)
    \/ PrintInvitation(p)

Command(p) ==
    \/ \E path \in Paths : Keygen(p, path)
    \/ \E path \in Paths, c \in Components : Serve(p, path, c)
    \/ Invite(p)

Next == \E p \in Processes : Progress(p) \/ Command(p) \/ TakeCustody(p) \/ Die(p)

\* A running process is scheduled; nobody has to start one.
Spec == Init /\ [][Next]_vars /\ \A p \in Processes : WF_vars(Progress(p))

-----------------------------------------------------------------------------

\* Two processes opening a database, new or old, never both apply the same
\* migration: the step a process is about to apply is the next one, at the
\* moment it applies it ("two processes opening a new database never both apply
\* the same step").
MigratedOnce ==
    /\ db.schema = 1..db.version
    /\ \A p \in Processes : proc[p].stage = "in_tx" => proc[p].seen = db.version

\* Whoever serves is the one identity recorded, its key was completely written,
\* and every enrollment in the database is sealed to that identity: custody of
\* an unknown or another owner is never served (bind; "a wrong key file or
\* component ID never serves custody sealed to, or bound to, another").
ServesOwnCustody ==
    \A p \in Processes : proc[p].stage \in {"bound", "serving"} =>
        /\ db.version = Migrations
        /\ db.identity = Identity(p)
        /\ proc[p].key \in Keys
        /\ db.custody \subseteq {Identity(p)}

DatabaseStep ==
    /\ db.identity # None => db'.identity = db.identity
    /\ db.identity = None /\ db.custody # {} => db'.identity = None
    /\ db.version > Migrations => db' = db
    /\ db.mode = "shared" => db' = db

\* No start, in any order and however interrupted, changes a recorded identity,
\* gives one to custody that had none, or touches a database that is newer than
\* this build or that others can reach (setup, bind, open_store).
DatabaseLeftAlone == [][DatabaseStep]_vars

KeyFileStep ==
    \A path \in Paths : keyFile[path].content \in Keys => keyFile'[path] = keyFile[path]

\* A complete key file is never overwritten, whatever keygens race: the custody
\* sealed to it would be lost (keygen: "Refuses to overwrite").
KeysNeverOverwritten == [][KeyFileStep]_vars

\* A started command ends or serves: the migration loop terminates on every
\* database, and a process that waits for the write lock gives up rather than
\* hang (setup's loop, busy_timeout).
StartupSettles ==
    \A p \in Processes : proc[p].stage # "off" ~> proc[p].stage \in {"off", "serving"}
=============================================================================
