---------------------------- MODULE StartupProofs ----------------------------
(* Who comes to serve a database, proved for any number of processes, key      *)
(* files, components and migrations.                                           *)
EXTENDS Startup, TLAPS

-----------------------------------------------------------------------------
(* The inductive invariant.                                                    *)

\* Stages reached only after open_store accepted the file, and after setup
\* found it up to date.
Inside == {"migrating", "in_tx", "opened", "bound", "serving"}
UpToDate == {"opened", "bound", "serving"}

DbOK ==
    /\ db \in [mode : {None, "owner", "shared"}, version : Nat, schema : SUBSET Nat,
               identity : Identities \cup {None}, custody : SUBSET Identities]
    /\ db.mode = None => db.version = 0
    /\ db.identity # None => db.custody \subseteq {db.identity}

ProcOK ==
    proc \in [Processes -> [stage : Stages, command : {"serve", "invite", None},
                            path : Paths \cup {None}, component : Components \cup {None},
                            key : Keys \cup {None}, seen : Nat \cup {None}]]

KeyFileOK ==
    keyFile \in [Paths -> [content : Keys \cup {"partial", None}, mode : {"owner", "shared", None}]]

\* A process in a migration holds the write lock, and what it read holds.
InTransaction ==
    \A p \in Processes : proc[p].stage = "in_tx" => lock = p /\ proc[p].seen = db.version

\* What a process that came this far has checked still holds of the database.
Checked ==
    \A p \in Processes :
        /\ proc[p].stage \in Inside => db.mode = "owner"
        /\ proc[p].stage \in UpToDate => db.version = Migrations
        /\ proc[p].stage \in {"bound", "serving"} => db.identity = Identity(p)

\* What a server has loaded.
Loaded ==
    \A p \in Processes :
        /\ proc[p].stage \in {"bound", "serving"} => proc[p].command = "serve"
        /\ proc[p].stage = "config" => proc[p].component \in Components
        /\ proc[p].stage \in {"opening"} \cup Inside /\ proc[p].command = "serve" =>
              proc[p].component \in Components /\ proc[p].key \in Keys

\* Each keygen writes a file of its own, still incomplete.
WritersApart ==
    \A p \in Processes : proc[p].stage = "writing" =>
        /\ proc[p].path \in Paths
        /\ keyFile[proc[p].path].content = "partial"
        /\ \A q \in Processes : proc[q].stage = "writing" /\ proc[q].path = proc[p].path => q = p

StartupInv ==
    /\ DbOK /\ ProcOK /\ KeyFileOK
    /\ db.schema = 1..db.version
    /\ InTransaction
    /\ Checked
    /\ Loaded
    /\ WritersApart

LEMMA InitStartupInv == Init => StartupInv
<1> SUFFICES ASSUME Init PROVE StartupInv
  OBVIOUS
<1>1. \A p \in Processes : proc[p].stage = "off"
  BY DEF Init, Off
<1>2. ProcOK /\ KeyFileOK
  BY DEF Init, ProcOK, KeyFileOK, Off, Stages
<1>3. DbOK /\ db.schema = 1..db.version
  <2> DEFINE File(mode, version, identity, custody) ==
          [mode |-> mode, version |-> version, schema |-> 1..version,
           identity |-> identity, custody |-> custody]
  <2>1. ASSUME NEW mode \in {None, "owner", "shared"}, NEW version \in Nat,
               NEW identity \in Identities \cup {None}, NEW custody \in SUBSET Identities,
               mode = None => version = 0,
               identity # None => custody \subseteq {identity},
               db = File(mode, version, identity, custody)
        PROVE  DbOK /\ db.schema = 1..db.version
    <3>1. 1..version \in SUBSET Nat
      OBVIOUS
    <3> QED
      BY <2>1, <3>1 DEF DbOK
  <2> HIDE DEF File
  <2>2. CASE db = File(None, 0, None, {})
    BY <2>1, <2>2
  <2>3. CASE \E mode \in {"owner", "shared"}, c \in SUBSET Identities : db = File(mode, 1, None, c)
    BY <2>1, <2>3, NoneAssumption
  <2>4. CASE \E i \in Identities : db = File("owner", Migrations, i, {i})
    BY <2>1, <2>4, NoneAssumption, StartupAssumption
  <2>5. CASE db = File("owner", Migrations + 1, None, {})
    BY <2>1, <2>5, NoneAssumption, StartupAssumption
  <2> QED
    BY <2>2, <2>3, <2>4, <2>5 DEF Init, Inherited, File
<1> QED
  BY <1>1, <1>2, <1>3 DEF StartupInv, InTransaction, Checked, Loaded, WritersApart, Inside, UpToDate

\* A process that ends takes nothing with it but its lock.
LEMMA EndStep ==
    ASSUME StartupInv, NEW p \in Processes, End(p), UNCHANGED <<keyFile, db>>
    PROVE  StartupInv'
<1>1. /\ proc'[p].stage = "off"
      /\ \A q \in Processes : q # p => proc'[q] = proc[q] /\ (lock = q => lock' = q)
  BY DEF StartupInv, ProcOK, End, Off
<1>2. ProcOK'
  BY DEF StartupInv, ProcOK, End, Off, Stages
<1>3. InTransaction' /\ Checked' /\ Loaded' /\ WritersApart'
  BY <1>1 DEF StartupInv, InTransaction, Checked, Loaded, WritersApart, Inside, UpToDate, Identity
<1> QED
  BY <1>2, <1>3 DEF StartupInv, DbOK, KeyFileOK

\* A process that moves on, and changes nothing shared but the lock.
LEMMA MoveStep ==
    ASSUME StartupInv, NEW p \in Processes, NEW row, UNCHANGED <<keyFile, db>>,
           proc' = [proc EXCEPT ![p] = row],
           ProcOK',
           \A q \in Processes : q # p /\ lock = q => lock' = q,
           row.stage = "in_tx" => lock' = p /\ row.seen = db.version,
           row.stage \in Inside => db.mode = "owner",
           row.stage \in UpToDate => db.version = Migrations,
           row.stage \in {"bound", "serving"} =>
               row.command = "serve" /\ db.identity = [component |-> row.component, key |-> row.key],
           row.stage = "config" => row.component \in Components,
           row.stage \in {"opening"} \cup Inside /\ row.command = "serve" =>
               row.component \in Components /\ row.key \in Keys,
           row.stage # "writing"
    PROVE  StartupInv'
<1>1. proc'[p] = row /\ \A q \in Processes : q # p => proc'[q] = proc[q]
  BY DEF StartupInv, ProcOK
<1>2. InTransaction' /\ Checked' /\ Loaded' /\ WritersApart'
  BY <1>1 DEF StartupInv, InTransaction, Checked, Loaded, WritersApart, Inside, UpToDate, Identity
<1> QED
  BY <1>2 DEF StartupInv, DbOK, KeyFileOK

\* A server that read its configuration and key has an identity.
LEMMA ServerIdentity ==
    ASSUME StartupInv, NEW p \in Processes, proc[p].stage \in {"opening"} \cup Inside,
           proc[p].command = "serve"
    PROVE  Identity(p) \in Identities /\ Identity(p) # None
<1>1. Identity(p) \in Identities
  BY DEF StartupInv, Loaded, Identity, Identities
<1> QED
  BY <1>1, NoneAssumption

LEMMA KeygenStep ==
    ASSUME StartupInv, NEW p \in Processes, NEW path \in Paths, Keygen(p, path)
    PROVE  StartupInv'
<1>1. /\ proc' = [proc EXCEPT ![p] = [Off EXCEPT !.stage = "writing", !.path = path]]
      /\ keyFile' = [keyFile EXCEPT ![path] = [content |-> "partial", mode |-> "owner"]]
      /\ keyFile[path].content = None /\ UNCHANGED <<db, lock>>
  BY DEF Keygen, CreateNew
<1>2. ProcOK' /\ KeyFileOK'
  BY <1>1 DEF StartupInv, ProcOK, KeyFileOK, Off, Stages
<1>3. /\ proc'[p].stage = "writing" /\ proc'[p].path = path
      /\ \A q \in Processes : q # p => proc'[q] = proc[q]
  BY <1>1 DEF StartupInv, ProcOK, Off
<1>4. InTransaction' /\ Checked' /\ Loaded'
  BY <1>1, <1>3 DEF StartupInv, InTransaction, Checked, Loaded, Inside, UpToDate, Identity
<1>5. WritersApart'
  BY <1>1, <1>3, NoneAssumption DEF StartupInv, WritersApart, KeyFileOK
<1> QED
  BY <1>1, <1>2, <1>4, <1>5 DEF StartupInv, DbOK

LEMMA WriteKeysStep ==
    ASSUME StartupInv, NEW p \in Processes, NEW key \in Keys, WriteKeys(p, key)
    PROVE  StartupInv'
<1>1. /\ proc' = [proc EXCEPT ![p] = Off] /\ proc[p].stage = "writing"
      /\ keyFile' = [keyFile EXCEPT ![proc[p].path].content = key]
      /\ UNCHANGED db /\ \A q \in Processes : q # p /\ lock = q => lock' = q
  BY DEF WriteKeys, End
<1>2. ProcOK' /\ KeyFileOK'
  BY <1>1 DEF StartupInv, ProcOK, KeyFileOK, WritersApart, Off, Stages
<1>3. /\ proc'[p].stage = "off"
      /\ \A q \in Processes : q # p => proc'[q] = proc[q]
  BY <1>1 DEF StartupInv, ProcOK, Off
<1>4. InTransaction' /\ Checked' /\ Loaded'
  BY <1>1, <1>3 DEF StartupInv, InTransaction, Checked, Loaded, Inside, UpToDate, Identity
<1>5. WritersApart'
  BY <1>1, <1>3 DEF StartupInv, WritersApart, KeyFileOK
<1> QED
  BY <1>1, <1>2, <1>4, <1>5 DEF StartupInv, DbOK

LEMMA CommandStep ==
    ASSUME StartupInv, NEW p \in Processes, Command(p)
    PROVE  StartupInv'
<1>1. ASSUME NEW path \in Paths, NEW c \in Components, Serve(p, path, c) PROVE StartupInv'
  <2> DEFINE row == [Off EXCEPT !.stage = "config", !.command = "serve", !.path = path,
                                !.component = c]
  <2>1. proc' = [proc EXCEPT ![p] = row] /\ UNCHANGED <<keyFile, db, lock>>
    BY <1>1 DEF Serve
  <2>2. ProcOK' /\ row.stage = "config" /\ row.component = c
    BY <2>1 DEF StartupInv, ProcOK, Off, Stages
  <2> HIDE DEF row
  <2> QED
    BY <2>1, <2>2, MoveStep DEF Inside, UpToDate
<1>2. ASSUME Invite(p) PROVE StartupInv'
  <2> DEFINE row == [Off EXCEPT !.stage = "opening", !.command = "invite"]
  <2>1. proc' = [proc EXCEPT ![p] = row] /\ UNCHANGED <<keyFile, db, lock>>
    BY <1>2 DEF Invite
  <2>2. ProcOK' /\ row.stage = "opening" /\ row.command = "invite"
    BY <2>1 DEF StartupInv, ProcOK, Off, Stages
  <2> HIDE DEF row
  <2> QED
    BY <2>1, <2>2, MoveStep DEF Inside, UpToDate
<1> QED
  BY <1>1, <1>2, KeygenStep DEF Command

LEMMA LoadKeysStep ==
    ASSUME StartupInv, NEW p \in Processes, LoadKeys(p)
    PROVE  StartupInv'
<1> DEFINE file == keyFile[proc[p].path]
<1>1. proc[p].stage = "config" /\ UNCHANGED <<keyFile, db>>
  BY DEF LoadKeys
<1>2. CASE ~(CheckPrivate(file.mode) /\ ParseKeys(file.content))
  BY <1>1, <1>2, EndStep DEF LoadKeys
<1>3. CASE CheckPrivate(file.mode) /\ ParseKeys(file.content)
  <2> DEFINE row == [proc[p] EXCEPT !.stage = "opening", !.key = file.content]
  <2>1. proc' = [proc EXCEPT ![p] = row] /\ UNCHANGED lock /\ file.content \in Keys
    BY <1>3 DEF LoadKeys, ParseKeys, StartupInv, ProcOK
  <2>2. /\ ProcOK' /\ row.stage = "opening" /\ row.key \in Keys
        /\ row.component \in Components
    BY <1>1, <2>1 DEF StartupInv, ProcOK, Loaded, Stages
  <2> HIDE DEF row
  <2> QED
    BY <1>1, <2>1, <2>2, MoveStep DEF Inside, UpToDate
<1> QED
  BY <1>2, <1>3

LEMMA OpenStoreStep ==
    ASSUME StartupInv, NEW p \in Processes, OpenStore(p)
    PROVE  StartupInv'
<1>1. /\ proc[p].stage = "opening" /\ keyFile' = keyFile
      /\ db' = [db EXCEPT !.mode = DatabaseMode(db.mode)]
  BY DEF OpenStore
<1>2. /\ db'.version = db.version /\ db'.schema = db.schema /\ db'.identity = db.identity
      /\ db'.custody = db.custody
      /\ db.mode = "owner" => db'.mode = "owner"
      /\ db.mode = "shared" => db' = db
  BY <1>1, NoneAssumption DEF StartupInv, DbOK, DatabaseMode
<1>3. CASE ~CheckPrivate(db'.mode)
  <2>1. db' = db
    BY <1>1, <1>3, NoneAssumption DEF StartupInv, DbOK, DatabaseMode, CheckPrivate
  <2> QED
    BY <1>1, <1>3, <2>1, EndStep DEF OpenStore
<1>4. CASE CheckPrivate(db'.mode)
  <2>1. proc' = [proc EXCEPT ![p].stage = "migrating"] /\ lock' = lock /\ db'.mode = "owner"
    BY <1>4 DEF OpenStore, To, CheckPrivate
  <2>2. /\ proc'[p] = [proc[p] EXCEPT !.stage = "migrating"]
        /\ \A q \in Processes : q # p => proc'[q] = proc[q]
    BY <2>1 DEF StartupInv, ProcOK
  <2>3. ProcOK'
    BY <2>1 DEF StartupInv, ProcOK, Stages
  <2>4. DbOK'
    BY <1>1, <2>1, NoneAssumption DEF StartupInv, DbOK
  <2>5. /\ proc'[p].stage = "migrating" /\ proc'[p].command = proc[p].command
        /\ proc'[p].key = proc[p].key /\ proc'[p].component = proc[p].component
    BY <2>2 DEF StartupInv, ProcOK
  <2>6. InTransaction' /\ Checked' /\ Loaded' /\ WritersApart'
    BY <1>1, <1>2, <2>1, <2>2, <2>5
       DEF StartupInv, InTransaction, Checked, Loaded, WritersApart, Inside, UpToDate, Identity
  <2> QED
    BY <1>1, <1>2, <2>3, <2>4, <2>6 DEF StartupInv, KeyFileOK
<1> QED
  BY <1>3, <1>4

LEMMA BeginImmediateStep ==
    ASSUME StartupInv, NEW p \in Processes, BeginImmediate(p)
    PROVE  StartupInv'
<1> DEFINE row == [proc[p] EXCEPT !.stage = "in_tx", !.seen = db.version]
<1>1. /\ proc[p].stage = "migrating" /\ lock = None /\ lock' = p
      /\ proc' = [proc EXCEPT ![p] = row] /\ UNCHANGED <<keyFile, db>>
  BY DEF BeginImmediate, WriteLockFree, StartupInv, ProcOK
<1>2. /\ ProcOK' /\ row.stage = "in_tx" /\ row.seen = db.version
      /\ row.command = proc[p].command /\ row.key = proc[p].key
      /\ row.component = proc[p].component
  BY <1>1 DEF StartupInv, ProcOK, DbOK, Stages
<1>3. /\ db.mode = "owner"
      /\ row.command = "serve" => row.component \in Components /\ row.key \in Keys
  BY <1>1, <1>2 DEF StartupInv, Checked, Loaded, Inside
<1> HIDE DEF row
<1> QED
  BY <1>1, <1>2, <1>3, NoneAssumption, MoveStep DEF Inside, UpToDate

LEMMA MigrateStep ==
    ASSUME StartupInv, NEW p \in Processes, Migrate(p)
    PROVE  StartupInv'
<1> DEFINE step == proc[p].seen + 1
<1>1. /\ proc[p].stage = "in_tx" /\ proc[p].seen < Migrations
      /\ db' = [db EXCEPT !.schema = db.schema \cup {step}, !.version = step]
      /\ proc' = [proc EXCEPT ![p].stage = "migrating"]
      /\ lock' = None /\ keyFile' = keyFile
  BY DEF Migrate, To
<1>2. lock = p /\ proc[p].seen = db.version /\ db.version \in Nat /\ db.mode = "owner"
  BY <1>1 DEF StartupInv, InTransaction, DbOK, Checked, Inside
<1>3. /\ proc'[p].stage = "migrating" /\ proc'[p].command = proc[p].command
      /\ proc'[p].key = proc[p].key /\ proc'[p].component = proc[p].component
      /\ \A q \in Processes : q # p => proc'[q] = proc[q]
  BY <1>1 DEF StartupInv, ProcOK
<1>4. /\ db'.version = db.version + 1 /\ db'.schema = db.schema \cup {db.version + 1}
      /\ db'.mode = db.mode /\ db'.identity = db.identity /\ db'.custody = db.custody
  BY <1>1, <1>2 DEF StartupInv, DbOK
<1>5. db'.schema = 1..db'.version
  BY <1>2, <1>4 DEF StartupInv
<1>6. DbOK'
  <2>1. db'.schema \in SUBSET Nat /\ db'.version \in Nat
    BY <1>2, <1>4 DEF StartupInv, DbOK
  <2>2. db' \in [mode : {None, "owner", "shared"}, version : Nat, schema : SUBSET Nat,
                 identity : Identities \cup {None}, custody : SUBSET Identities]
    BY <1>1, <1>2, <2>1 DEF StartupInv, DbOK
  <2> QED
    BY <1>2, <1>4, <2>2, NoneAssumption DEF StartupInv, DbOK
<1>7. ProcOK'
  BY <1>1 DEF StartupInv, ProcOK, Stages
<1>8. InTransaction'
  BY <1>2, <1>3 DEF StartupInv, InTransaction
<1>9. Checked'
  <2>1. \A q \in Processes : proc[q].stage \notin UpToDate
    BY <1>1, <1>2, StartupAssumption DEF StartupInv, Checked
  <2> QED
    BY <1>2, <1>3, <1>4, <2>1 DEF StartupInv, Checked, Inside, UpToDate
<1>10. Loaded' /\ WritersApart'
  BY <1>1, <1>3 DEF StartupInv, Loaded, WritersApart, Inside
<1> QED
  BY <1>1, <1>5, <1>6, <1>7, <1>8, <1>9, <1>10 DEF StartupInv, KeyFileOK

LEMMA LeaveMigrationsStep ==
    ASSUME StartupInv, NEW p \in Processes, LeaveMigrations(p)
    PROVE  StartupInv'
<1>1. /\ proc[p].stage = "in_tx" /\ UNCHANGED <<keyFile, db>>
      /\ lock = p /\ proc[p].seen = db.version /\ db.mode = "owner"
  BY DEF LeaveMigrations, StartupInv, InTransaction, Checked, Inside
<1>2. CASE VersionVerdict(proc[p].seen) = "refused"
  BY <1>1, <1>2, EndStep DEF LeaveMigrations
<1>3. CASE VersionVerdict(proc[p].seen) # "refused"
  <2> DEFINE row == [proc[p] EXCEPT !.stage = "opened"]
  <2>1. proc' = [proc EXCEPT ![p] = row] /\ lock' = None /\ db.version = Migrations
    BY <1>1, <1>3 DEF LeaveMigrations, VersionVerdict, To, StartupInv, ProcOK
  <2>2. /\ ProcOK' /\ row.stage = "opened"
        /\ row.command = "serve" => row.component \in Components /\ row.key \in Keys
    BY <1>1, <2>1 DEF StartupInv, ProcOK, Loaded, Inside, Stages
  <2> HIDE DEF row
  <2> QED
    BY <1>1, <2>1, <2>2, NoneAssumption, MoveStep DEF Inside, UpToDate
<1> QED
  BY <1>2, <1>3

LEMMA BindStep ==
    ASSUME StartupInv, NEW p \in Processes, Bind(p)
    PROVE  StartupInv'
<1>1. /\ proc[p].stage = "opened" /\ proc[p].command = "serve" /\ lock = None
      /\ keyFile' = keyFile
  BY DEF Bind
<1>2. /\ Identity(p) \in Identities /\ Identity(p) # None
      /\ db.mode = "owner" /\ db.version = Migrations
  BY <1>1, ServerIdentity DEF StartupInv, Checked, Inside, UpToDate
<1>3. CASE UnboundCustody(db)
  BY <1>1, <1>3, EndStep DEF Bind
<1>4. CASE ~UnboundCustody(db)
  <2>1. /\ db' = [db EXCEPT !.identity = BoundIdentity(db.identity, Identity(p))]
        /\ IF db'.identity = Identity(p) THEN To(p, "bound") /\ UNCHANGED lock ELSE End(p)
    BY <1>4 DEF Bind
  <2>2. /\ db'.identity = BoundIdentity(db.identity, Identity(p))
        /\ db'.mode = db.mode /\ db'.version = db.version /\ db'.schema = db.schema
        /\ db'.custody = db.custody
    BY <2>1 DEF StartupInv, DbOK
  <2>3. CASE db'.identity # Identity(p)
    <3>1. db' = db
      BY <2>1, <2>2, <2>3 DEF BoundIdentity, StartupInv, DbOK
    <3> QED
      BY <1>1, <2>1, <2>3, <3>1, EndStep
  <2>4. CASE db'.identity = Identity(p)
    <3>1. proc' = [proc EXCEPT ![p].stage = "bound"] /\ lock' = lock
      BY <2>1, <2>4 DEF To
    <3>2. /\ proc'[p].stage = "bound" /\ proc'[p].command = proc[p].command
          /\ proc'[p].key = proc[p].key /\ proc'[p].component = proc[p].component
          /\ \A q \in Processes : q # p => proc'[q] = proc[q]
      BY <3>1 DEF StartupInv, ProcOK
    <3>3. ProcOK'
      BY <3>1 DEF StartupInv, ProcOK, Stages
    <3>4. db.identity # None => db'.identity = db.identity
      BY <2>2 DEF BoundIdentity
    <3>5. DbOK'
      <4>1. db'.custody \subseteq {db'.identity}
        BY <1>4, <2>2, <3>4 DEF StartupInv, DbOK, UnboundCustody
      <4> QED
        BY <1>2, <2>1, <2>2, <2>4, <4>1 DEF StartupInv, DbOK
    <3>6. \A q \in Processes : proc[q].stage \in {"bound", "serving"} => db.identity # None
      BY ServerIdentity DEF StartupInv, Checked, Loaded, Inside
    <3>7. InTransaction' /\ Checked' /\ Loaded' /\ WritersApart'
      BY <1>1, <1>2, <2>2, <2>4, <3>1, <3>2, <3>4, <3>6
         DEF StartupInv, InTransaction, Checked, Loaded, WritersApart, Inside, UpToDate, Identity
    <3> QED
      BY <1>1, <2>2, <3>3, <3>5, <3>7 DEF StartupInv, KeyFileOK
  <2> QED
    BY <2>3, <2>4
<1> QED
  BY <1>3, <1>4

LEMMA ListenStep ==
    ASSUME StartupInv, NEW p \in Processes, Listen(p)
    PROVE  StartupInv'
<1> DEFINE row == [proc[p] EXCEPT !.stage = "serving"]
<1>1. /\ proc[p].stage = "bound" /\ UNCHANGED <<keyFile, db, lock>>
      /\ proc' = [proc EXCEPT ![p] = row]
  BY DEF Listen, To, StartupInv, ProcOK
<1>2. /\ ProcOK' /\ row.stage = "serving" /\ row.command = "serve"
      /\ row.component \in Components /\ row.key \in Keys
      /\ db.identity = [component |-> row.component, key |-> row.key]
      /\ db.mode = "owner" /\ db.version = Migrations
  BY <1>1 DEF StartupInv, ProcOK, Checked, Loaded, Inside, UpToDate, Identity, Stages
<1> HIDE DEF row
<1> QED
  BY <1>1, <1>2, MoveStep DEF Inside, UpToDate

LEMMA TakeCustodyStep ==
    ASSUME StartupInv, NEW p \in Processes, TakeCustody(p)
    PROVE  StartupInv' /\ db'.identity = db.identity /\ db.version = Migrations
             /\ db.mode = "owner" /\ db.identity # None
<1>1. /\ proc[p].stage = "serving" /\ UNCHANGED <<keyFile, lock, proc>>
      /\ db' = [db EXCEPT !.custody = db.custody \cup {Identity(p)}]
  BY DEF TakeCustody
<1>2. /\ db.identity = Identity(p) /\ Identity(p) \in Identities /\ Identity(p) # None
      /\ db.mode = "owner" /\ db.version = Migrations
  BY <1>1, ServerIdentity DEF StartupInv, Checked, Loaded, Inside, UpToDate
<1>3. /\ db'.identity = db.identity /\ db'.mode = db.mode /\ db'.version = db.version
      /\ db'.schema = db.schema /\ db'.custody = db.custody \cup {Identity(p)}
  BY <1>1 DEF StartupInv, DbOK
<1>4. DbOK'
  BY <1>1, <1>2, <1>3 DEF StartupInv, DbOK
<1>5. InTransaction' /\ Checked' /\ Loaded' /\ WritersApart'
  BY <1>1, <1>3 DEF StartupInv, InTransaction, Checked, Loaded, WritersApart, Identity
<1> QED
  BY <1>1, <1>2, <1>3, <1>4, <1>5 DEF StartupInv, ProcOK, KeyFileOK

LEMMA NextStartupInv == StartupInv /\ [Next]_vars => StartupInv'
<1> SUFFICES ASSUME StartupInv, [Next]_vars PROVE StartupInv'
  OBVIOUS
<1>1. CASE UNCHANGED vars
  BY <1>1 DEF vars, StartupInv, DbOK, ProcOK, KeyFileOK, InTransaction, Checked, Loaded,
              WritersApart, Identity
<1>2. ASSUME NEW p \in Processes, Busy(p) \/ PrintInvitation(p) \/ Die(p) PROVE StartupInv'
  BY <1>2, EndStep DEF Busy, PrintInvitation, Die
<1> QED
  BY <1>1, <1>2, WriteKeysStep, LoadKeysStep, OpenStoreStep, BeginImmediateStep, MigrateStep,
     LeaveMigrationsStep, BindStep, ListenStep, CommandStep, TakeCustodyStep DEF Next, Progress

LEMMA StartupInvariant == Spec => []StartupInv
BY InitStartupInv, NextStartupInv, PTL DEF Spec

\* The schema is always the first so many migrations, and a process about to
\* apply one knows the next (setup).
THEOREM MigrationsApplyOnce == Spec => []MigratedOnce
<1>1. StartupInv => MigratedOnce
  BY DEF StartupInv, MigratedOnce, InTransaction
<1> QED
  BY <1>1, StartupInvariant, PTL

\* Whoever serves is the one identity recorded, with a completely written key,
\* and everything held is sealed to it (bind, open_store).
THEOREM OwnCustodyIsServed == Spec => []ServesOwnCustody
<1>1. StartupInv => ServesOwnCustody
  <2> SUFFICES ASSUME StartupInv, NEW p \in Processes, proc[p].stage \in {"bound", "serving"}
               PROVE  /\ db.version = Migrations /\ db.identity = Identity(p)
                      /\ proc[p].key \in Keys /\ db.custody \subseteq {Identity(p)}
    BY DEF ServesOwnCustody
  <2>1. proc[p].command = "serve" /\ db.identity = Identity(p) /\ db.version = Migrations
    BY DEF StartupInv, Checked, Loaded, UpToDate
  <2>2. Identity(p) # None
    BY <2>1, ServerIdentity DEF Inside
  <2> QED
    BY <2>1, <2>2 DEF StartupInv, DbOK, Loaded, Inside
<1> QED
  BY <1>1, StartupInvariant, PTL

\* What a step may do to the database.
LEMMA DatabaseMoves ==
    ASSUME StartupInv, [Next]_vars
    PROVE  DatabaseStep
<1>1. ASSUME UNCHANGED db PROVE DatabaseStep
  BY <1>1 DEF DatabaseStep
<1>2. ASSUME NEW p \in Processes, OpenStore(p) PROVE DatabaseStep
  <2>1. /\ db'.identity = db.identity /\ (db.mode # None => db' = db)
        /\ db.mode = None => db.version = 0
    BY <1>2, NoneAssumption DEF OpenStore, DatabaseMode, StartupInv, DbOK
  <2> QED
    BY <2>1, StartupAssumption, NoneAssumption DEF DatabaseStep
<1>3. ASSUME NEW p \in Processes, Migrate(p) PROVE DatabaseStep
  <2>1. /\ db'.identity = db.identity /\ db.mode = "owner"
        /\ db.version < Migrations /\ db.version \in Nat
    BY <1>3 DEF Migrate, StartupInv, DbOK, InTransaction, Checked, Inside
  <2> QED
    BY <2>1, StartupAssumption DEF DatabaseStep
<1>4. ASSUME NEW p \in Processes, Bind(p) PROVE DatabaseStep
  <2>1. /\ db.mode = "owner" /\ db.version = Migrations
    BY <1>4 DEF Bind, StartupInv, Checked, Inside, UpToDate
  <2>2. db.identity # None => db'.identity = db.identity
    BY <1>4 DEF Bind, BoundIdentity, StartupInv, DbOK
  <2>3. UnboundCustody(db) => db' = db
    BY <1>4 DEF Bind
  <2> QED
    BY <2>1, <2>2, <2>3, StartupAssumption DEF DatabaseStep, UnboundCustody
<1>5. ASSUME NEW p \in Processes, TakeCustody(p) PROVE DatabaseStep
  BY <1>5, TakeCustodyStep, StartupAssumption DEF DatabaseStep
<1> QED
  BY <1>1, <1>2, <1>3, <1>4, <1>5
     DEF Next, Progress, Command, Keygen, WriteKeys, Serve, Invite, LoadKeys, BeginImmediate,
         LeaveMigrations, Busy, Listen, PrintInvitation, Die, vars

\* No start, in any order and however interrupted, changes a recorded identity,
\* gives one to custody that had none, or touches a database newer than this
\* build or open to others (setup, bind, open_store).
THEOREM DatabaseIsLeftAlone == Spec => DatabaseLeftAlone
<1>1. StartupInv /\ [Next]_vars => [DatabaseStep]_vars
  BY DatabaseMoves
<1> QED
  BY <1>1, StartupInvariant, PTL DEF Spec, DatabaseLeftAlone

\* A complete key file is never overwritten, whatever keygens race and wherever
\* they are killed (keygen).
THEOREM KeysAreNeverOverwritten == Spec => KeysNeverOverwritten
<1>1. StartupInv /\ [Next]_vars => [KeyFileStep]_vars
  <2> SUFFICES ASSUME StartupInv, Next PROVE KeyFileStep
    OBVIOUS
  <2>1. ASSUME UNCHANGED keyFile PROVE KeyFileStep
    BY <2>1 DEF KeyFileStep
  <2>2. ASSUME NEW p \in Processes, NEW path \in Paths, Keygen(p, path) PROVE KeyFileStep
    BY <2>2, NoneAssumption DEF Keygen, CreateNew, KeyFileStep, StartupInv, KeyFileOK
  <2>3. ASSUME NEW p \in Processes, NEW key \in Keys, WriteKeys(p, key) PROVE KeyFileStep
    BY <2>3, NoneAssumption DEF WriteKeys, KeyFileStep, StartupInv, KeyFileOK, WritersApart
  <2> QED
    BY <2>1, <2>2, <2>3
       DEF Next, Progress, Command, Serve, Invite, LoadKeys, OpenStore, BeginImmediate, Migrate,
           LeaveMigrations, Busy, Bind, Listen, PrintInvitation, TakeCustody, Die
<1> QED
  BY <1>1, StartupInvariant, PTL DEF Spec, KeysNeverOverwritten
=============================================================================
