# onym-recovery-trustee: TLA+ specification and proofs

A recovery trustee holds one share of a holder's recovery key, sealed to the
trustee, and hands it to a recovering device (the candidate) only under the
policy the holder enrolled: the right factor, a cooldown during which the
holder can veto, a bounded number of attempts, fixed expiries. This project
models the trustee's decisions and its durable state, the processes that open
its database, and the reference client that enrolls and recovers at n trustees.
It model-checks small instances with TLC, and proves with TLAPS, for every
instance, the safety properties of the store, the start-up, the client, the
readers of durations and shares, that the store implements what it promises, and
that it is the trustee the client's models assume.

Contents: [the system](#the-system), [the model](#the-model),
[the runs](#the-runs), [the proofs](#the-proofs),
[what is left out](#what-is-left-out), [plan](#plan).

## The system

| Part | Source | State it keeps | Operations |
|---|---|---|---|
| State decisions | `src/state.rs` | none | `admit`, `release`, `usable`: whether a session is admitted, whether a contribution may leave |
| Stateless trustee | `src/lib.rs` | its keys and limits | `accept_enrollment`, `check_artifact`, `verify_session`, `check_factor`, `policy`, `release`, `manifest` |
| Store | `src/store.rs` | SQLite: `clock`, `invitations`, `challenges`, `enrollments`, `sessions`, `nonces`, `outcomes`, `identity` | eight operations of `Store::handle`, `create_invitation`, `open`, `bind` |
| Wire contract | `src/wire.rs` | none | parsing, canonical bytes, signatures, receipts, the contract names of states |
| SLIP-0039, cryptography | `src/slip39.rs`, `src/crypto.rs` | none | share validation; Ed25519, HPKE |
| Service and commands | `src/main.rs` | the store behind one mutex | `POST /v1/trustee`, manifest, health; `serve`, `keygen`, `invite` |
| Client: holder | `tools/client.py` | `holder.json`, `factors.json`, the sealed map | enroll at n trustees or close all, poll, veto, close |
| Client: candidate | `tools/client.py` | the saved session and contributions | begin at each trustee, poll, collect t shares, restore |

**How they interact.** The holder obtains an invitation from the operator,
redeems it for a challenge and enrolls; from then on it polls, vetoes sessions
and ends custody with requests signed by its authorization key. A candidate
begins a recovery with a self-signed session and factor evidence, then polls
with the session's proof key. Every request is one call of `Store::handle`:
`App::handle` takes the global lock, reads the clock under it, and the handler
runs in one `IMMEDIATE` transaction that also checks and advances the clock
floor `high_water`. `invite` is a second process on the same database. Receipts
are rebuilt from committed rows; nothing but a contribution is stored signed.

**What is hard here.**

- *Order.* Veto against release, cancellation after expiry, revocation against a
  resend, several challenges of one invitation, closure after revocation: what
  matters is which transaction commits first, and that the first one wins for good.
- *Retries and lost replies.* Every change may be retried at any age, after the
  very conditions that allowed it are gone; the answer must be the first one
  although the rows it is rebuilt from have changed since.
- *Replays.* A signed read is single use, but the nonces that make it so are purged.
- *Clocks.* The machine's clock may jump either way; the floor refuses one that
  is behind. The candidate's own timestamps are not to be trusted.
- *Limits.* Attempts with refused ones among them, open challenges.
- *Several processes.* Two servers, or a server and `invite`, on one database:
  migrations at startup, and receipts read back after another's commit.
- *n trustees and one client.* The client may die anywhere; calls go unanswered
  and arrive later; some trustees refuse, fail to verify or never answer.

**What makes each part correct.** For the enrollment side: an invitation makes
at most one enrollment, an id has one sequence, custody is kept until ended and
gone afterwards, tombstones are final. For the recovery side: a contribution is
earned (factor, binding, cooldown, expiries), a veto in time is final, nothing
is sent once stopped, every send carries the same bytes, attempts are bounded.
For the protocol around them: retries are recognised for ever and answered
identically, a read is answered once, what a poll reports as over stays so.
For startup: a migration is applied once and only the identity custody is
sealed to ever serves it. For the client: no custody without saved keys, a
session and its shares survive any kill, a trustee is dropped only for cause,
and the recovery ends, with the artifact if t trustees answer.
`PROJECT.json` lists the hazards line by line with the property for each.

## The model

| Module | Models | Correspondence |
|---|---|---|
| `State` | `state.rs` and the state names of `wire.rs` | one operator per function; a decision is `"ok"`, an action to take or the error code, in the order of the early returns |
| `Trustee` | `lib.rs` | one operator per method; requests are records, and what parsing and cryptography would find wrong with one is its set `faults` |
| `Store` | `store.rs` | one variable per table (keyed as in the schema), one action per operation; `read_recovery` and `enroll` are split by outcome |
| `StoreSafety` | | the properties of the store |
| `Replay` | | the store with a count of answered reads (history only) |
| `ClockWatch` | | the store with a memory of clock readings, the refused requests' included (history only) |
| `Custody` | | the abstract promise: take, end, open, stop, hand over |
| `StoreCustody` | | the refinement mapping from `Store` to `Custody` |
| `StoreTrustee` | | what `Recover` and `EnrollClient` keep of a trustee, read off the tables of `Store` |
| `Connections` | `store.rs` and `App::handle` | the store with replies: commit and the read-back that signs the receipt are two steps, of several processes (`StoreSafety` is extended, so every handler is the same action) |
| `Startup` | `main.rs` commands, `setup`, `bind` | one action per step of `keygen`, `invite` and `serve`; a process record holds the stage, the write lock is a variable |
| `Margins` | `new_session` | the times of a session as arithmetic, to be judged by `Admit` |
| `Recover` | `recover_command`, `recover`, `Candidate` | one action per call, save, sleep and file operation of the client; a trustee is what a candidate sees of one, deciding by `Admit` and `Release` |
| `EnrollClient` | `enroll_to`, `Enrollment.run`, `Holder.close` | one action per file and call; a trustee is the custody of this enrollment |
| `Manifest` | `Trustee::manifest`, the client's check of it | `validUntil` as served, and two clocks |
| `Slip39` | `slip39.rs` | operators over the 33 word numbers; checksums are sets of bits; the machine makes errors in a share |
| `Duration` | `wire::duration`, the client's `duration` | both readers as operators over a sequence of characters; the machine grows the text |
| `StoreProofs`, `AdmissionProofs` | | theorems about `Store` |
| `ObserverProofs` | | theorems about `Replay`, `Connections`, the refinement `StoreCustody` and the client's view `StoreTrustee` |
| `StartupProofs` | | theorems about `Startup` |
| `ClientProofs` | | theorems about `EnrollClient`, `Manifest` and `Margins` |
| `RecoverProofs` | | theorems about `Recover` |
| `DurationProofs` | | the theorem about `Duration` |
| `Slip39Proofs` | | the theorem about `Slip39` |
| `MC...` | | instances for TLC |

**Atomicity.** A handler is one action: it runs under the mutex in one
`IMMEDIATE` transaction, with nothing awaited. A handler that answers an error,
or answers a retry from what is recorded, drops its transaction, so it is no
step at all; its answer is the operator `EnrollAnswer`, `BeginAnswer`,
`CancelAnswer` or `EndAnswer`. The one refusal that commits (a known enrollment
id under another key spends the invitation) is the action `EnrollKnownId`. In
`Store` the read-back after commit that signs the receipt is part of the step;
`Connections` makes it a step of its own, with anything between.

**Crashes.** All state is in the database and a transaction is all or nothing,
so a crash and restart leaves the tables as they are: a stuttering step. A reply
lost to a crash is followed by a retry, which the properties on retries cover.
`Startup`, `Recover` and `EnrollClient` have a `Die` between any two steps, after
which memory is lost and files, the database and what trustees admitted remain.

**The network** in `Recover` and `EnrollClient`: a call is answered; or it is
not, and its request was lost, was served with the reply lost, or is served at
any later time, again and again (`LateBegin`, `Late`). Requests are not forged.

**The clock** is any value in `Times` at every request, forward or back; the
guard `Transaction` is the code's own check. `MaxTime` bounds it for TLC and is
an arbitrary natural number in the proofs. Integers are unbounded: times are
`i64` seconds that `wire::timestamp` limits to four-digit years and
`wire::duration` to six digits a unit, and attempt
counts are bounded by `AttemptsSpent`, so no arithmetic here comes near its width.

**Requests** are taken from constant sets, in any order and any number of
times: holders, candidates, retries, replays and strangers need no processes of
their own. A digest of a request is modelled by the request itself, a signature
by the key's name, an envelope by the offer it seals, ids by model values.
`sent` is the contribution in the last committed reply.

## The runs

Runs of machines that may use up their requests, their clock or their errors
set `CHECK_DEADLOCK FALSE`; `startup` checks it, for a command can always be given.

**Fairness.** The store's runs assume none: a trustee only answers, and nothing
obliges anyone to ask. Liveness is claimed of the parts that run of their own
accord, under these assumptions and no others:

- *A running process is scheduled*: `WF(Progress(p))` in `Startup`, `WF(Advance)`
  in `Recover` and `EnrollClient`. The commands are sequential programs without
  locks of their own; a call to a trustee has a timeout, SQLite's lock wait has
  `busy_timeout`, so each step is finite. Weak fairness is enough because only
  the process itself, or its end, disables its next step. `Die` and new commands
  have no fairness: nobody has to kill or start anything.
- *Time passes*: `WF(Tick)` in `Recover`, where the client sleeps and expires.
- *A holder who wants custody ended keeps closing*: `WF(CloseLater(s, TRUE))` in
  `EnrollClient`, which stands for rerunning `close` ("retry later") until each
  trustee has answered once. It is used by `CustodyCanBeEnded` only.

No trustee is ever assumed to answer, except the `Steady` ones of `ThresholdSuffices`.

**`enroll`** (`MCEnroll`): two invitations, three challenges, clock 0..3; offers
for two enrollment ids: an enrollment, its rotation, another key's claim to the
same id, two offers that checks refuse; revocation and closure with several
request ids, one signed by the wrong key. Two challenges on one invitation and
a third on the other are the smallest instance in which an invitation, an id or
a limit of two can be used twice. Codes and challenges are only compared for
equality and no property names one, so permuting them is a sound symmetry; the
one action property is symmetric too.

**`recovery`** (`MCRecovery`): one enrollment of two attempts, cooldown 2,
lifetime 4, and three session requests: one backdated as far as the skew lets
it, one that runs to the enrollment's own expiry, one without the factor. Two
polls of the first session and one of the second, a veto during the cooldown, a
veto at expiry, two cancellations by the candidate (one reusing the veto's
request id), a veto of the refused session, a revocation. Clock 0..5 reaches
past every expiry. It also checks `ImplementsCustody`: every behaviour, mapped
by `StoreCustody`, is one of `Custody`.

**`replay`** (`MCReplay`): skew 1 and clock 0..8, so a nonce is spent, outlived
and purged well inside the run; five signed reads, some sharing a request id
across scopes and within one.

**`clock_set_back`** (`MCClockWatch`), an expected violation. `state.rs` says
the clock floor is the highest time the store has *seen*; `transaction` records
the time in the request's own transaction, so only *committed* requests move
it. TLC's counterexample: a poll at time 3 is answered `enrollment_expired` and
drops its transaction, the clock is set back to 2, and the next poll releases
the contribution. The same holds for the comment on the `clock` table and for
the limits section of the repository's README ("A clock set back stops every
change until it catches up"). The proved properties are stated against the
recorded floor and hold regardless.

**`connections`** (`MCConnections`): two connections, an enrollment, another
key's claim to its id, a session with a poll, a veto and a cancellation, and
closure; clock 0..3. Two requests in flight are enough for one to commit between
the other's commit and read-back, and a third party's commit is the same thing.

**`startup`** (`MCStartup`): two processes, a key file, two keys and two
component ids, hence four identities; a database that is new, of schema 1 with
any custody, current and bound to any identity, or newer than the build. Three
processes add no pairing of a lock holder with a waiter that two have not.

**`margins_slack`**, an expected violation: `new_session` refuses with "the
enrollment ends before a session could outlast its cooldown" whenever
lifetime - cooldown is even and at most twice the margin cap (PT1M under PT2M,
say), because the margin then takes all the slack and the test `expires <= now +
cooldown + margin` is an equality. Trustees accept such policies, so an
enrollment can be made that this client never recovers.

**`recover`** (`MCRecover`): two of two trustees, two sessions, kills and vetoes,
every call possibly unanswered, late or repeated, clock 0..6. Two sessions are
what a checkpoint wrongly given up, or a late begin of an old session, needs.
**`recover_live`**: two steady trustees of three; the third may not answer, not
verify, or refuse the factor; the holder may end custody anywhere. Calls take up
to one unit, and the client is otherwise prompt against the skew: the loop ends,
with the artifact unless custody was ended. The client is not killed here, which
is what `recover_resume` is about.

**`recover_resume`**, an expected violation. The repository's README promises
that a recovery "completes with any t reachable trustees and resumes after a
restart". A session's `requestedAt` is fixed when it is saved; `admit` wants it
within the skew of the trustee's clock. TLC's counterexample: the client saves a
session, is killed before it has begun at t trustees, and is rerun more than the
skew later: each begin is refused `invalid_request`, the trustees are dropped
and the recovery is given up though all t are willing. (The session file stays
until it expires, so until then every rerun ends the same way.)

**`enroll_client`** (`MCEnrollClient`): three slots, so that one fails between one
already enrolled and one not yet.

**`arithmetic`** (`MCArithmetic`): four machines that never meet, one at a time.
*Manifests*: a period of 4, five periods, a client's clock up to three periods
off either way. *Session times* (`MCMargins`): every cooldown < lifetime <= 12,
enrollment end <= 14 and clock difference within a skew of 4, a minute being 3
units, so that the margin is cut by the cap, by half the slack, and by the
enrollment's end. *Shares* (`Slip39`): the real tables and widths; five reference
shares of `tests/fixtures/slip39` (two in the profile, with the largest index
and threshold; several groups; extendable; padding wrong), each with up to two
errors: a word misread as 16 or as 528 (the two flip the extendable flag), two
neighbours exchanged, a word dropped or repeated. *Durations*: every text of up
to 8 characters over the ASCII digits 0 and 1, a digit of another script whose
value is 1, the unit letters, `P` and `T`, with components of at most two digits
instead of six. (Texts without a leading `P` or with a second one are tried but not
continued.) The third digit is where the two readers differ: `\d` in the client's
expression (`tools/client.py:152`) is not limited to ASCII and `int` reads what it
matches, while `wire::duration` asks for `is_ascii_digit` (`src/wire.rs:312`). So the
client takes `P`, U+0663, `D` for three days where its own comment names the subset
the binding allows, and the trustee refuses that text. `ReadAlike` says that this
is the only difference, and that it is never one of two numbers: what a trustee
accepts, the client reads as the same seconds.

Every property has a mutant in `PROJECT.json`: a plausible slip in the code
(the definitions named `Mut...`) under which TLC refutes it in the same run.

| Property | In one line |
|---|---|
| `TypeOK` | rows have their types, foreign keys resolve |
| `InvitationSpentOnce` | no two enrollments trace to one invitation |
| `OpenChallengesBounded` | open challenges per invitation never exceed the limit |
| `OneSequencePerId` | an enrollment id has one sequence |
| `CustodyUntilEnded` | custody is the offer until the tombstone, nothing after |
| `TombstonesFinal` | no row or binding is lost, closed stays closed |
| `AttemptsSpent` | sessions admitted = attempts used <= limit |
| `ReleaseEarned` | a contribution has its factor, binding, cooldown on the trustee's clock, and both expiries ahead |
| `VetoInTime` | a cancellation recorded in the cooldown excludes a contribution |
| `CancelledForGood` | after a recorded cancellation no accepted clock finds the session live |
| `NothingSentOnceStopped` | no reply carries a contribution after cancellation, tombstone or expiry |
| `SameContribution` | one contribution per session, and replies carry it unchanged |
| `ReceiptsNeverChange` | a retry's receipt is the first receipt |
| `RetriesRecognised` | a retry is recognised at every later time |
| `NoticesNeverRevert` | what a poll reports as over stays over, for the same reason |
| `ReadsSingleUse`, `AnsweredReadsGuarded` | a signed read is answered once, and why |
| `ImplementsCustody` | the store implements `Custody` |
| `ReceiptsAsCommitted` | a receipt read back later, elsewhere or again says what was committed |
| `MigratedOnce` | no migration is applied twice, or to another version than it is for |
| `ServesOwnCustody` | who serves is the recorded identity, and all custody is sealed to it |
| `DatabaseLeftAlone` | no start changes an identity, adopts unknown custody, or touches a newer or shared database |
| `KeysNeverOverwritten` | a complete key file is final |
| `StartupSettles` | a started command ends or serves |
| `EveryTrusteeAdmits` | a session the client makes meets admit's bounds at every clock within the margin |
| `CheckpointKept` | a saved session and its contributions survive until it expires or is done |
| `RetriesSpendNothing` | an attempt per session, a cooldown that never restarts |
| `SharesWereReleased` | what counts as a share was released for that session |
| `DroppedForCause` | no trustee that would serve the session is dropped |
| `RecoveryEnds`, `ThresholdSuffices` | the loop ends; with t steady trustees, with the artifact |
| `KeysBeforeContact` | no invitation is redeemed, no enroll sent and no custody taken before both key files are on disk |
| `NoSilentCustody` | reported closed is closed for good; each slot is reported |
| `EnrolledEverywhere` | success means custody everywhere and all files |
| `CustodyCanBeEnded` | what enrollment left behind can be closed |
| `FetchedIsCurrent`, `ChangesOncePerPeriod` | a manifest is current when served to a clock up to two periods ahead, and changes once a period |
| `SharesReadRight` | shares are read as the reference tool reads them, damaged ones refused |
| `ReadAlike` | the client reads a duration as the trustee reads its ASCII spelling; the trustee takes no other |

## The proofs

Each module of proofs extends the module it is about. An invariant a run checks
is seldom inductive, so each component has a strengthening that is; initial
states satisfy it, a lemma per action shows the action keeps it, and the theorems
follow from it.

Assumptions on the store: limits, lifetimes and `MaxTime` are naturals
(`LimitsAssumption`, `StoreAssumption`); requests carry integers and known
faults (`RequestsAssumption`, what `serde` and `wire::timestamp` establish before
a request is looked at); `None` is neither an offer nor a contribution
(`NoneAssumption`). Nothing is assumed of the sets' sizes, of the limits' order
or of the requests' contents beyond that. On start-up: there is a migration
(`StartupAssumption`), and `None` is no process, key or identity. On the client:
there is a slot; the period is positive; margin cap and skew are naturals;
trustees are finitely many, the threshold is at most their number, and the
cooldown ends within the lifetime, as every accepted policy's does. Of durations,
the limit on digits is a natural number (`DurationAssumption`). Of shares, a
reference share is a sequence of word numbers and a misread word is one
(`ShareAssumption`). `Slip39` states three facts about the code's own tables
besides (`PowersOfTwo`, `GeneratorIndependent`, `CustomizationsApart`); they have
no parameter, so TLC decides each of them for good in the run `arithmetic`.

- `StoreProofs` proves `TypeCorrect` and `OneSequence`. `TypeOK` is inductive
  only with `OneSequencePerId`: without it, "the current enrollment" of an id
  (`CHOOSE` of the highest sequence) could not be identified in the next state.
  Their conjunction is `TypeInv`.
  From it follow `CustodyKept`, `ReleaseIsEarned`, `VetoIsInTime` and
  `CancellationIsFinal`, by one inductive invariant, `RecoveryInv`. None of
  them is inductive. A veto stays in time only if a session still cooling down
  is known to have no contribution; a release is earned only if what admission
  fixed (cooldown end, factor verdict, binding) is known to be still in the row;
  the minimum cooldown only if the accepted policy is within the limits; and a
  cancellation is final only because the clock floor never falls, so a session
  found expired stays expired. `EnrollmentSound`, `SessionSound` and
  `OutcomeSound` say these things. The step lemmas go action by action;
  operations that touch neither enrollments, sessions nor outcomes share one
  lemma, `QuietStep`.
  The action properties follow from `RecoveryInv` and three
  frame lemmas, which say what a step may do to an enrollment, a session and an
  outcome: `NothingIsSentOnceStopped`, `ContributionNeverChanges`,
  `TombstonesAreFinal`, `ReceiptsAreStable`, `NoticesAreStable`. The argument
  for receipts is the one the code's comment makes in a line ("terminal once
  recorded"): the reason is computed from the session's present status, and
  `CancelledForGood` with the floor shows that status can no longer move.
- `AdmissionProofs` proves what counts: `InvitationIsSpentOnce`,
  `OpenChallengesAreBounded`, `AttemptsAreSpent` and `RetriesAreRecognised`, from
  `AdmissionInv`. It adds to `RecoveryInv` that what an enrollment was made from is
  marked as used (`SpentMarked`), that challenges and sessions are finite, and
  that what a retry is recognised by is still recorded (`RetriesSound`). The
  counting rests on the library's facts about cardinalities: a redemption adds one
  challenge, a begin adds one session and one attempt.
- `ObserverProofs` carries these over to the modules that watch the store.
  `ReadsAreSingleUse` follows from `ReadsAreGuarded`: after an answer either the
  nonce is still there or the floor has passed the read's freshness; it needs
  the read's target to stay on record, so that its scope stays the same.
  `ReceiptsAreAsCommitted` needs `ConnectionInv`, a receipt for every recorded
  change and not only for those still owed, and `ReceiptsKept` of `StoreProofs`.
  `StoreImplementsCustody` is the refinement, step by step: each action of `Store`
  maps to taking, ending, opening, stopping or handing over, or to nothing.
- `ObserverProofs` also ties the client's models to the store. `Recover` and
  `EnrollClient` each state what a client sees of a trustee; `StoreTrustee` reads
  that off the tables and instantiates the two modules with it.
  `StoreServesAsSeen`: for each of any number of enrollments, a step of the store
  is a step of `Recover`'s trustee (a begin or a read served by its verdict, a
  veto, the end of custody), a candidate's cancellation of its own session, which
  `Recover` leaves out since its client never asks for it, or nothing.
  `StoreAnswersAsSeen`: the verdicts agree too, at every time the store still
  accepts. `StoreServesSlots`: the custody under an id moves as in a slot of
  `EnrollClient`, and only by an enroll of that id or a signed end of it.
  `StoreAnswersSlots`: receipts tell the enrolling client what is so; this needs
  one more invariant, that an end is recorded only with custody ended
  (`EndsRecorded`). These four are stated of the specification and are in no
  run's list: TLC agreed with each on the instances of `recovery` or `enroll`.
- `StartupProofs` proves the four safety properties of `Startup` from
  `StartupInv`: a process in a migration holds the write lock and what it read
  still holds; what a process has checked stays true of the database until it
  ends; two key writers never share a path.
- `ClientProofs` proves the three invariants of enrollment for any number of
  slots: each loop has dealt with the slots before the current one
  (`LoopsInOrder`), and custody, its end and a report each have their cause
  (`CustodyHasCause`). The manifest's two properties are proved for every period
  from the grid (`Grid`, `PeriodsInOrder`, `ValidUntilOnGrid`): the manifest last
  served is the one of the time it last changed. `SessionsAreAdmitted` is
  arithmetic over every policy, margin cap, skew and end of enrollment. These
  are theorems of `ManifestSpec` and `MarginsSpec`; the run checks the same
  definitions on both machines at once.
- `RecoverProofs` proves `SharesAreReleased`, `NobodyIsDroppedWithoutCause`,
  `CheckpointsAreKept` and `RetriesAreFree`. `RecoverInv` says that a running
  client works on the session in its file; that a session other than the saved
  one is over unless the artifact is out (`OneSession`); and that sessions lie
  within the enrollment and the lifetime. `TrusteesKeep` says what no step takes
  back at the trustees; `CauseKeeps` uses it to show that a cause for dropping a
  trustee stays one, against late begins in particular.

- `DurationProofs` proves `ReadersAgree` for texts of any length and any limit on
  the digits. The client matches one expression with digits of any script, the
  trustee cuts the text at each unit letter in turn and takes ASCII digits. Between
  the two stands a lenient reader, the trustee's cuts with the client's digits. A
  text either of these accepts is written as groups in order (`Written`); a cut takes
  the first group off and leaves a written text, and the expression captures the same
  digits, so the client and the lenient reader agree on every text (`Alike`). The
  lenient reader cuts a text where the trustee cuts its ASCII spelling
  (`DurationSpelled`), and what the trustee reads holds ASCII digits only
  (`TrusteePlain`). Induction over texts would take an operator as a
  parameter; the least counterexample (`LeastNat`, `Stepwise`) does it by the
  well-foundedness of the naturals alone.
- `Slip39Proofs` proves `OneErrorIsCaught`: a share that is well formed and then
  has a word misread as any other, two neighbours exchanged, or a word dropped or
  repeated is refused as malformed, also where the error flips the flag that picks
  the customization. A checksum round is linear in exclusive or (`RoundAdds`), so
  the difference of two computations evolves by itself. Rounds over equal words
  make nothing only of nothing (`NothingFromNothing`), because the low words of the
  generators are independent (`GeneratorIndependent`); so the checksums of two
  shares that differ in one word, or in two neighbours, differ
  (`NeighboursCaught`). Where the flag flips, the two customizations are still too
  far apart, two or three words on, for those words to make up for it
  (`CustomizationsApart`).

Only model-checked:

- `SharesReadRight`. Its runs make up to two errors and compare with the reference
  tool's verdicts. Several errors anywhere may add up to another valid share, and an
  error may repair a damaged one, so it is not true of every share and
  number of errors: it is a statement about those reference shares. What holds of
  every share is `OneErrorIsCaught`.
- Liveness under fairness: `StartupSettles`, `RecoveryEnds`, `ThresholdSuffices`,
  `CustodyCanBeEnded`; and `ENABLED`.

## What is left out

- *Encodings.* Canonical JSON, hex, base64, timestamps and digests are
  formatting here: the properties do not tell two spellings apart. A malformed
  request is a member of `faults` or no request at all. Durations are the
  exception, since two programs read them (`Duration`).
- *Cryptography* is ideal: signatures cannot be forged, sealed bytes open only
  with their key and context, `random_id` never repeats.
- *Storage failure.* An SQLite error answers `temporarily_unavailable` and rolls
  back: no step. A database restored from an old snapshot is excluded by the
  repository's README. The checkpoint after `end_enrollment` moves bytes, not rows.
- *Superseded and finalized* are statuses no operation writes (rotation and
  finalization are declared unsupported); the decisions treat them as in the
  code, the invariant shows they never occur.
- *Shares.* The word list, the splitting of a mnemonic into words, and the
  client's interpolation are left out: t verified shares recover the artifact.
- *Service.* Routes, status codes, body limits and configuration text hold no
  state. A graceful stop lets requests finish: a kill after the last reply.
- *Holder's poll and veto* are single requests, which `Store` receives in any
  order. Their client code keeps no state.
- *The test driver and deployment* are not part of the program.

## Plan

Every invariant and action property of the passing runs is now either proved or
named above as out of reach. What remains would deepen this:

1. *Start-up and service together*: that the tables of `Store` are those of a
   database `Startup` opened, so that a restart under another build is a step of
   the composition.
2. *Client and trustees composed*: `StoreTrustee` shows the store to be the
   trustee each client model assumes, for one enrollment at a time and its clock
   at or past the floor. A module with n stores and one client, in place of that
   view, would say the same of whole behaviours.
3. *Shares with several errors*: which pairs of misread words the checksum tells
   apart is a fact about its distance, a finite but large search.
