--------------------------- MODULE RecoverProofs ----------------------------
(* The recovering client, proved for any number of trustees, any threshold,    *)
(* policy and timing, and any sequence of unanswered, late and repeated calls, *)
(* kills and runs: what it saved, spent, collected and dropped.                *)
EXTENDS Recover, FiniteSetTheorems, TLAPS

-----------------------------------------------------------------------------
(* The inductive invariant.                                                    *)

Stages == {"off", "round", "saving", "sleeping", "restoring", "written"}

Rows == [status : {"cooling_down", "released", "vetoed", "refused"}, sequence : {1},
         cooldownEndsAt : Int, expiresAt : Int]

\* Sessions were made in the past, and within the enrollment and the lifetime.
SessionsOK ==
    /\ clock \in Nat
    /\ made \in Seq([requestedAt : Nat, expiresAt : Int])
    /\ DOMAIN made \subseteq Ids
    /\ \A id \in DOMAIN made :
          /\ made[id].requestedAt <= clock
          /\ made[id].expiresAt <= made[id].requestedAt + Lifetime
          /\ made[id].expiresAt <= EnrollmentEnd

\* A trustee's rows are of sessions that were made, and refused only for a factor.
RowsOK ==
    /\ admitted = [t \in Trustees |-> admitted[t]]
    /\ \A t \in Trustees :
          /\ DOMAIN admitted[t] \subseteq DOMAIN made
          /\ admitted[t] \in [DOMAIN admitted[t] -> Rows]
          /\ \A id \in DOMAIN admitted[t] :
                /\ admitted[t][id].expiresAt = made[id].expiresAt
                /\ admitted[t][id].status = "refused" => t \in WrongFactor
    /\ spent \in [Trustees -> Nat]
    /\ sent \in SUBSET (Trustees \X DOMAIN made)

Clients == [stage : Stages, id : Nat, envelopes : SUBSET Trustees, live : SUBSET Trustees,
            current : SUBSET Trustees, todo : SUBSET Trustees, rest : Nat]

\* A running client works on the session in its file, with what the trustees have.
ClientOK ==
    /\ client \in Clients
    /\ client.stage = "off" => client = Idle
    /\ client.stage # "off" => client.id \in DOMAIN made /\ file # NoFile /\ file.id = client.id
    /\ \A t \in client.current : client.id \in DOMAIN admitted[t]
    /\ client.stage \in {"restoring", "written"} => Enough
    /\ client.stage = "written" => out

Files == [id : Nat, contributions : SUBSET Trustees]

FileOK ==
    /\ file \in Files
    /\ file = NoFile \/ file.id \in DOMAIN made
    /\ out \in BOOLEAN

\* A session other than the saved one is over, unless the artifact is recovered.
OneSession == out \/ \A id \in DOMAIN made : Expired(id) \/ id = file.id

RecoverInv ==
    /\ SessionsOK
    /\ RowsOK
    /\ ClientOK
    /\ FileOK
    /\ OneSession
    /\ SharesWereReleased
    /\ DroppedForCause

\* Why a trustee was dropped.
Cause(t, id) == Unwilling(t, id) \/ TooLateToBegin(t, id)

LEMMA InitRecoverInv == Init => RecoverInv
<1> SUFFICES ASSUME Init PROVE RecoverInv
  OBVIOUS
<1> USE DEF Init
<1>1. DOMAIN made = {} /\ made \in Seq([requestedAt : Nat, expiresAt : Int])
  OBVIOUS
<1>2. SessionsOK
  BY <1>1 DEF SessionsOK
<1>3. RowsOK
  <2>1. \A t \in Trustees : DOMAIN admitted[t] = {} /\ admitted[t] \in [DOMAIN admitted[t] -> Rows]
    OBVIOUS
  <2> QED
    BY <2>1 DEF RowsOK
<1>4. ClientOK
  BY DEF ClientOK, Clients, Idle, Stages
<1>5. FileOK /\ OneSession
  BY <1>1 DEF FileOK, Files, NoFile, OneSession
<1>6. SharesWereReleased /\ DroppedForCause
  BY DEF SharesWereReleased, DroppedForCause, Idle, NoFile
<1> QED
  BY <1>2, <1>3, <1>4, <1>5, <1>6 DEF RecoverInv

-----------------------------------------------------------------------------
(* What the trustees decide.                                                   *)

\* The constants, as integers.
LEMMA RecoverNumbers ==
    /\ Cooldown \in Nat /\ Lifetime \in Nat /\ Attempts \in Nat /\ EnrollmentEnd \in Nat
    /\ MaxTime \in Nat /\ Interval \in Nat /\ Timeout \in Nat /\ MaxSessions \in Nat
    /\ Skew \in Nat /\ MarginCap \in Nat /\ Cooldown < Lifetime
BY RecoverAssumption, MarginsAssumption

\* The times of a session and of the rows it left.
LEMMA SessionTimes ==
    ASSUME RecoverInv
    PROVE  /\ clock \in Nat
           /\ \A id \in DOMAIN made :
                 /\ made[id].requestedAt \in Nat /\ made[id].expiresAt \in Int
                 /\ made[id].requestedAt <= clock
                 /\ made[id].expiresAt <= made[id].requestedAt + Lifetime
                 /\ made[id].expiresAt <= EnrollmentEnd
           /\ \A t \in Trustees : \A id \in DOMAIN admitted[t] :
                 /\ id \in DOMAIN made
                 /\ admitted[t][id] \in Rows
                 /\ admitted[t][id].expiresAt = made[id].expiresAt
           /\ \A t \in Trustees : spent[t] \in Nat
<1>1. SessionsOK /\ RowsOK
  BY DEF RecoverInv
<1>3. \A id \in DOMAIN made : made[id] \in [requestedAt : Nat, expiresAt : Int]
  <2> DEFINE Times == [requestedAt : Nat, expiresAt : Int]
  <2>1. made \in Seq(Times)
    BY <1>1 DEF SessionsOK
  <2> HIDE DEF Times
  <2>2. \A id \in DOMAIN made : made[id] \in Times
    BY <2>1
  <2> QED
    BY <2>2 DEF Times
<1>4. \A t \in Trustees : \A id \in DOMAIN admitted[t] :
          /\ id \in DOMAIN made
          /\ admitted[t][id] \in Rows
          /\ admitted[t][id].expiresAt = made[id].expiresAt
  BY <1>1 DEF RowsOK
<1> QED
  BY <1>1, <1>3, <1>4 DEF SessionsOK, RowsOK

\* A session is admitted only where nothing yet stood against it.
LEMMA AdmittedInTime ==
    ASSUME RecoverInv, NEW t \in Trustees, NEW id \in DOMAIN made, BeginVerdict(t, id) = "ok"
    PROVE  /\ id \notin DOMAIN admitted[t]
           /\ spent[t] < Attempts
           /\ ~TooLateToBegin(t, id)
<1>1. made[id].requestedAt \in Nat /\ made[id].expiresAt \in Int /\ clock \in Nat /\ spent[t] \in Nat
  BY SessionTimes
<1>2. id \notin DOMAIN admitted[t]
  BY DEF BeginVerdict
<1>3. /\ ~RateLimited(Policy, spent[t])
      /\ ~(Distance(made[id].requestedAt, clock) > Skew)
      /\ WithinBounds(EnrollmentAt(t), Policy, made[id], clock)
  BY <1>2 DEF BeginVerdict, Admit
<1>4. spent[t] < Attempts
  BY <1>1, <1>3, RecoverNumbers DEF RateLimited, Policy
<1>5. clock <= made[id].requestedAt + Skew
  BY <1>1, <1>3, RecoverNumbers DEF Distance
<1>6. clock + Cooldown < made[id].expiresAt
  BY <1>1, <1>3, RecoverNumbers DEF WithinBounds, CooldownEndsAt, Policy
<1> QED
  BY <1>1, <1>2, <1>4, <1>5, <1>6, RecoverNumbers DEF TooLateToBegin

\* A trustee that does not admit a session it does not know has a cause.
LEMMA RefusedForCause ==
    ASSUME RecoverInv, NEW t \in Trustees, NEW id \in DOMAIN made,
           id \notin DOMAIN admitted[t], BeginVerdict(t, id) # "ok"
    PROVE  Cause(t, id)
<1>1. /\ made[id].requestedAt \in Nat /\ made[id].expiresAt \in Int
      /\ clock \in Nat /\ spent[t] \in Nat
      /\ made[id].requestedAt <= clock
      /\ made[id].expiresAt <= made[id].requestedAt + Lifetime
      /\ made[id].expiresAt <= EnrollmentEnd
  BY SessionTimes
<1>2. CASE Usable(EnrollmentAt(t), clock) # "ok"
  BY <1>1, <1>2, RecoverNumbers DEF Usable, EnrollmentAt, Tombstone, Cause, Unwilling
<1>3. CASE RateLimited(Policy, spent[t])
  BY <1>1, <1>3, RecoverNumbers DEF RateLimited, Policy, Cause, Unwilling
<1>4. CASE Distance(made[id].requestedAt, clock) > Skew
  BY <1>1, <1>4, RecoverNumbers DEF Distance, Cause, TooLateToBegin
<1>5. CASE made[id].expiresAt <= clock
  BY <1>1, <1>5 DEF Cause, Unwilling
<1>6. CASE ~WithinBounds(EnrollmentAt(t), Policy, made[id], clock)
  BY <1>1, <1>6, RecoverNumbers
     DEF WithinBounds, EnrollmentAt, Policy, CooldownEndsAt, Cause, TooLateToBegin
<1> QED
  BY <1>2, <1>3, <1>4, <1>5, <1>6 DEF BeginVerdict, Admit

\* A trustee that neither releases nor cools down is unwilling.
LEMMA WithheldForCause ==
    ASSUME RecoverInv, NEW t \in Trustees, NEW id \in DOMAIN admitted[t],
           ReadVerdict(t, id) \notin {"emit", "resend"}, ~KeepsPolling(ReadVerdict(t, id))
    PROVE  Cause(t, id)
<1> DEFINE row == admitted[t][id]
<1>1. /\ row \in Rows /\ id \in DOMAIN made /\ clock \in Nat
      /\ row.expiresAt = made[id].expiresAt /\ made[id].expiresAt <= EnrollmentEnd
      /\ row.status = "refused" => t \in WrongFactor
      /\ made[id].expiresAt \in Int
  BY SessionTimes DEF RecoverInv, RowsOK
<1>2. CASE Usable(EnrollmentAt(t), clock) # "ok"
  BY <1>1, <1>2, RecoverNumbers DEF Usable, EnrollmentAt, Tombstone, Cause, Unwilling
<1>3. CASE StatusVerdict(row.status) # "ok"
  BY <1>1, <1>3 DEF StatusVerdict, Rows, Cause, Unwilling
<1>4. CASE clock >= row.expiresAt
  BY <1>1, <1>4 DEF Cause, Unwilling
<1>5. row.sequence = EnrollmentAt(t).sequence /\ ~(clock < 0)
  BY <1>1 DEF Rows, EnrollmentAt
<1> QED
  BY <1>2, <1>3, <1>4, <1>5 DEF ReadVerdict, Release, KeepsPolling

-----------------------------------------------------------------------------
(* What every step keeps.                                                      *)

\* Trustees forget nothing: rows, their cooldowns and vetoes stay, an attempt is
\* spent for each new row and only where nothing stood against it.
TrusteesKeep ==
    /\ ended \subseteq ended' /\ given \subseteq given'
    /\ \A t \in Trustees :
          /\ DOMAIN admitted[t] \subseteq DOMAIN admitted'[t]
          /\ spent'[t] - spent[t] = Cardinality(DOMAIN admitted'[t] \ DOMAIN admitted[t])
          /\ spent'[t] >= spent[t]
          /\ \A id \in DOMAIN admitted[t] :
                /\ admitted'[t][id].cooldownEndsAt = admitted[t][id].cooldownEndsAt
                /\ admitted[t][id].status = "vetoed" => admitted'[t][id].status = "vetoed"
          /\ \A id \in DOMAIN admitted'[t] \ DOMAIN admitted[t] :
                spent[t] < Attempts /\ ~TooLateToBegin(t, id)

\* Sessions stay as they were made, and time does not run backwards.
SessionsKeep ==
    /\ clock <= clock'
    /\ \A id \in DOMAIN made : id \in DOMAIN made' /\ made'[id] = made[id]

LEMMA NothingKeeps == ASSUME RecoverInv, UNCHANGED trusteeVars PROVE TrusteesKeep
<1>1. \A t \in Trustees : spent'[t] - spent[t] = 0 /\ spent'[t] >= spent[t]
  BY SessionTimes DEF trusteeVars
<1>2. \A t \in Trustees : DOMAIN admitted'[t] \ DOMAIN admitted[t] = {}
  BY DEF trusteeVars
<1> QED
  BY <1>1, <1>2, FS_EmptySet DEF trusteeVars, TrusteesKeep

\* A begin adds at most one row, in time, and spends one attempt for it.
LEMMA BeginKeeps ==
    ASSUME RecoverInv, NEW t \in Trustees, NEW id \in DOMAIN made, ServeBegin(t, id),
           made' = made, sent' \in SUBSET (Trustees \X DOMAIN made)
    PROVE  /\ TrusteesKeep /\ RowsOK'
           /\ BeginVerdict(t, id) = "ok" => id \in DOMAIN admitted'[t]
<1>1. CASE BeginVerdict(t, id) # "ok"
  <2>1. UNCHANGED trusteeVars
    BY <1>1 DEF ServeBegin
  <2> QED
    BY <1>1, <2>1, NothingKeeps DEF RecoverInv, RowsOK, trusteeVars
<1>2. CASE BeginVerdict(t, id) = "ok"
  <2> DEFINE row == [status         |-> IF t \in WrongFactor THEN "refused" ELSE "cooling_down",
                     sequence       |-> 1,
                     cooldownEndsAt |-> CooldownEndsAt(Policy, made[id], clock),
                     expiresAt      |-> made[id].expiresAt]
  <2>1. id \notin DOMAIN admitted[t] /\ spent[t] < Attempts /\ ~TooLateToBegin(t, id)
    BY <1>2, AdmittedInTime
  <2>2. row \in Rows /\ row.expiresAt = made[id].expiresAt /\ (row.status = "refused" => t \in WrongFactor)
    BY SessionTimes, RecoverNumbers DEF Rows, CooldownEndsAt, Policy
  <2>3. /\ admitted' = [admitted EXCEPT ![t] =
                            [i \in DOMAIN @ \cup {id} |-> IF i # id THEN @[i] ELSE row]]
        /\ spent' = [spent EXCEPT ![t] = @ + 1]
        /\ UNCHANGED <<ended, given>>
    BY <1>2 DEF ServeBegin
  <2> HIDE DEF row
  <2>4. /\ admitted = [s \in Trustees |-> admitted[s]] /\ spent \in [Trustees -> Nat]
        /\ \A s \in Trustees : admitted[s] \in [DOMAIN admitted[s] -> Rows]
    BY DEF RecoverInv, RowsOK
  <2>5. /\ DOMAIN admitted'[t] = DOMAIN admitted[t] \cup {id}
        /\ admitted'[t][id] = row
        /\ \A i \in DOMAIN admitted[t] : admitted'[t][i] = admitted[t][i]
        /\ admitted'[t] \in [DOMAIN admitted'[t] -> Rows]
        /\ spent'[t] = spent[t] + 1
    BY <2>1, <2>2, <2>3, <2>4
  <2>6. \A s \in Trustees \ {t} : admitted'[s] = admitted[s] /\ spent'[s] = spent[s]
    BY <2>3, <2>4
  <2>7. admitted' = [s \in Trustees |-> admitted'[s]] /\ spent' \in [Trustees -> Nat]
    BY <2>3, <2>4
  <2>8. RowsOK'
    BY <2>2, <2>5, <2>6, <2>7 DEF RecoverInv, RowsOK
  <2>9. Cardinality(DOMAIN admitted'[t] \ DOMAIN admitted[t]) = 1
    <3>1. DOMAIN admitted'[t] \ DOMAIN admitted[t] = {id}
      BY <2>1, <2>5
    <3> QED
      BY <3>1, FS_Singleton
  <2>10. \A s \in Trustees \ {t} : Cardinality(DOMAIN admitted'[s] \ DOMAIN admitted[s]) = 0
    <3>1. \A s \in Trustees \ {t} : DOMAIN admitted'[s] \ DOMAIN admitted[s] = {}
      BY <2>6
    <3> QED
      BY <3>1, FS_EmptySet
  <2>11. \A s \in Trustees : spent[s] \in Nat
    BY <2>4
  <2>12. TrusteesKeep
    BY <2>1, <2>3, <2>5, <2>6, <2>9, <2>10, <2>11 DEF TrusteesKeep
  <2> QED
    BY <2>5, <2>8, <2>12
<1> QED
  BY <1>1, <1>2

\* A read or a veto gives one row a new status, and never takes a veto back.
LEMMA StatusKeeps ==
    ASSUME RecoverInv, NEW t \in Trustees, NEW id \in DOMAIN admitted[t],
           NEW status \in {"released", "vetoed"}, status = "released" => admitted[t][id].status # "vetoed",
           admitted' = [admitted EXCEPT ![t][id].status = status],
           given \subseteq given', UNCHANGED <<ended, spent, made>>,
           sent' \in SUBSET (Trustees \X DOMAIN made)
    PROVE  TrusteesKeep /\ RowsOK'
<1>1. /\ admitted = [s \in Trustees |-> admitted[s]]
      /\ \A s \in Trustees : admitted[s] \in [DOMAIN admitted[s] -> Rows]
  BY DEF RecoverInv, RowsOK
<1>2. \A s \in Trustees \ {t} : admitted'[s] = admitted[s]
  BY <1>1
<1>3. admitted'[t] = [admitted[t] EXCEPT ![id].status = status]
  BY <1>1
<1>4. /\ DOMAIN admitted'[t] = DOMAIN admitted[t]
      /\ admitted'[t][id] = [admitted[t][id] EXCEPT !.status = status]
      /\ \A i \in DOMAIN admitted[t] \ {id} : admitted'[t][i] = admitted[t][i]
  BY <1>1, <1>3
<1>5. admitted[t][id] \in Rows
  BY <1>1
<1>6. /\ admitted'[t][id] \in Rows
      /\ admitted'[t][id].status = status
      /\ admitted'[t][id].expiresAt = admitted[t][id].expiresAt
      /\ admitted'[t][id].cooldownEndsAt = admitted[t][id].cooldownEndsAt
  BY <1>4, <1>5 DEF Rows
<1>7. admitted'[t] \in [DOMAIN admitted'[t] -> Rows]
  BY <1>1, <1>3, <1>4, <1>6
<1>8. admitted' = [s \in Trustees |-> admitted'[s]]
  BY <1>1
<1>9. RowsOK'
  BY <1>2, <1>4, <1>6, <1>7, <1>8 DEF RecoverInv, RowsOK
<1>10. \A s \in Trustees : DOMAIN admitted'[s] = DOMAIN admitted[s]
  BY <1>2, <1>4
<1>11. \A s \in Trustees : Cardinality(DOMAIN admitted'[s] \ DOMAIN admitted[s]) = 0
  <2>1. \A s \in Trustees : DOMAIN admitted'[s] \ DOMAIN admitted[s] = {}
    BY <1>10
  <2> QED
    BY <2>1, FS_EmptySet
<1>12. \A s \in Trustees : spent'[s] - spent[s] = 0 /\ spent'[s] >= spent[s]
  BY SessionTimes
<1> QED
  BY <1>2, <1>4, <1>6, <1>9, <1>10, <1>11, <1>12 DEF TrusteesKeep

LEMMA ReadKeeps ==
    ASSUME RecoverInv, NEW t \in Trustees, NEW id \in DOMAIN admitted[t], ServeRead(t, id),
           made' = made, sent' = sent
    PROVE  /\ TrusteesKeep /\ RowsOK'
           /\ ReadVerdict(t, id) \in {"emit", "resend"} => <<t, id>> \in given'
<1>1. sent' \in SUBSET (Trustees \X DOMAIN made)
  BY DEF RecoverInv, RowsOK
<1>2. CASE ReadVerdict(t, id) \in {"emit", "resend"}
  <2>1. /\ admitted' = [admitted EXCEPT ![t][id].status = "released"]
        /\ given' = given \cup {<<t, id>>}
        /\ UNCHANGED <<ended, spent>>
    BY <1>2 DEF ServeRead
  <2>2. admitted[t][id].status # "vetoed"
    BY <1>2 DEF ReadVerdict, Release, StatusVerdict, Usable
  <2> QED
    BY <1>1, <2>1, <2>2, StatusKeeps
<1>3. CASE ReadVerdict(t, id) \notin {"emit", "resend"}
  <2>1. UNCHANGED trusteeVars
    BY <1>3 DEF ServeRead
  <2> QED
    BY <1>3, <2>1, NothingKeeps DEF RecoverInv, RowsOK, trusteeVars
<1> QED
  BY <1>2, <1>3

\* A cause stays a cause: no late or repeated begin gets past it.
LEMMA CauseKeeps ==
    ASSUME RecoverInv, TrusteesKeep, SessionsKeep, clock' \in Nat, spent' \in [Trustees -> Nat],
           NEW t \in Trustees, NEW id \in DOMAIN made, Cause(t, id)
    PROVE  Cause(t, id)'
<1>1. /\ clock \in Nat /\ made'[id] = made[id] /\ clock <= clock'
      /\ made[id].requestedAt \in Nat /\ made[id].expiresAt \in Int
      /\ spent[t] \in Nat
  BY SessionTimes DEF SessionsKeep
<1>2. /\ ended \subseteq ended'
      /\ DOMAIN admitted[t] \subseteq DOMAIN admitted'[t]
      /\ spent'[t] - spent[t] = Cardinality(DOMAIN admitted'[t] \ DOMAIN admitted[t])
      /\ spent'[t] >= spent[t]
      /\ id \in DOMAIN admitted[t] /\ admitted[t][id].status = "vetoed" =>
            admitted'[t][id].status = "vetoed"
      /\ id \in DOMAIN admitted'[t] /\ id \notin DOMAIN admitted[t] =>
            spent[t] < Attempts /\ ~TooLateToBegin(t, id)
  BY DEF TrusteesKeep
<1>3. CASE t \in ended \cup WrongFactor \cup Faulty \/ clock >= made[id].expiresAt
  BY <1>1, <1>2, <1>3 DEF Cause, Unwilling
<1>4. CASE id \in DOMAIN admitted[t] /\ admitted[t][id].status = "vetoed"
  BY <1>1, <1>2, <1>4 DEF Cause, Unwilling
<1>5. CASE id \notin DOMAIN admitted[t] /\ spent[t] >= Attempts
  <2>1. id \notin DOMAIN admitted'[t] /\ spent'[t] >= Attempts
    BY <1>1, <1>2, <1>5, RecoverNumbers
  <2> QED
    BY <1>1, <2>1 DEF Cause, Unwilling
<1>6. CASE TooLateToBegin(t, id)
  <2>1. id \notin DOMAIN admitted[t] /\ id \notin DOMAIN admitted'[t]
    BY <1>2, <1>6 DEF TooLateToBegin
  <2> QED
    BY <1>1, <1>6, <2>1, RecoverNumbers DEF Cause, TooLateToBegin
<1> QED
  BY <1>3, <1>4, <1>5, <1>6 DEF Cause, Unwilling

-----------------------------------------------------------------------------
(* One lemma for each kind of step.                                            *)

\* What the client saved and collected after a step that gives up nothing.
LEMMA StillReleased ==
    ASSUME RecoverInv, TrusteesKeep,
           client'.envelopes \X {client'.id} \subseteq given',
           file'.contributions \X {file'.id} \subseteq given',
           out' = out
    PROVE  SharesWereReleased'
<1>1. CASE ~out
  BY <1>1 DEF SharesWereReleased
<1>2. CASE out
  <2>1. PICK id \in Ids : Cardinality({t \in Trustees : <<t, id>> \in given}) >= Threshold
    BY <1>2 DEF RecoverInv, SharesWereReleased
  <2>2. Cardinality({t \in Trustees : <<t, id>> \in given'}) >= Threshold
    <3>1. {t \in Trustees : <<t, id>> \in given} \subseteq {t \in Trustees : <<t, id>> \in given'}
      BY DEF TrusteesKeep
    <3>2. IsFiniteSet({t \in Trustees : <<t, id>> \in given'})
      BY RecoverAssumption, FS_Subset
    <3>3. /\ Cardinality({t \in Trustees : <<t, id>> \in given}) <= Cardinality({t \in Trustees : <<t, id>> \in given'})
          /\ IsFiniteSet({t \in Trustees : <<t, id>> \in given})
      BY <3>1, <3>2, FS_Subset
    <3>4. /\ Cardinality({t \in Trustees : <<t, id>> \in given}) \in Nat
          /\ Cardinality({t \in Trustees : <<t, id>> \in given'}) \in Nat
      BY <3>2, <3>3, FS_CardinalityType
    <3>5. Threshold \in Int
      BY RecoverAssumption
    <3> QED
      BY <2>1, <3>3, <3>4, <3>5
  <2> QED
    BY <2>2 DEF SharesWereReleased
<1> QED
  BY <1>1, <1>2 DEF RecoverInv, FileOK

\* A step of the client, or of anyone else, that neither makes nor gives up a
\* session, and drops no trustee without a cause.
LEMMA SessionGoesOn ==
    ASSUME RecoverInv, TrusteesKeep, RowsOK', made' = made, out' = out,
           clock' \in Nat, clock <= clock',
           client' \in Clients, client'.id = client.id,
           client.stage = "off" => client' = client,
           client.stage # "off" => client'.stage # "off",
           \A t \in client.live \ client'.live : Cause(t, client.id),
           client'.envelopes \X {client.id} \subseteq given',
           \A t \in client'.current : client.id \in DOMAIN admitted'[t],
           client'.stage \in {"restoring", "written"} => Enough',
           client'.stage = "written" => out,
           file' \in Files, file'.id = file.id, file = NoFile => file' = file,
           file.contributions \subseteq file'.contributions,
           file'.contributions \X {file.id} \subseteq given'
    PROVE  RecoverInv' /\ CheckpointStep
<1>1. SessionsOK /\ ClientOK /\ FileOK /\ OneSession /\ DroppedForCause
  BY DEF RecoverInv
<1>2. SessionsOK'
  <2>1. \A id \in DOMAIN made : made[id].requestedAt <= clock'
    BY SessionTimes
  <2> QED
    BY <1>1, <2>1 DEF SessionsOK
<1>3. SessionsKeep
  BY DEF SessionsKeep
<1>4. client.stage # "off" => file' # NoFile
  BY <1>1 DEF ClientOK, SessionsOK, Ids, NoFile
<1>5. ClientOK'
  BY <1>1, <1>4 DEF ClientOK
<1>6. FileOK'
  BY <1>1 DEF FileOK
<1>7. OneSession'
  <2>1. \A id \in DOMAIN made : Expired(id) => clock' >= made[id].expiresAt
    BY SessionTimes DEF Expired
  <2> QED
    BY <1>1, <2>1 DEF OneSession, Expired
<1>8. SharesWereReleased'
  BY StillReleased
<1>9. DroppedForCause'
  <2> SUFFICES ASSUME client.stage # "off", NEW t \in Trustees \ client'.live
               PROVE  Cause(t, client.id)'
    <3>1. client.stage = "off" => client'.stage = "off"
      OBVIOUS
    <3> QED
      BY <3>1 DEF DroppedForCause, Cause
  <2>1. Cause(t, client.id)
    BY <1>1 DEF DroppedForCause, Cause
  <2>2. client.id \in DOMAIN made /\ spent' \in [Trustees -> Nat]
    BY <1>1 DEF ClientOK, RowsOK
  <2>3. PICK id \in DOMAIN made : id = client.id
    BY <2>2
  <2>4. Cause(t, id)'
    BY <1>3, <2>1, <2>2, <2>3, CauseKeeps
  <2> QED
    BY <2>3, <2>4
<1>10. CheckpointStep
  <2>1. ~(Len(made') > Len(made))
    BY <1>1 DEF SessionsOK
  <2> QED
    BY <2>1 DEF CheckpointStep
<1> QED
  BY <1>2, <1>5, <1>6, <1>7, <1>8, <1>9, <1>10 DEF RecoverInv

\* A step that ends the run, and leaves the saved session or has a reason not to.
LEMMA RunEnds ==
    ASSUME RecoverInv, UNCHANGED <<clock, made, out, sent, trusteeVars>>,
           client' = Idle,
           file' = file \/ (file' = NoFile /\ (out \/ (file # NoFile /\ Expired(file.id))))
    PROVE  RecoverInv' /\ CheckpointStep
<1>1. SessionsOK /\ RowsOK /\ ClientOK /\ FileOK /\ OneSession
  BY DEF RecoverInv
<1>2. SessionsOK' /\ RowsOK'
  BY <1>1 DEF SessionsOK, RowsOK, trusteeVars
<1>3. ClientOK'
  BY DEF ClientOK, Clients, Idle, Stages
<1>4. FileOK'
  BY <1>1 DEF FileOK, Files, NoFile
<1>5. OneSession'
  <2>1. \A id \in DOMAIN made : id # 0
    BY <1>1 DEF SessionsOK, Ids
  <2> QED
    BY <1>1, <2>1 DEF OneSession, Expired, NoFile
<1>6. SharesWereReleased'
  BY NothingKeeps, StillReleased DEF RecoverInv, SharesWereReleased, Idle, NoFile, trusteeVars
<1>7. DroppedForCause'
  BY DEF DroppedForCause, Idle
<1>8. CheckpointStep
  <2>1. ~(Len(made') > Len(made))
    BY <1>1 DEF SessionsOK
  <2> QED
    BY <2>1 DEF CheckpointStep
<1> QED
  BY <1>2, <1>3, <1>4, <1>5, <1>6, <1>7, <1>8 DEF RecoverInv

\* A first run: the one moment a session is made.
LEMMA StartStep ==
    ASSUME RecoverInv, Start PROVE RecoverInv' /\ TrusteesKeep /\ CheckpointStep
<1> DEFINE session == SessionFrom(clock)
           id == Len(made) + 1
<1>1. SessionsOK /\ RowsOK /\ FileOK /\ OneSession /\ clock \in Nat
  BY DEF RecoverInv, SessionsOK
<1>2. /\ file = NoFile /\ Len(made) < MaxSessions
      /\ made' = Append(made, session)
      /\ file' = [id |-> Len(made'), contributions |-> {}]
      /\ client' = Running(Len(made'), {})
      /\ UNCHANGED <<clock, out, sent, ended, admitted, spent, given>>
  BY DEF Start, trusteeVars
<1>3. /\ session \in [requestedAt : Nat, expiresAt : Int]
      /\ session.requestedAt = clock
      /\ session.expiresAt <= clock + Lifetime /\ session.expiresAt <= EnrollmentEnd
  BY <1>1, RecoverNumbers DEF SessionFrom, NewSession, Margin, Least
<1> HIDE DEF session
<1>4. /\ Len(made') = id /\ id \in Ids /\ id \in Nat
      /\ DOMAIN made' = DOMAIN made \cup {id}
      /\ made'[id] = session /\ id \notin DOMAIN made
      /\ \A i \in DOMAIN made : made'[i] = made[i]
  BY <1>1, <1>2, RecoverNumbers DEF SessionsOK, Ids
<1> HIDE DEF id
<1>5. SessionsOK'
  <2>1. made' \in Seq([requestedAt : Nat, expiresAt : Int])
    BY <1>1, <1>2, <1>3 DEF SessionsOK
  <2> QED
    BY <1>1, <1>2, <1>3, <1>4, <2>1 DEF SessionsOK
<1>6. RowsOK'
  BY <1>1, <1>2, <1>4 DEF RowsOK
<1>7. TrusteesKeep
  BY <1>2, NothingKeeps DEF trusteeVars
<1>8. client'.stage = "round" /\ client'.id = id /\ client'.envelopes = {} /\ client'.current = {}
      /\ client'.live = Trustees /\ client' \in Clients
  BY <1>2, <1>4 DEF Running, Idle, Clients, Stages
<1>9. file'.id = id /\ file'.contributions = {} /\ file' \in Files
  BY <1>2, <1>4 DEF Files
<1>10. file' # NoFile
  BY <1>4, <1>9 DEF NoFile, Ids
<1>11. ClientOK' /\ FileOK'
  BY <1>1, <1>2, <1>4, <1>8, <1>9, <1>10 DEF ClientOK, FileOK
<1>12. out \/ \A i \in DOMAIN made : Expired(i)
  BY <1>1, <1>2 DEF OneSession, NoFile, SessionsOK, Ids
<1>13. OneSession'
  BY <1>2, <1>4, <1>9, <1>12 DEF OneSession, Expired
<1>14. SharesWereReleased' /\ DroppedForCause'
  BY <1>2, <1>7, <1>8, <1>9, StillReleased DEF DroppedForCause
<1>15. CheckpointStep
  BY <1>2, <1>12 DEF CheckpointStep
<1> QED
  BY <1>5, <1>6, <1>7, <1>11, <1>13, <1>14, <1>15 DEF RecoverInv

LEMMA ResumeStep ==
    ASSUME RecoverInv, Resume PROVE RecoverInv' /\ TrusteesKeep /\ CheckpointStep
<1>1. /\ SessionsOK /\ RowsOK /\ ClientOK /\ FileOK /\ OneSession
      /\ client.stage = "off" /\ client = Idle
      /\ file # NoFile /\ file.id \in DOMAIN made /\ file \in Files
      /\ UNCHANGED <<clock, made, out, sent, ended, admitted, spent, given>>
  BY DEF RecoverInv, ClientOK, FileOK, Resume, trusteeVars
<1>2. TrusteesKeep
  BY <1>1, NothingKeeps DEF trusteeVars
<1>3. CASE client' = client
  BY <1>1, <1>2, <1>3, RunEnds DEF Resume, trusteeVars
<1>4. CASE client' = Running(file.id, file.contributions) /\ file' = file
  <2>1. /\ client'.stage = "round" /\ client'.id = file.id /\ client'.live = Trustees
        /\ client'.envelopes = file.contributions /\ client'.current = {} /\ client' \in Clients
    BY <1>1, <1>4 DEF Running, Idle, Clients, Files, Stages
  <2>2. SessionsOK' /\ RowsOK' /\ FileOK' /\ OneSession'
    BY <1>1, <1>4 DEF SessionsOK, RowsOK, FileOK, OneSession, Expired
  <2>3. ClientOK'
    BY <1>1, <1>4, <2>1 DEF ClientOK
  <2>4. SharesWereReleased' /\ DroppedForCause'
    BY <1>1, <1>2, <1>4, <2>1, StillReleased DEF DroppedForCause, RecoverInv, SharesWereReleased
  <2>5. CheckpointStep
    BY <1>1, <1>4 DEF CheckpointStep, SessionsOK
  <2> QED
    BY <1>2, <2>2, <2>3, <2>4, <2>5 DEF RecoverInv
<1> QED
  BY <1>3, <1>4 DEF Resume

\* What is true of a running client.
LEMMA RunningClient ==
    ASSUME RecoverInv, client.stage # "off"
    PROVE  /\ client \in Clients /\ client.id \in DOMAIN made
           /\ file # NoFile /\ file.id = client.id /\ file \in Files
           /\ client.envelopes \X {client.id} \subseteq given
           /\ file.contributions \X {client.id} \subseteq given
           /\ \A t \in client.current : client.id \in DOMAIN admitted[t]
           /\ clock \in Nat /\ RowsOK
BY DEF RecoverInv, ClientOK, FileOK, SharesWereReleased, SessionsOK

\* An unanswered call loses only time.
LEMMA UnansweredStep ==
    ASSUME RecoverInv, client.stage = "round", NEW t \in Trustees, Unanswered(t), TrusteesKeep, RowsOK',
           UNCHANGED <<made, file, out>>
    PROVE  RecoverInv' /\ CheckpointStep
<1> USE RunningClient
<1>1. clock' \in Nat /\ clock <= clock'
  BY RecoverNumbers DEF Unanswered
<1>2. client' = [client EXCEPT !.todo = @ \ {t}]
  BY DEF Unanswered, Skipped
<1>3. /\ client' \in Clients /\ client'.stage = "round" /\ client'.id = client.id
      /\ client'.live = client.live /\ client'.envelopes = client.envelopes
      /\ client'.current = client.current
  BY <1>2 DEF Clients
<1>4. /\ client.envelopes \X {client.id} \subseteq given'
      /\ file.contributions \X {client.id} \subseteq given'
      /\ \A r \in client.current : client.id \in DOMAIN admitted'[r]
  BY DEF TrusteesKeep, Clients
<1> QED
  BY <1>1, <1>3, <1>4, SessionGoesOn

\* A trustee that is dropped is dropped for a cause.
LEMMA DropStep ==
    ASSUME RecoverInv, client.stage = "round", NEW t \in Trustees, Drop(t), Cause(t, client.id),
           TrusteesKeep, RowsOK', UNCHANGED <<clock, made, file, out>>
    PROVE  RecoverInv' /\ CheckpointStep
<1> USE RunningClient
<1>1. /\ client' \in Clients /\ client'.stage = "round" /\ client'.id = client.id
      /\ client'.live = client.live \ {t} /\ client'.envelopes = client.envelopes
      /\ client'.current = client.current
  BY DEF Drop, Clients
<1>2. /\ client.envelopes \X {client.id} \subseteq given'
      /\ file.contributions \X {client.id} \subseteq given'
      /\ \A r \in client.current : client.id \in DOMAIN admitted'[r]
  BY DEF TrusteesKeep, Clients
<1> QED
  BY <1>1, <1>2, SessionGoesOn

LEMMA BeginAtStep ==
    ASSUME RecoverInv, NEW t \in Trustees, BeginAt(t)
    PROVE  RecoverInv' /\ TrusteesKeep /\ CheckpointStep
<1>1. /\ client.stage = "round" /\ t \in client.todo
      /\ sent' = sent \cup {<<t, client.id>>}
      /\ UNCHANGED <<made, file, out>>
  BY DEF BeginAt, Pending
<1>2. PICK id \in DOMAIN made : id = client.id
  BY <1>1, RunningClient
<1>3. sent' \in SUBSET (Trustees \X DOMAIN made)
  BY <1>1, <1>2 DEF RecoverInv, RowsOK
<1>4. CASE Unanswered(t) /\ UNCHANGED trusteeVars
  <2>1. TrusteesKeep
    BY <1>4, NothingKeeps
  <2>2. RowsOK'
    BY <1>1, <1>3, <1>4 DEF RecoverInv, RowsOK, trusteeVars
  <2> QED
    BY <1>1, <1>4, <2>1, <2>2, UnansweredStep
<1>5. CASE ServeBegin(t, client.id) /\ clock' = clock
  <2>1. /\ TrusteesKeep /\ RowsOK'
        /\ BeginVerdict(t, id) = "ok" => id \in DOMAIN admitted'[t]
    BY <1>1, <1>2, <1>3, <1>5, BeginKeeps
  <2>2. CASE /\ BeginVerdict(t, id) \in {"ok", "recorded"}
             /\ client' = [client EXCEPT !.current = @ \cup {t}]
    <3>1. id \in DOMAIN admitted'[t]
      <4>1. CASE id \in DOMAIN admitted[t]
        BY <2>1, <4>1 DEF TrusteesKeep
      <4>2. CASE id \notin DOMAIN admitted[t]
        <5>1. BeginVerdict(t, id) = "ok"
          BY <2>2, <4>2 DEF BeginVerdict, Admit, Usable
        <5> QED
          BY <2>1, <5>1
      <4> QED
        BY <4>1, <4>2
    <3> USE RunningClient
    <3>2. /\ client' \in Clients /\ client'.stage = "round" /\ client'.id = client.id
          /\ client'.live = client.live /\ client'.envelopes = client.envelopes
          /\ client'.current = client.current \cup {t}
      BY <1>1, <2>2 DEF Clients
    <3>3. /\ client.envelopes \X {client.id} \subseteq given'
          /\ file.contributions \X {client.id} \subseteq given'
          /\ \A r \in client.current \cup {t} : client.id \in DOMAIN admitted'[r]
      BY <1>1, <1>2, <2>1, <3>1 DEF TrusteesKeep, Clients
    <3> QED
      BY <1>1, <1>5, <2>1, <3>2, <3>3, SessionGoesOn
  <2>3. CASE /\ BeginVerdict(t, id) \in {"ok", "recorded"} => admitted'[t][id].status = "refused"
             /\ Drop(t)
    <3>1. CASE id \notin DOMAIN admitted[t] /\ BeginVerdict(t, id) # "ok"
      BY <1>1, <1>2, <1>5, <2>1, <2>3, <3>1, RefusedForCause, DropStep
    <3>2. CASE id \in DOMAIN admitted[t] \/ BeginVerdict(t, id) = "ok"
      <4>1. BeginVerdict(t, id) \in {"ok", "recorded"}
        BY <3>2 DEF BeginVerdict
      <4>2. id \in DOMAIN admitted'[t]
        BY <2>1, <3>2 DEF TrusteesKeep
      <4>3. t \in WrongFactor
        BY <2>1, <2>3, <4>1, <4>2 DEF RowsOK
      <4>4. Cause(t, client.id)
        BY <4>3 DEF Cause, Unwilling
      <4> QED
        BY <1>1, <1>5, <2>1, <2>3, <4>4, DropStep
    <3> QED
      BY <3>1, <3>2
  <2> QED
    BY <1>2, <1>4, <1>5, <2>1, <2>2, <2>3 DEF BeginAt
<1> QED
  BY <1>4, <1>5 DEF BeginAt

LEMMA ReadAtStep ==
    ASSUME RecoverInv, NEW t \in Trustees, ReadAt(t)
    PROVE  RecoverInv' /\ TrusteesKeep /\ CheckpointStep
<1>1. /\ client.stage = "round" /\ t \in client.current
      /\ UNCHANGED <<made, file, out, sent>>
  BY DEF ReadAt
<1>2. PICK id \in DOMAIN admitted[t] : id = client.id
  BY <1>1, RunningClient
<1>3. ServeRead(t, client.id) \/ UNCHANGED trusteeVars
  BY DEF ReadAt
<1>4. TrusteesKeep /\ RowsOK'
  <2>1. CASE ServeRead(t, client.id)
    BY <1>1, <1>2, <2>1, ReadKeeps
  <2>2. CASE UNCHANGED trusteeVars
    BY <1>1, <2>2, NothingKeeps DEF RecoverInv, RowsOK, trusteeVars
  <2> QED
    BY <1>3, <2>1, <2>2
<1>5. CASE Unanswered(t)
  BY <1>1, <1>4, <1>5, UnansweredStep
<1>6. CASE ~Unanswered(t)
  <2> USE RunningClient
  <2>1. ServeRead(t, id) /\ clock' = clock
    BY <1>2, <1>6 DEF ReadAt
  <2>2. /\ file.contributions \X {client.id} \subseteq given'
        /\ client.envelopes \X {client.id} \subseteq given'
        /\ \A r \in client.current : client.id \in DOMAIN admitted'[r]
    BY <1>1, <1>4 DEF TrusteesKeep, Clients
  <2>3. CASE ReadVerdict(t, id) \in {"emit", "resend"}
    <3>1. client' = [client EXCEPT !.stage = "saving", !.todo = @ \ {t}, !.envelopes = @ \cup {t}]
      BY <1>2, <1>6, <2>3 DEF ReadAt, KeepsPolling
    <3>2. <<t, client.id>> \in given'
      BY <1>1, <1>2, <2>1, <2>3, ReadKeeps
    <3>3. /\ client' \in Clients /\ client'.stage = "saving" /\ client'.id = client.id
          /\ client'.live = client.live /\ client'.envelopes = client.envelopes \cup {t}
          /\ client'.current = client.current
      BY <1>1, <3>1 DEF Clients, Stages
    <3>4. (client.envelopes \cup {t}) \X {client.id} \subseteq given'
      BY <2>2, <3>2
    <3> QED
      BY <1>1, <1>4, <2>1, <2>2, <3>3, <3>4, SessionGoesOn
  <2>4. CASE KeepsPolling(ReadVerdict(t, id))
    <3>1. client' = [client EXCEPT !.todo = @ \ {t}]
      BY <1>2, <1>6, <2>4 DEF ReadAt, Skipped, KeepsPolling
    <3>2. /\ client' \in Clients /\ client'.stage = "round" /\ client'.id = client.id
          /\ client'.live = client.live /\ client'.envelopes = client.envelopes
          /\ client'.current = client.current
      BY <1>1, <3>1 DEF Clients
    <3> QED
      BY <1>1, <1>4, <2>1, <2>2, <3>2, SessionGoesOn
  <2>5. CASE ReadVerdict(t, id) \notin {"emit", "resend"} /\ ~KeepsPolling(ReadVerdict(t, id))
    <3>1. Drop(t)
      BY <1>2, <1>6, <2>5 DEF ReadAt
    <3>2. Cause(t, client.id)
      BY <1>2, <2>5, WithheldForCause
    <3> QED
      BY <1>1, <1>4, <2>1, <3>1, <3>2, DropStep
  <2> QED
    BY <1>4, <2>3, <2>4, <2>5
<1> QED
  BY <1>4, <1>5, <1>6

LEMMA MisansweredStep ==
    ASSUME RecoverInv, NEW t \in Trustees, Misanswered(t)
    PROVE  RecoverInv' /\ TrusteesKeep /\ CheckpointStep
<1>1. /\ client.stage = "round" /\ Drop(t) /\ t \in Faulty
      /\ UNCHANGED <<clock, made, file, out, sent, trusteeVars>>
  BY DEF Misanswered
<1>2. Cause(t, client.id)
  BY <1>1 DEF Cause, Unwilling
<1>3. TrusteesKeep /\ RowsOK'
  BY <1>1, NothingKeeps DEF RecoverInv, RowsOK, trusteeVars
<1> QED
  BY <1>1, <1>2, <1>3, DropStep

\* A step of the client that no trustee sees and that leaves what it collected.
LEMMA LocalStep ==
    ASSUME RecoverInv, client.stage # "off", UNCHANGED <<clock, made, out, sent, trusteeVars>>,
           client'.stage \in Stages \ {"off"}, client'.todo \in SUBSET Trustees,
           client' = [client EXCEPT !.stage = client'.stage, !.todo = client'.todo,
                                    !.rest = client'.rest],
           client'.rest \in Nat,
           client'.stage \in {"restoring", "written"} => Enough,
           client'.stage = "written" => out,
           file' = file \/ file' = [file EXCEPT !.contributions = Saved(@)]
    PROVE  RecoverInv' /\ TrusteesKeep /\ CheckpointStep
<1> USE RunningClient
<1>1. TrusteesKeep /\ RowsOK'
  BY NothingKeeps DEF RecoverInv, RowsOK, trusteeVars
<1>2. /\ client' \in Clients /\ client'.id = client.id /\ client'.live = client.live
      /\ client'.envelopes = client.envelopes /\ client'.current = client.current
  BY DEF Clients
<1>3. /\ file' \in Files /\ file'.id = file.id
      /\ file'.contributions \in {file.contributions, file.contributions \cup client.envelopes}
  BY <1>2 DEF Files, Saved, Clients
<1>4. /\ client'.envelopes \X {client.id} \subseteq given'
      /\ file'.contributions \X {file.id} \subseteq given'
      /\ \A r \in client'.current : client.id \in DOMAIN admitted'[r]
  BY <1>2, <1>3 DEF trusteeVars
<1>5. client'.stage \in {"restoring", "written"} => Enough'
  BY <1>2 DEF Enough
<1> QED
  BY <1>1, <1>2, <1>3, <1>4, <1>5, SessionGoesOn

LEMMA SaveStep ==
    ASSUME RecoverInv, Save \/ Wake PROVE RecoverInv' /\ TrusteesKeep /\ CheckpointStep
<1>1. client \in Clients /\ client.stage # "off"
  BY DEF RecoverInv, ClientOK, Save, Wake
<1> QED
  BY <1>1, LocalStep DEF Save, Wake, Clients, Stages

LEMMA EndRoundStep ==
    ASSUME RecoverInv, EndRound PROVE RecoverInv' /\ TrusteesKeep /\ CheckpointStep
<1>1. /\ client.stage = "round" /\ client \in Clients /\ client.id \in DOMAIN made
      /\ file # NoFile /\ file.id = client.id
      /\ UNCHANGED <<clock, made, out, sent, trusteeVars>>
  BY RunningClient DEF EndRound
<1>2. CASE Enough
  BY <1>1, <1>2, LocalStep DEF EndRound, Clients, Stages
<1>3. CASE ~Enough /\ GiveUp(client.id)
  <2>1. Fail
    BY <1>3 DEF EndRound
  <2>2. client' = Idle /\ (file' = file \/ (file' = NoFile /\ Expired(file.id)))
    BY <1>1, <2>1 DEF Fail, UnlinkOnFailure
  <2> QED
    BY <1>1, <2>2, RunEnds, NothingKeeps
<1>4. CASE ~Enough /\ ~GiveUp(client.id)
  BY <1>1, <1>4, LocalStep, RecoverNumbers DEF EndRound, Clients, Stages
<1> QED
  BY <1>2, <1>3, <1>4

\* The artifact: recovered from t shares that their trustees released.
LEMMA WriteOutStep ==
    ASSUME RecoverInv, WriteOut PROVE RecoverInv' /\ TrusteesKeep /\ CheckpointStep
<1>1. /\ client.stage = "restoring" /\ out' = TRUE
      /\ UNCHANGED <<clock, made, file, sent, trusteeVars>>
      /\ SessionsOK /\ RowsOK /\ ClientOK /\ FileOK /\ OneSession
  BY DEF WriteOut, RecoverInv
<1>2. TrusteesKeep
  BY <1>1, NothingKeeps
<1>3. CASE out
  BY <1>1, <1>2, <1>3, RunEnds DEF WriteOut, FileOK
<1>4. CASE ~out
  <2>1. client' = [client EXCEPT !.stage = "written"]
    BY <1>4 DEF WriteOut
  <2>2. /\ client' \in Clients /\ client'.stage = "written" /\ client'.id = client.id
        /\ client'.live = client.live /\ client'.envelopes = client.envelopes
        /\ client'.current = client.current
    BY <1>1, <2>1 DEF ClientOK, Clients, Stages
  <2>3. SessionsOK' /\ RowsOK' /\ FileOK' /\ OneSession'
    BY <1>1 DEF SessionsOK, RowsOK, FileOK, OneSession, trusteeVars
  <2>4. ClientOK'
    BY <1>1, <2>2 DEF ClientOK, Enough, trusteeVars
  <2>5. SharesWereReleased'
    <3>1. client.id \in Ids /\ Enough /\ client.envelopes \subseteq Trustees
      BY <1>1 DEF ClientOK, SessionsOK, Clients
    <3>2. client.envelopes \X {client.id} \subseteq given /\ file.contributions \X {file.id} \subseteq given
      BY DEF RecoverInv, SharesWereReleased
    <3> DEFINE released == {t \in Trustees : <<t, client.id>> \in given}
    <3>3. client.envelopes \subseteq released /\ IsFiniteSet(released)
      BY <3>1, <3>2, RecoverAssumption, FS_Subset
    <3>4. /\ IsFiniteSet(client.envelopes)
          /\ Cardinality(client.envelopes) <= Cardinality(released)
      BY <3>3, FS_Subset
    <3>5. Cardinality(released) \in Nat /\ Cardinality(client.envelopes) \in Nat /\ Threshold \in Int
      BY <3>3, <3>4, FS_CardinalityType, RecoverAssumption
    <3>6. Cardinality(released) >= Threshold
      BY <3>1, <3>4, <3>5 DEF Enough
    <3> QED
      BY <1>1, <2>2, <3>1, <3>2, <3>6 DEF SharesWereReleased, trusteeVars
  <2>6. DroppedForCause'
    BY <1>1, <2>2 DEF RecoverInv, DroppedForCause, Unwilling, TooLateToBegin, trusteeVars
  <2>7. CheckpointStep
    BY <1>1 DEF CheckpointStep, SessionsOK
  <2> QED
    BY <1>2, <2>3, <2>4, <2>5, <2>6, <2>7 DEF RecoverInv
<1> QED
  BY <1>3, <1>4

LEMMA UnlinkStep ==
    ASSUME RecoverInv, Unlink \/ Die PROVE RecoverInv' /\ TrusteesKeep /\ CheckpointStep
<1>1. UNCHANGED <<clock, made, out, sent, trusteeVars>> /\ client' = Idle
  BY DEF Unlink, Die
<1>2. file' = file \/ (file' = NoFile /\ out)
  BY DEF Unlink, Die, RecoverInv, ClientOK
<1> QED
  BY <1>1, <1>2, RunEnds, NothingKeeps

\* A step of somebody else: the client is as it was.
LEMMA OthersStep ==
    ASSUME RecoverInv, TrusteesKeep, RowsOK', UNCHANGED <<clock, made, file, out, client>>
    PROVE  RecoverInv' /\ CheckpointStep
<1>1. /\ client \in Clients /\ file \in Files /\ clock \in Nat
      /\ client.stage \in {"restoring", "written"} => Enough
      /\ client.stage = "written" => out
      /\ client.envelopes \X {client.id} \subseteq given
      /\ file.contributions \X {file.id} \subseteq given
      /\ \A r \in client.current : client.id \in DOMAIN admitted[r]
  BY DEF RecoverInv, ClientOK, FileOK, SharesWereReleased, SessionsOK
<1>2. /\ client'.envelopes \X {client.id} \subseteq given'
      /\ file'.contributions \X {file.id} \subseteq given'
      /\ \A r \in client'.current : client.id \in DOMAIN admitted'[r]
  BY <1>1 DEF TrusteesKeep, Clients
<1>3. client'.stage \in {"restoring", "written"} => Enough'
  BY <1>1 DEF Enough
<1> QED
  BY <1>1, <1>2, <1>3, SessionGoesOn

LEMMA LateBeginStep ==
    ASSUME RecoverInv, NEW t \in Trustees, NEW id \in Ids, LateBegin(t, id)
    PROVE  RecoverInv' /\ TrusteesKeep /\ CheckpointStep
<1>1. ServeBegin(t, id) /\ UNCHANGED <<clock, made, file, out, client, sent>>
  BY DEF LateBegin
<1>2. id \in DOMAIN made /\ sent' \in SUBSET (Trustees \X DOMAIN made)
  BY <1>1 DEF LateBegin, RecoverInv, RowsOK
<1>3. TrusteesKeep /\ RowsOK'
  BY <1>1, <1>2, BeginKeeps
<1> QED
  BY <1>1, <1>3, OthersStep

LEMMA HolderStep ==
    ASSUME RecoverInv, NEW t \in Trustees,
           EndCustody(t) \/ \E id \in Ids : Veto(t, id)
    PROVE  RecoverInv' /\ TrusteesKeep /\ CheckpointStep
<1>1. UNCHANGED <<clock, made, file, out, client, sent>>
  BY DEF EndCustody, Veto
<1>2. TrusteesKeep /\ RowsOK'
  <2>1. CASE EndCustody(t)
    <3>1. ended \subseteq ended' /\ UNCHANGED <<admitted, spent, given>>
      BY <2>1 DEF EndCustody
    <3>2. \A s \in Trustees : DOMAIN admitted'[s] \ DOMAIN admitted[s] = {}
      BY <3>1
    <3>3. \A s \in Trustees : spent'[s] - spent[s] = 0 /\ spent'[s] >= spent[s]
      BY <3>1, SessionTimes
    <3> QED
      BY <1>1, <3>1, <3>2, <3>3, FS_EmptySet DEF TrusteesKeep, RecoverInv, RowsOK
  <2>2. ASSUME NEW id \in Ids, Veto(t, id) PROVE TrusteesKeep /\ RowsOK'
    <3>1. /\ id \in DOMAIN admitted[t]
          /\ admitted' = [admitted EXCEPT ![t][id].status = "vetoed"]
          /\ UNCHANGED <<ended, spent, given>>
      BY <2>2 DEF Veto
    <3>2. sent' \in SUBSET (Trustees \X DOMAIN made)
      BY <1>1 DEF RecoverInv, RowsOK
    <3> QED
      BY <1>1, <3>1, <3>2, StatusKeeps
  <2> QED
    BY <2>1, <2>2
<1> QED
  BY <1>1, <1>2, OthersStep

LEMMA TickStep ==
    ASSUME RecoverInv, Tick PROVE RecoverInv' /\ TrusteesKeep /\ CheckpointStep
<1>1. /\ clock' = clock + 1
      /\ client' = [client EXCEPT !.rest = IF @ > 0 THEN @ - 1 ELSE 0]
      /\ UNCHANGED <<made, file, out, sent, trusteeVars>>
      /\ client \in Clients /\ file \in Files /\ clock \in Nat
      /\ client.stage = "off" => client = Idle
      /\ client.stage \in {"restoring", "written"} => Enough
      /\ client.stage = "written" => out
      /\ client.envelopes \X {client.id} \subseteq given
      /\ file.contributions \X {file.id} \subseteq given
      /\ \A r \in client.current : client.id \in DOMAIN admitted[r]
  BY DEF Tick, RecoverInv, ClientOK, FileOK, SharesWereReleased, SessionsOK
<1>2. TrusteesKeep /\ RowsOK'
  BY <1>1, NothingKeeps DEF RecoverInv, RowsOK, trusteeVars
<1>3. /\ client' \in Clients /\ client'.id = client.id /\ client'.stage = client.stage
      /\ client'.live = client.live /\ client'.envelopes = client.envelopes
      /\ client'.current = client.current
      /\ client.stage = "off" => client' = client
  BY <1>1 DEF Clients, Idle
<1>4. /\ client'.envelopes \X {client.id} \subseteq given'
      /\ \A r \in client'.current : client.id \in DOMAIN admitted'[r]
      /\ client'.stage \in {"restoring", "written"} => Enough'
      /\ file'.contributions \X {file.id} \subseteq given'
  BY <1>1, <1>3 DEF trusteeVars, Enough
<1> QED
  BY <1>1, <1>2, <1>3, <1>4, SessionGoesOn

LEMMA RecoverStep ==
    ASSUME RecoverInv, Next PROVE RecoverInv' /\ TrusteesKeep /\ CheckpointStep
<1>1. CASE Start \/ Resume
  BY <1>1, StartStep, ResumeStep
<1>2. CASE Advance
  BY <1>2, BeginAtStep, ReadAtStep, MisansweredStep, SaveStep, EndRoundStep, WriteOutStep, UnlinkStep
     DEF Advance
<1>3. CASE Die \/ Tick
  BY <1>3, UnlinkStep, TickStep
<1>4. CASE \E t \in Trustees : EndCustody(t) \/ \E id \in Ids : LateBegin(t, id) \/ Veto(t, id)
  BY <1>4, HolderStep, LateBeginStep
<1> QED
  BY <1>1, <1>2, <1>3, <1>4 DEF Next

LEMMA RecoverInvariant == Spec => []RecoverInv
<1>1. RecoverInv /\ UNCHANGED vars => RecoverInv'
  <2> SUFFICES ASSUME RecoverInv, UNCHANGED vars PROVE RecoverInv'
    OBVIOUS
  <2>1. UNCHANGED <<clock, made, file, out, client, sent, trusteeVars>>
    BY DEF vars, trusteeVars
  <2>2. TrusteesKeep /\ RowsOK'
    BY <2>1, NothingKeeps DEF RecoverInv, RowsOK, trusteeVars
  <2> QED
    BY <2>1, <2>2, OthersStep
<1> QED
  BY <1>1, InitRecoverInv, RecoverStep, PTL DEF Spec

-----------------------------------------------------------------------------
(* The theorems.                                                               *)

\* What the client counts as a share was released by that trustee for that very
\* session, and the artifact is only recovered from t of them (recover).
THEOREM SharesAreReleased == Spec => []SharesWereReleased
<1>1. RecoverInv => SharesWereReleased
  BY DEF RecoverInv
<1> QED
  BY <1>1, RecoverInvariant, PTL

\* The client drops a trustee only for cause: no sequence of unanswered calls,
\* kills and resumes loses one that has admitted the session (poll, transient).
THEOREM NobodyIsDroppedWithoutCause == Spec => []DroppedForCause
<1>1. RecoverInv => DroppedForCause
  BY DEF RecoverInv
<1> QED
  BY <1>1, RecoverInvariant, PTL

\* However the client is killed and run again, a saved session keeps its
\* contributions until it has expired or the artifact is recovered, and until
\* then no other is made (recover_command).
THEOREM CheckpointsAreKept == Spec => CheckpointKept
<1>1. RecoverInv /\ [Next]_vars => [CheckpointStep]_vars
  BY RecoverStep
<1> QED
  BY <1>1, RecoverInvariant, PTL DEF Spec, CheckpointKept

\* Begins that are resent, duplicated or late spend one attempt per session and
\* never restart its cooldown (begin_recovery; recover).
THEOREM RetriesAreFree == Spec => RetriesSpendNothing
<1>1. TrusteesKeep => BeginStep
  BY DEF TrusteesKeep, BeginStep
<1>2. RecoverInv /\ [Next]_vars => [BeginStep]_vars
  BY <1>1, RecoverStep
<1> QED
  BY <1>2, RecoverInvariant, PTL DEF Spec, RetriesSpendNothing
=============================================================================
