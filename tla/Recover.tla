------------------------------ MODULE Recover -------------------------------
(* The recovering device of the reference client, src/tools/client.py          *)
(* (Candidate, recover, recover_command), against its trustees.  A trustee is  *)
(* what a candidate sees of one: the sessions it has admitted and their        *)
(* status, decided by Admit and Release of module State.  Each policy is the   *)
(* same at every trustee, as the client enrolls it.                            *)
(*                                                                             *)
(* A call may go unanswered: the request is lost, delivered late, delivered    *)
(* more than once, or the reply is lost.  The client may die between any two   *)
(* steps and be run again; its session file survives.                          *)
EXTENDS Margins, Sequences, FiniteSets

CONSTANTS
    Trustees,      \* the n trustees of the recovery map
    Threshold,     \* t
    WrongFactor,   \* trustees whose enrolled factor is not in the factors file
    Faulty,        \* trustees whose answers may fail to verify
    Steady,        \* trustees that answer every call
    Cooldown,
    Lifetime,
    Attempts,
    EnrollmentEnd, \* the policy's expiresAt
    Interval,      \* sleep between two rounds
    Timeout,       \* longest an unanswered call takes
    Prompt,        \* answered calls take no time worth counting
    Perils,        \* which of "die", "veto" and "end" may happen
    MaxSessions,   \* bound: sessions ever created
    MaxTime        \* bound: the clock runs to MaxTime

ASSUME RecoverAssumption ==
    /\ IsFiniteSet(Trustees)
    /\ Threshold \in 1..Cardinality(Trustees)
    /\ WrongFactor \cup Faulty \cup Steady \subseteq Trustees
    /\ {Cooldown, Lifetime, Attempts, EnrollmentEnd, MaxTime} \subseteq Nat
    /\ {Interval, Timeout, MaxSessions} \subseteq Nat
    /\ Cooldown < Lifetime
    /\ MaxTime >= EnrollmentEnd + Interval - 1   \* the clock outlives every session

Ids == 1..MaxSessions
NoFile == [id |-> 0, contributions |-> {}]

VARIABLES
    clock,     \* the client's and the trustees' clock
    made,      \* the sessions created so far; a session's id is its place
    file,      \* the session file: [id, contributions], or NoFile
    out,       \* the recovered artifact is written
    client,    \* the running client, or Idle
    sent,      \* begin requests sent, <<trustee, id>>: each may still arrive
    ended,     \* trustees where the holder ended custody
    admitted,  \* trustee -> id -> session row, for the ids it has admitted
    spent,     \* trustee -> attempts spent
    given      \* history: <<trustee, id>> whose contribution was released

vars == <<clock, made, file, out, client, sent, ended, admitted, spent, given>>
trusteeVars == <<ended, admitted, spent, given>>

Idle == [stage |-> "off", id |-> 0, envelopes |-> {}, live |-> {}, current |-> {},
         todo |-> {}, rest |-> 0]

Init ==
    /\ clock = 0
    /\ made = <<>>
    /\ file = NoFile
    /\ out = FALSE
    /\ client = Idle
    /\ sent = {}
    /\ ended = {}
    /\ admitted = [t \in Trustees |-> [i \in {} |-> 0]]
    /\ spent = [t \in Trustees |-> 0]
    /\ given = {}

(* ----------------------------- the trustees ------------------------------ *)

EnrollmentAt(t) ==
    [status |-> IF t \in ended THEN "closed" ELSE "accepted", sequence |-> 1,
     expiresAt |-> EnrollmentEnd]

Policy == [cooldown |-> Cooldown, lifetime |-> Lifetime, attempts |-> Attempts]

MutBeginVerdict(t, id) ==
    Admit(EnrollmentAt(t), Policy, spent[t], made[id], clock, Skew)

\* What begin-recovery answers: "recorded", "ok" or a code (Store's BeginAnswer,
\* for a session that verifies and binds).
BeginVerdict(t, id) ==
    IF id \in DOMAIN admitted[t] THEN "recorded"
    ELSE Admit(EnrollmentAt(t), Policy, spent[t], made[id], clock, Skew)

\* The session row and the attempt that a begin adds (Store's BeginRecovery).
ServeBegin(t, id) ==
    IF BeginVerdict(t, id) = "ok"
    THEN /\ admitted' = [admitted EXCEPT ![t] = [i \in DOMAIN @ \cup {id} |->
                IF i # id THEN @[i]
                ELSE [status         |-> IF t \in WrongFactor THEN "refused" ELSE "cooling_down",
                      sequence       |-> 1,
                      cooldownEndsAt |-> CooldownEndsAt(Policy, made[id], clock),
                      expiresAt      |-> made[id].expiresAt]]]
         /\ spent' = [spent EXCEPT ![t] = @ + 1]
         /\ UNCHANGED <<ended, given>>
    ELSE UNCHANGED trusteeVars

ReadVerdict(t, id) == Release(EnrollmentAt(t), admitted[t][id], clock, 0)

\* read-recovery: the first read the predicate allows persists the contribution.
ServeRead(t, id) ==
    IF ReadVerdict(t, id) \in {"emit", "resend"}
    THEN /\ admitted' = [admitted EXCEPT ![t][id].status = "released"]
         /\ given' = given \cup {<<t, id>>}
         /\ UNCHANGED <<ended, spent>>
    ELSE UNCHANGED trusteeVars

\* A begin the client gave up on arrives after all, or again.
LateBegin(t, id) ==
    /\ <<t, id>> \in sent
    /\ BeginVerdict(t, id) = "ok"
    /\ ServeBegin(t, id)
    /\ UNCHANGED <<clock, made, file, out, client, sent>>

\* The holder vetoes a live session, or ends custody at one trustee.
Veto(t, id) ==
    /\ "veto" \in Perils
    /\ id \in DOMAIN admitted[t]
    /\ admitted[t][id].status \in {"cooling_down", "released"}
    /\ clock < admitted[t][id].expiresAt
    /\ admitted' = [admitted EXCEPT ![t][id].status = "vetoed"]
    /\ UNCHANGED <<clock, made, file, out, client, sent, ended, spent, given>>

EndCustody(t) ==
    /\ "end" \in Perils
    /\ t \notin ended
    /\ ended' = ended \cup {t}
    /\ UNCHANGED <<clock, made, file, out, client, sent, admitted, spent, given>>

(* --------------------------- starting a client --------------------------- *)

\* A session's times, as new_session computes them.
SessionFrom(now) == NewSession(Cooldown, Lifetime, EnrollmentEnd, now)

Running(id, envelopes) ==
    [Idle EXCEPT !.stage = "round", !.id = id, !.envelopes = envelopes, !.live = Trustees,
                 !.todo = Trustees]

\* `recover_command` with no session file: create a session and save it before
\* the first request.
Start ==
    /\ client.stage = "off"
    /\ file = NoFile
    /\ Len(made) < MaxSessions
    /\ OutlastsCooldown(Cooldown, Lifetime, EnrollmentEnd, clock)
    /\ made' = Append(made, SessionFrom(clock))
    /\ file' = [id |-> Len(made'), contributions |-> {}]
    /\ client' = Running(Len(made'), {})
    /\ UNCHANGED <<clock, out, sent, trusteeVars>>

Expired(id) == clock >= made[id].expiresAt

MutUnlinkOnFailure(id) == NoFile

\* "An expired session is of no further use; anything else may resume."
UnlinkOnFailure(id) == IF Expired(id) THEN NoFile ELSE file

\* `recover` raised ValueError.
Fail ==
    /\ client' = Idle
    /\ file' = UnlinkOnFailure(client.id)

\* `recover_command` with a session file: resume with its contributions, each
\* verified again.  One that has expired raises.
Resume ==
    /\ client.stage = "off"
    /\ file # NoFile
    /\ IF Expired(file.id) /\ file.contributions # {}
       THEN file' = NoFile /\ UNCHANGED client
       ELSE client' = Running(file.id, file.contributions) /\ UNCHANGED file
    /\ UNCHANGED <<clock, made, out, sent, trusteeVars>>

(* ------------------------------- a round --------------------------------- *)

MutEnough == Cardinality(client.envelopes) + 1 >= Threshold

Enough == Cardinality(client.envelopes) >= Threshold

\* The trustees this round still has to poll.
Pending == IF Enough THEN {} ELSE client.todo \ client.envelopes

Skipped(t) == client' = [client EXCEPT !.todo = @ \ {t}]

\* "dropped": a refusal, or an answer that does not verify.
Drop(t) == client' = [client EXCEPT !.todo = @ \ {t}, !.live = @ \ {t}]

MutUnanswered(t) == t \notin Steady /\ Drop(t) /\ UNCHANGED clock

\* "unavailable; retrying": no answer within the timeout.
Unanswered(t) ==
    /\ t \notin Steady
    /\ Skipped(t)
    /\ \E d \in 0..Timeout : clock' = clock + d /\ clock' <= MaxTime

\* `poll`, first half: the manifest again, then begin.  A retried begin resends
\* the same bytes.
BeginAt(t) ==
    /\ client.stage = "round" /\ t \in Pending /\ t \notin client.current
    /\ sent' = sent \cup {<<t, client.id>>}
    /\ \/ Unanswered(t) /\ UNCHANGED trusteeVars
       \/ /\ ServeBegin(t, client.id)
          /\ IF /\ BeginVerdict(t, client.id) \in {"ok", "recorded"}
                /\ admitted'[t][client.id].status # "refused"
             THEN client' = [client EXCEPT !.current = @ \cup {t}]
             ELSE Drop(t)
          /\ UNCHANGED clock
    /\ UNCHANGED <<made, file, out>>

MutKeepsPolling(verdict) == FALSE

\* A receipt without a contribution that is no reason to drop a trustee.
KeepsPolling(verdict) == verdict = "recovery_cooling_down"

\* `poll`, second half: read, and keep the envelope once released.
ReadAt(t) ==
    /\ client.stage = "round" /\ t \in Pending /\ t \in client.current
    /\ \/ Unanswered(t) /\ (UNCHANGED trusteeVars \/ ServeRead(t, client.id))
       \/ /\ ServeRead(t, client.id)
          /\ CASE ReadVerdict(t, client.id) \in {"emit", "resend"} ->
                      client' = [client EXCEPT !.stage = "saving", !.todo = @ \ {t},
                                               !.envelopes = @ \cup {t}]
               [] KeepsPolling(ReadVerdict(t, client.id)) -> Skipped(t)
               [] OTHER -> Drop(t)
          /\ UNCHANGED clock
    /\ UNCHANGED <<made, file, out, sent>>

\* An answer that does not verify.
Misanswered(t) ==
    /\ client.stage = "round" /\ t \in Pending /\ t \in Faulty
    /\ Drop(t)
    /\ UNCHANGED <<clock, made, file, out, sent, trusteeVars>>

\* `state`: what was saved and what this run collected.
Saved(contributions) == contributions \cup client.envelopes

\* `save`: the file is replaced whole, after each new contribution.
Save ==
    /\ client.stage = "saving"
    /\ file' = [file EXCEPT !.contributions = Saved(@)]
    /\ client' = [client EXCEPT !.stage = "round"]
    /\ UNCHANGED <<clock, made, out, sent, trusteeVars>>

MutGiveUp(id) == Cardinality(client.live) < Threshold

\* Fewer than t trustees left, or the session is over.
GiveUp(id) == Cardinality(client.live) < Threshold \/ Expired(id)

\* The round is over: restore, give up, or sleep.
EndRound ==
    /\ client.stage = "round" /\ Pending = {}
    /\ IF Enough
       THEN client' = [client EXCEPT !.stage = "restoring"] /\ UNCHANGED file
       ELSE IF GiveUp(client.id) THEN Fail
       ELSE /\ client' = [client EXCEPT !.stage = "sleeping", !.rest = Interval]
            /\ UNCHANGED file
    /\ UNCHANGED <<clock, made, out, sent, trusteeVars>>

Wake ==
    /\ client.stage = "sleeping"
    /\ client.rest = 0
    /\ client' = [client EXCEPT !.stage = "round", !.todo = client.live]
    /\ UNCHANGED <<clock, made, file, out, sent, trusteeVars>>

\* `restore`, then the artifact to a file of its own: never over another, so a
\* run that finds one stops there.
WriteOut ==
    /\ client.stage = "restoring"
    /\ out' = TRUE
    /\ client' = IF out THEN Idle ELSE [client EXCEPT !.stage = "written"]
    /\ UNCHANGED <<clock, made, file, sent, trusteeVars>>

\* The session file goes last.
Unlink ==
    /\ client.stage = "written"
    /\ file' = NoFile
    /\ client' = Idle
    /\ UNCHANGED <<clock, made, out, sent, trusteeVars>>

\* Killed, or a local write failed.
Die ==
    /\ "die" \in Perils
    /\ client.stage # "off"
    /\ client' = Idle
    /\ UNCHANGED <<clock, made, file, out, sent, trusteeVars>>

\* Time passes, from the first run on; a sleeping client's sleep with it.
Tick ==
    /\ clock < MaxTime
    /\ made # <<>>
    /\ Prompt => client.stage = "off" \/ client.rest > 0
    /\ clock' = clock + 1
    /\ client' = [client EXCEPT !.rest = IF @ > 0 THEN @ - 1 ELSE 0]
    /\ UNCHANGED <<made, file, out, sent, trusteeVars>>

-----------------------------------------------------------------------------

\* What a running client does of its own accord.
Advance ==
    \/ \E t \in Trustees : BeginAt(t) \/ ReadAt(t) \/ Misanswered(t)
    \/ Save \/ EndRound \/ Wake \/ WriteOut \/ Unlink

Next ==
    \/ Start \/ Resume \/ Advance \/ Die \/ Tick
    \/ \E t \in Trustees : EndCustody(t) \/ \E id \in Ids : LateBegin(t, id) \/ Veto(t, id)

\* A running client is scheduled and time passes.  Nobody has to run it again,
\* and no trustee has to answer.
Spec == Init /\ [][Next]_vars /\ WF_vars(Advance) /\ WF_vars(Tick)

-----------------------------------------------------------------------------

CheckpointStep ==
    /\ file # NoFile /\ file' # file =>
          \/ file'.id = file.id /\ file.contributions \subseteq file'.contributions
          \/ file' = NoFile /\ (Expired(file.id) \/ out)
    /\ Len(made') > Len(made) => out \/ \A i \in DOMAIN made : Expired(i)

\* However the client is killed and run again, a saved session keeps its
\* contributions and is given up only once it has expired or the artifact is
\* recovered; until then no other session is made ("a restart resumes this
\* session instead of spending another attempt and restarting the cooldown",
\* recover_command).
CheckpointKept == [][CheckpointStep]_vars

BeginStep ==
    \A t \in Trustees :
        /\ spent'[t] - spent[t] = Cardinality(DOMAIN admitted'[t] \ DOMAIN admitted[t])
        /\ \A id \in DOMAIN admitted[t] :
              admitted'[t][id].cooldownEndsAt = admitted[t][id].cooldownEndsAt

\* Begins that are resent, duplicated or late spend one attempt per session and
\* never restart its cooldown (begin_recovery; "Idempotent: a resumed or retried
\* begin resends the same bytes", recover).
RetriesSpendNothing == [][BeginStep]_vars

\* What the client counts as a share, in memory or in its file, was released by
\* that trustee for that very session; and the artifact is only ever recovered
\* from t of them (recover's loop, across kills and resumes).
SharesWereReleased ==
    /\ client.envelopes \X {client.id} \subseteq given
    /\ file.contributions \X {file.id} \subseteq given
    /\ out => \E id \in Ids : Cardinality({t \in Trustees : <<t, id>> \in given}) >= Threshold

\* A reason a trustee has, by what the holder, the client's factors or the
\* expiries did, not to serve this session.
Unwilling(t, id) ==
    \/ t \in ended \cup WrongFactor \cup Faulty
    \/ clock >= made[id].expiresAt
    \/ IF id \in DOMAIN admitted[t] THEN admitted[t][id].status = "vetoed"
       ELSE spent[t] >= Attempts

\* The session's requestedAt is out of the skew, or too little of it is left.
TooLateToBegin(t, id) ==
    /\ id \notin DOMAIN admitted[t]
    /\ \/ clock > made[id].requestedAt + Skew
       \/ clock + Cooldown >= made[id].expiresAt

\* The client drops a trustee only for cause: the trustee will not serve the
\* session, or was not begun at in time.  No sequence of unanswered calls, kills
\* and resumes loses one that has admitted the session (poll, transient).
DroppedForCause ==
    client.stage # "off" =>
        \A t \in Trustees \ client.live :
            Unwilling(t, client.id) \/ TooLateToBegin(t, client.id)

\* What the README claims: "a recovery that completes with any t reachable
\* trustees and resumes after a restart".  A run that gives up a live session has
\* fewer than t trustees willing to serve it.
GivesUpOnlyWithoutThreshold ==
    (client.stage = "round" /\ Pending = {} /\ ~Enough /\ GiveUp(client.id)) =>
        Cardinality({t \in Trustees : ~Unwilling(t, client.id)}) < Threshold

\* The recovery loop ends, whatever trustees do not answer: with the artifact,
\* with too few trustees, or at expiry ("Stops with t shares, or when fewer than
\* t trustees remain or the session expires", recover).
RecoveryEnds == client.stage # "off" ~> client.stage = "off"

\* With t trustees that answer, and calls short against the clock skew and the
\* session, a recovery completes although the others never answer, refuse or do not
\* verify, unless the holder ends custody (recover: "each trustee on its own").
\* The session is one the enrollment's end did not cut short.
ThresholdSuffices ==
    (client.stage = "round" /\ made[client.id].expiresAt < EnrollmentEnd)
        ~> out \/ ended # {}
=============================================================================
