---------------------------- MODULE ClientProofs ----------------------------
(* What the reference client relies on, proved for any number of trustees, any *)
(* period and any policy: its key files against the custody it asks for        *)
(* (EnrollClient), the age of the manifests it reads (Manifest), the times of  *)
(* the sessions it makes (MCMargins).                                          *)
EXTENDS EnrollClient, Manifest, MCMargins, TLAPS

-----------------------------------------------------------------------------
(* Enrolling at N trustees.                                                    *)

Stages == {"keys", "challenge", "enroll", "closing", "map",
           "enrolled", "closed again", "map not saved", "dead"}

ClientTypeOK ==
    /\ stage \in Stages
    /\ slot \in Slots
    /\ disk \in SUBSET (KeyFiles \cup MapFiles)
    /\ custody \in [Slots -> {"none", "live", "closed"}]
    /\ enrolls \in SUBSET Slots
    /\ closes \in SUBSET Slots
    /\ report \in [Slots -> {"none", "closed", "not closed"}]

\* Past the first stage both key files are there; a client that died may have
\* died before, but then it had asked nobody.
KeysFirst ==
    /\ stage \notin {"keys", "dead"} => KeyFiles \subseteq disk
    /\ enrolls # {} => KeyFiles \subseteq disk

\* Custody comes from an enroll that was sent, its end from a close that was, and
\* a receipt for a close from custody that has ended.
CustodyHasCause ==
    \A s \in Slots :
        /\ custody[s] # "none" => s \in enrolls
        /\ custody[s] = "closed" => s \in closes
        /\ report[s] = "closed" => custody[s] = "closed"

\* Each loop has dealt with the slots below the current one, and a loop that has
\* ended with all of them.
Handled(s) == custody[s] = "live" \/ s \in closes

LoopsInOrder ==
    /\ stage = "keys" => slot = 1
    /\ stage \in {"challenge", "enroll"} => \A s \in Slots : s < slot => Handled(s)
    /\ stage \in {"map", "enrolled", "map not saved"} => \A s \in Slots : Handled(s)
    /\ stage = "closing" => \A s \in Slots : s < slot => report[s] # "none"
    /\ stage = "closed again" => \A s \in Slots : report[s] # "none"

ClientInv ==
    /\ ClientTypeOK
    /\ KeysFirst
    /\ CustodyHasCause
    /\ LoopsInOrder
    /\ stage = "enrolled" => MapFiles \subseteq disk

\* The slots, in the order of the loops.
LEMMA SlotOrder ==
    /\ 1 \in Slots /\ N \in Slots
    /\ \A s \in Slots : ~(s < 1) /\ (s # N => s + 1 \in Slots)
    /\ \A s, t \in Slots : s < t + 1 => s < t \/ s = t
    /\ \A s \in Slots : s < N \/ s = N
BY EnrollClientAssumption DEF Slots

LEMMA InitClientInv == Init => ClientInv
BY SlotOrder
   DEF Init, ClientInv, ClientTypeOK, Stages, KeysFirst, CustodyHasCause, LoopsInOrder

\* A close, whoever makes it, records itself, and reports "closed" only of custody
\* that it found live or already closed.
LEMMA CloseStep ==
    ASSUME ClientInv, NEW s \in Slots, NEW answered \in BOOLEAN, Close(s, answered),
           UNCHANGED <<disk, enrolls>>
    PROVE  /\ custody' \in [Slots -> {"none", "live", "closed"}]
           /\ closes' \in SUBSET Slots
           /\ report' \in [Slots -> {"none", "closed", "not closed"}]
           /\ report'[s] # "none"
           /\ \A r \in Slots : report[r] # "none" => report'[r] # "none"
           /\ \A r \in Slots : Handled(r) => Handled(r)'
           /\ CustodyHasCause'
<1> USE DEF ClientInv, ClientTypeOK
<1>1. /\ custody' \in [Slots -> {"none", "live", "closed"}]
      /\ closes' = closes \cup {s}
      /\ report' \in [Slots -> {"none", "closed", "not closed"}]
      /\ report'[s] \in {"closed", "not closed"}
      /\ \A r \in Slots \ {s} : custody'[r] = custody[r] /\ report'[r] = report[r]
  BY DEF Close, ServeClose
<1>2. custody'[s] = custody[s] \/ (custody[s] = "live" /\ custody'[s] = "closed")
  BY DEF Close, ServeClose
<1>3. report'[s] = "closed" => custody'[s] = "closed"
  BY DEF Close, ServeClose, ClosedReceipt
<1>4. CustodyHasCause'
  BY <1>1, <1>2, <1>3 DEF CustodyHasCause
<1>5. \A r \in Slots : Handled(r) => Handled(r)'
  BY <1>1, <1>2 DEF Handled
<1> QED
  BY <1>1, <1>4, <1>5

LEMMA NextClientInv == ClientInv /\ [Next]_vars => ClientInv'
<1> SUFFICES ASSUME ClientInv, [Next]_vars PROVE ClientInv'
  OBVIOUS
<1> USE DEF ClientInv, ClientTypeOK
<1> USE DEF KeysFirst
<1>1. ASSUME NEW f \in KeyFiles, WriteKeys(f) PROVE ClientInv'
  <2> USE <1>1 DEF WriteKeys
  <2>1. ClientTypeOK' /\ KeysFirst'
    BY DEF Stages
  <2>2. CustodyHasCause'
    BY DEF CustodyHasCause
  <2>3. LoopsInOrder'
    BY SlotOrder DEF LoopsInOrder, Handled
  <2> QED
    BY <2>1, <2>2, <2>3
<1>2. ASSUME RedeemInvitation PROVE ClientInv'
  <2> USE <1>2 DEF RedeemInvitation, CloseAll
  <2>1. ClientTypeOK' /\ KeysFirst'
    BY SlotOrder DEF Stages
  <2>2. CustodyHasCause'
    BY DEF CustodyHasCause
  <2>3. LoopsInOrder'
    BY SlotOrder DEF LoopsInOrder, Handled
  <2> QED
    BY <2>1, <2>2, <2>3
<1>3. ASSUME SendEnroll PROVE ClientInv'
  <2> USE <1>3 DEF SendEnroll
  <2>1. /\ stage = "enroll"
        /\ UNCHANGED <<disk, closes, report>>
        /\ CloseAll \/ (NextSlot /\ ServeEnroll(slot))
        /\ enrolls' \in {enrolls, enrolls \cup {slot}}
        /\ custody' = custody \/ (ServeEnroll(slot) /\ slot \in enrolls')
    BY DEF ServeEnroll, NextSlot, CloseAll
  <2> USE <2>1
  <2>2. stage' \in Stages /\ slot' \in Slots /\ stage' \notin {"keys", "dead", "enrolled"}
    BY SlotOrder DEF CloseAll, NextSlot, Stages
  <2>3. /\ custody' \in [Slots -> {"none", "live", "closed"}]
        /\ \A s \in Slots : custody'[s] = custody[s] \/
               (s = slot /\ slot \in enrolls' /\ custody[s] = "none" /\ custody'[s] = "live")
    BY DEF ServeEnroll
  <2>4. enrolls' \in SUBSET Slots /\ enrolls \subseteq enrolls'
    OBVIOUS
  <2>5. KeysFirst'
    OBVIOUS
  <2>6. CustodyHasCause'
    BY <2>3, <2>4 DEF CustodyHasCause
  <2>7. LoopsInOrder'
    <3>1. \A s \in Slots : Handled(s) => Handled(s)'
      BY <2>3 DEF Handled
    <3>2. CASE CloseAll
      BY <3>2, SlotOrder DEF CloseAll, LoopsInOrder
    <3>3. CASE NextSlot /\ ServeEnroll(slot)
      <4>1. \A s \in Slots : s = slot => Handled(s)'
        BY <3>3 DEF ServeEnroll, Handled, CustodyHasCause
      <4>2. \A s \in Slots : s < slot => Handled(s)'
        BY <3>1 DEF LoopsInOrder
      <4>3. CASE slot = N /\ stage' = "map"
        <5>1. \A s \in Slots : Handled(s)'
          BY <4>1, <4>2, <4>3, SlotOrder
        <5> QED
          BY <4>3, <5>1 DEF LoopsInOrder, Handled
      <4>4. CASE stage' = "challenge" /\ slot' = slot + 1
        <5>1. \A s \in Slots : s < slot' => Handled(s)'
          BY <4>1, <4>2, <4>4, SlotOrder
        <5> QED
          BY <4>4, <5>1 DEF LoopsInOrder, Handled
      <4> QED
        BY <3>3, <4>3, <4>4 DEF NextSlot
    <3> QED
      BY <3>2, <3>3
  <2> QED
    BY <2>2, <2>3, <2>4, <2>5, <2>6, <2>7
<1>4. ASSUME CloseSlot PROVE ClientInv'
  <2> USE <1>4
  <2>1. PICK answered \in BOOLEAN : Close(slot, answered)
    BY DEF CloseSlot
  <2>2. stage = "closing" /\ UNCHANGED <<disk, enrolls>>
    BY DEF CloseSlot
  <2>3. /\ custody' \in [Slots -> {"none", "live", "closed"}]
        /\ closes' \in SUBSET Slots
        /\ report' \in [Slots -> {"none", "closed", "not closed"}]
        /\ report'[slot] # "none"
        /\ \A r \in Slots : report[r] # "none" => report'[r] # "none"
        /\ CustodyHasCause'
    BY <2>1, <2>2, CloseStep
  <2>4. \/ slot = N /\ stage' = "closed again" /\ slot' = slot
        \/ slot # N /\ stage' = "closing" /\ slot' = slot + 1
    BY <2>2 DEF CloseSlot, AfterClose
  <2>5. stage' \in Stages /\ slot' \in Slots
    BY <2>4, SlotOrder DEF Stages
  <2>6. \A s \in Slots : s < slot => report[s] # "none"
    BY <2>2 DEF LoopsInOrder
  <2>7. \A s \in Slots : s < slot \/ s = slot \/ (slot # N /\ ~(s < slot + 1))
    BY SlotOrder
  <2>8. LoopsInOrder'
    BY <2>2, <2>3, <2>4, <2>6, <2>7 DEF LoopsInOrder
  <2> QED
    BY <2>2, <2>3, <2>4, <2>5, <2>8
<1>5. ASSUME NEW f \in MapFiles, WriteMap(f) PROVE ClientInv'
  <2> USE <1>5 DEF WriteMap
  <2>1. ClientTypeOK' /\ KeysFirst' /\ (stage' = "enrolled" => MapFiles \subseteq disk')
    BY DEF Stages
  <2>2. CustodyHasCause'
    BY DEF CustodyHasCause
  <2>3. LoopsInOrder'
    BY SlotOrder DEF LoopsInOrder, Handled
  <2> QED
    BY <2>1, <2>2, <2>3
<1>6. ASSUME Die PROVE ClientInv'
  BY <1>6 DEF Die, Ended, Stages, CustodyHasCause, LoopsInOrder
<1>7. ASSUME NEW s \in Slots, Late(s) PROVE ClientInv'
  <2> USE <1>7 DEF Late
  <2>1. /\ custody' \in [Slots -> {"none", "live", "closed"}]
        /\ \A r \in Slots \ {s} : custody'[r] = custody[r]
        /\ \/ custody'[s] = custody[s]
           \/ s \in enrolls /\ custody[s] = "none" /\ custody'[s] = "live"
           \/ s \in closes /\ custody[s] = "live" /\ custody'[s] = "closed"
    BY DEF ServeEnroll, ServeClose
  <2>2. CustodyHasCause'
    BY <2>1 DEF CustodyHasCause
  <2>3. \A r \in Slots : Handled(r) => Handled(r)'
    BY <2>1 DEF Handled
  <2>4. LoopsInOrder'
    BY <2>3 DEF LoopsInOrder
  <2> QED
    BY <2>1, <2>2, <2>4
<1>8. ASSUME NEW s \in Slots, NEW answered \in BOOLEAN, CloseLater(s, answered) PROVE ClientInv'
  <2> USE <1>8
  <2>1. Close(s, answered) /\ Ended /\ UNCHANGED <<stage, slot, disk, enrolls>>
    BY DEF CloseLater
  <2> QED
    BY <2>1, CloseStep DEF LoopsInOrder, Ended
<1>9. ASSUME UNCHANGED vars PROVE ClientInv'
  BY <1>9 DEF vars, KeysFirst, CustodyHasCause, LoopsInOrder, Handled
<1> QED
  BY <1>1, <1>2, <1>3, <1>4, <1>5, <1>6, <1>7, <1>8, <1>9 DEF Next, Advance

LEMMA ClientInvariant == Spec => []ClientInv
BY InitClientInv, NextClientInv, PTL DEF Spec

\* No invitation is redeemed, no enroll sent and no custody taken before both key
\* files are on disk, whenever the client is killed (enroll_to).
THEOREM KeysComeFirst == Spec => []KeysBeforeContact
<1>1. ClientInv => KeysBeforeContact
  BY DEF ClientInv, KeysFirst, CustodyHasCause, KeysBeforeContact
<1> QED
  BY <1>1, ClientInvariant, PTL

\* A slot reported closed holds no custody, and after a failed enrollment every
\* slot has been reported (Holder.each).
THEOREM CustodyIsReported == Spec => []NoSilentCustody
<1>1. ClientInv => NoSilentCustody
  BY DEF ClientInv, CustodyHasCause, LoopsInOrder, NoSilentCustody
<1> QED
  BY <1>1, ClientInvariant, PTL

\* enroll_to returns with every slot in custody, or closed by the holder since,
\* and with all four files written (enroll_to).
THEOREM EnrollmentIsComplete == Spec => []EnrolledEverywhere
<1>1. ClientInv => EnrolledEverywhere
  BY DEF ClientInv, ClientTypeOK, KeysFirst, LoopsInOrder, Handled, EnrolledEverywhere
<1> QED
  BY <1>1, ClientInvariant, PTL

-----------------------------------------------------------------------------
(* The manifest a trustee serves.                                              *)

\* The grid: a time lies in the period it is divided into, and grid points are
\* in the order of their periods.
LEMMA Grid ==
    /\ \A t \in Int : /\ t \div Period \in Int
                      /\ (t \div Period) * Period <= t
                      /\ t < (t \div Period + 1) * Period
    /\ \A m, n \in Int : m * Period < n * Period <=> m < n
<1>1. ASSUME NEW t \in Int
      PROVE  /\ t \div Period \in Int
             /\ (t \div Period) * Period <= t
             /\ t < (t \div Period + 1) * Period
  BY ManifestAssumption
<1>2. ASSUME NEW m \in Int, NEW n \in Int
      PROVE  m * Period < n * Period <=> m < n
  BY ManifestAssumption
<1> QED
  BY <1>1, <1>2

\* Later times lie in the same period or in a later one.
LEMMA PeriodsInOrder ==
    ASSUME NEW s \in Int, NEW t \in Int, s <= t
    PROVE  s \div Period <= t \div Period
<1> DEFINE m == s \div Period
           n == t \div Period
<1>1. /\ m \in Int /\ n \in Int
      /\ m * Period <= s
      /\ t < (n + 1) * Period
  BY Grid
<1> HIDE DEF m, n
<1>2. m * Period \in Int /\ (n + 1) * Period \in Int
  BY <1>1, ManifestAssumption
<1>3. m * Period < (n + 1) * Period
  BY <1>1, <1>2
<1>4. m < n + 1
  BY <1>1, <1>3, Grid
<1> QED
  BY <1>1, <1>4 DEF m, n

\* What ValidUntil makes of a time: more than two periods after it, and a grid
\* point that grows with the period.
LEMMA ValidUntilOnGrid ==
    /\ \A t \in Int : ValidUntil(t) \in Int /\ ValidUntil(t) > t + 2 * Period
    /\ \A s, t \in Int : ValidUntil(s) < ValidUntil(t) <=> s \div Period < t \div Period
<1>1. ASSUME NEW t \in Int PROVE ValidUntil(t) \in Int /\ ValidUntil(t) > t + 2 * Period
  <2>1. PICK n \in Int : n = t \div Period
    BY Grid
  <2>2. t < (n + 1) * Period
    BY <2>1, Grid
  <2>3. (n + 3) * Period = (n + 1) * Period + 2 * Period
    BY <2>1, ManifestAssumption
  <2> QED
    BY <2>1, <2>2, <2>3, ManifestAssumption DEF ValidUntil
<1>2. ASSUME NEW s \in Int, NEW t \in Int
      PROVE  ValidUntil(s) < ValidUntil(t) <=> s \div Period < t \div Period
  <2>1. PICK m \in Int, n \in Int : m = s \div Period /\ n = t \div Period
    BY Grid
  <2>2. (m + 3) * Period < (n + 3) * Period <=> m + 3 < n + 3
    BY <2>1, Grid
  <2> QED
    BY <2>1, <2>2 DEF ValidUntil
<1> QED
  BY <1>1, <1>2

\* The manifest last served is the one of the time it last changed at: a grid
\* point that only the passing of a period moves.
ManifestInv ==
    /\ clock \in Nat /\ movedAt \in Nat /\ drift \in Int
    /\ movedAt <= clock
    /\ served = ValidUntil(movedAt)

LEMMA ManifestInvariant == ManifestSpec => []ManifestInv
<1>1. ManifestInit => ManifestInv
  BY ManifestAssumption DEF ManifestInit, ManifestInv
<1>2. ManifestInv /\ [ManifestNext]_manifestVars => ManifestInv'
  <2> SUFFICES ASSUME ManifestInv, [ManifestNext]_manifestVars PROVE ManifestInv'
    OBVIOUS
  <2>1. CASE Tick
    BY <2>1 DEF Tick, ManifestInv, ValidUntil
  <2>2. CASE Serve
    BY <2>2 DEF Serve, ManifestInv, ValidUntil
  <2>3. CASE UNCHANGED manifestVars
    BY <2>3 DEF manifestVars, ManifestInv, ValidUntil
  <2> QED
    BY <2>1, <2>2, <2>3 DEF ManifestNext
<1> QED
  BY <1>1, <1>2, PTL DEF ManifestSpec

\* A manifest fetched now is taken by every client whose clock is at most two
\* periods ahead of the trustee's (Trustee::manifest, Trustee.__init__).
THEOREM FetchedManifestIsCurrent == ManifestSpec => []FetchedIsCurrent
<1>1. ManifestInv => FetchedIsCurrent
  <2> SUFFICES ASSUME ManifestInv, served = ValidUntil(clock), drift <= 2 * Period
               PROVE  Current(served, clock + drift)
    BY DEF FetchedIsCurrent
  <2>1. served \in Int /\ served > clock + 2 * Period
    BY ValidUntilOnGrid DEF ManifestInv
  <2> QED
    BY <2>1, ManifestAssumption DEF Current, ManifestInv
<1> QED
  BY <1>1, ManifestInvariant, PTL

\* Manifest bytes change once a period, and never to an earlier validUntil
\* (Trustee::manifest).
THEOREM ManifestChangesOncePerPeriod == ManifestSpec => ChangesOncePerPeriod
<1>1. ManifestInv /\ [ManifestNext]_manifestVars => [GridStep]_manifestVars
  <2> SUFFICES ASSUME ManifestInv, Serve, served' # served
               PROVE  served' > served /\ clock' \div Period # movedAt \div Period
    BY DEF ManifestNext, Tick, manifestVars, GridStep
  <2>1. /\ served = ValidUntil(movedAt) /\ served' = ValidUntil(clock) /\ clock' = clock
        /\ clock \in Int /\ movedAt \in Int /\ movedAt <= clock
    BY DEF ManifestInv, Serve
  <2>2. movedAt \div Period <= clock \div Period
    BY <2>1, PeriodsInOrder
  <2>3. movedAt \div Period # clock \div Period
    BY <2>1 DEF ValidUntil
  <2>4. movedAt \div Period < clock \div Period
    BY <2>1, <2>2, <2>3, Grid
  <2> QED
    BY <2>1, <2>4, ValidUntilOnGrid
<1> QED
  BY <1>1, ManifestInvariant, PTL DEF ManifestSpec, ChangesOncePerPeriod

-----------------------------------------------------------------------------
(* The times of a session.                                                     *)

\* What MarginsInit draws, and how far the trustee's clock can be away.
MarginsInv ==
    /\ policy \in [cooldown : 1..MaxLifetime, lifetime : 1..MaxLifetime, attempts : {1}]
    /\ policy.cooldown < policy.lifetime
    /\ end \in 1..MaxEnd
    /\ arrival \in -Skew..Skew

LEMMA MarginsInvariant == MarginsSpec => []MarginsInv
<1>1. MarginsInit => MarginsInv
  BY MarginsAssumption DEF MarginsInit, MarginsInv
<1>2. MarginsInv /\ [Later]_marginsVars => MarginsInv'
  BY MarginsAssumption DEF MarginsInv, Later, marginsVars
<1> QED
  BY <1>1, <1>2, PTL DEF MarginsSpec

\* A session the client makes is admitted by every trustee whose clock differs
\* from the candidate's by less than the margin (new_session; admit).
THEOREM SessionsAreAdmitted == MarginsSpec => []EveryTrusteeAdmits
<1>1. MarginsInv => EveryTrusteeAdmits
  <2> SUFFICES ASSUME MarginsInv, Made, arrival \in -Slack..Slack
               PROVE  Admit(Enrollment, policy, 0, Asked, arrival, Skew) = "ok"
    BY DEF EveryTrusteeAdmits
  <2>1. PICK c \in Int, l \in Int : c = policy.cooldown /\ l = policy.lifetime
    BY DEF MarginsInv
  <2>2. /\ 0 < c /\ c < l /\ policy.attempts = 1
        /\ end \in Int /\ arrival \in Int /\ -Skew <= arrival /\ arrival <= Skew
    BY <2>1, MarginsAssumption DEF MarginsInv
  <2>3. Slack \in Int /\ 0 <= Slack
    BY <2>1, <2>2, MarginsAssumption DEF Slack, Margin, Least
  <2>4. /\ Asked.requestedAt = 0 /\ Asked.expiresAt \in Int
        /\ Asked.expiresAt <= l - Slack /\ Asked.expiresAt <= end
    BY <2>1, <2>2, <2>3 DEF Asked, NewSession, Slack, Least
  <2>5. Asked.expiresAt > c + Slack
    BY <2>1, <2>2, <2>3 DEF Made, OutlastsCooldown, Asked, Slack
  <2>6. arrival < Asked.expiresAt /\ arrival < end
    BY <2>1, <2>2, <2>3, <2>4, <2>5
  <2>7. Usable(Enrollment, arrival) = "ok"
    BY <2>2, <2>6 DEF Usable, Enrollment, Tombstone
  <2>8. ~RateLimited(policy, 0)
    BY <2>2 DEF RateLimited
  <2>9. ~(Distance(Asked.requestedAt, arrival) > Skew)
    BY <2>2, <2>4, MarginsAssumption DEF Distance
  <2>10. WithinBounds(Enrollment, policy, Asked, arrival)
    BY <2>1, <2>2, <2>3, <2>4, <2>5 DEF WithinBounds, CooldownEndsAt, Enrollment
  <2> QED
    BY <2>2, <2>4, <2>6, <2>7, <2>8, <2>9, <2>10 DEF Admit
<1> QED
  BY <1>1, MarginsInvariant, PTL
=============================================================================
