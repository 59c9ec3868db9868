---------------------------- MODULE EnrollClient ----------------------------
(* Enrolling at n trustees with the reference client, src/tools/client.py      *)
(* (enroll_to, Enrollment.run, Holder.close): every slot is enrolled, or every *)
(* slot is closed again with keys saved beforehand.  A trustee is the state of *)
(* this enrollment's custody there, as module Store decides it: an enroll is   *)
(* taken once, a close makes a tombstone for good, and a close of an id never  *)
(* seen is refused and leaves no trace.                                        *)
(*                                                                             *)
(* A call may go unanswered; its request may be lost, or arrive before the     *)
(* client goes on, or long after.                                              *)
EXTENDS Naturals, FiniteSets

CONSTANT N    \* slots, one trustee each

ASSUME EnrollClientAssumption == N \in Nat \ {0}

Slots == 1..N

VARIABLES
    stage,     \* where enroll_to is
    slot,      \* the slot being enrolled or closed
    disk,      \* files written whole
    custody,   \* slot -> "none", "live" or "closed", at its trustee
    enrolls,   \* slots whose enroll request was sent: it may still arrive
    closes,    \* slots whose close request was sent: it may still arrive
    report     \* slot -> what the last close said: "none", "closed", "not closed"

vars == <<stage, slot, disk, custody, enrolls, closes, report>>

KeyFiles == {"holder.json", "factors.json"}
MapFiles == {"map.key", "map.json"}

\* enroll_to has returned or raised, or was killed.
Ended == stage \in {"enrolled", "closed again", "map not saved", "dead"}

Init ==
    /\ stage = "keys"
    /\ slot = 1
    /\ disk = {}
    /\ custody = [s \in Slots |-> "none"]
    /\ enrolls = {}
    /\ closes = {}
    /\ report = [s \in Slots |-> "none"]

(* ----------------------------- the trustees ------------------------------ *)

ServeEnroll(s) ==
    custody' = [custody EXCEPT ![s] = IF @ = "none" THEN "live" ELSE @]

ServeClose(s) ==
    custody' = [custody EXCEPT ![s] = IF @ = "live" THEN "closed" ELSE @]

\* A request the client gave up on arrives after all.
Late(s) ==
    /\ \/ s \in enrolls /\ ServeEnroll(s)
       \/ s \in closes /\ ServeClose(s)
    /\ UNCHANGED <<stage, slot, disk, enrolls, closes, report>>

(* ------------------------------ enrolling -------------------------------- *)

\* The keys stay in memory until there is a vault to write.
MutWriteKeys(f) ==
    /\ stage = "keys" /\ stage' = "challenge"
    /\ UNCHANGED <<slot, disk, custody, enrolls, closes, report>>

\* `write_private`, twice: the holder's keys and the factor keys, each whole.
WriteKeys(f) ==
    /\ stage = "keys"
    /\ f \in KeyFiles \ disk
    /\ f = "factors.json" => "holder.json" \in disk
    /\ disk' = disk \cup {f}
    /\ stage' = IF KeyFiles \subseteq disk' THEN "challenge" ELSE "keys"
    /\ UNCHANGED <<slot, custody, enrolls, closes, report>>

\* enroll_to's except: the first failure, of whatever kind, closes every slot.
CloseAll == stage' = "closing" /\ slot' = 1

\* `enroll_slot`: redeem the invitation for a challenge.
RedeemInvitation ==
    /\ stage = "challenge"
    /\ \/ stage' = "enroll" /\ UNCHANGED slot
       \/ CloseAll
    /\ UNCHANGED <<disk, custody, enrolls, closes, report>>

MutNextSlot == stage' = "map" /\ UNCHANGED slot

NextSlot == IF slot = N THEN stage' = "map" /\ UNCHANGED slot
            ELSE stage' = "challenge" /\ slot' = slot + 1

\* `enroll_slot`: the enroll request.  Answered with a receipt that verifies,
\* refused, or failed after it may have been accepted.
SendEnroll ==
    /\ stage = "enroll"
    /\ \/ enrolls' = enrolls \cup {slot} /\ ServeEnroll(slot) /\ NextSlot
       \/ enrolls' = enrolls \cup {slot} /\ (ServeEnroll(slot) \/ UNCHANGED custody) /\ CloseAll
       \/ UNCHANGED <<enrolls, custody>> /\ CloseAll
    /\ UNCHANGED <<disk, closes, report>>

(* ------------------------------- closing --------------------------------- *)

MutClosedReceipt(state) == TRUE

\* A trustee answers a close with a receipt only for an enrollment it has, or had.
ClosedReceipt(state) == state \in {"live", "closed"}

\* One signed close-enrollment: answered, or not, and then perhaps served (Late).
Close(s, answered) ==
    /\ closes' = closes \cup {s}
    /\ \/ answered /\ ServeClose(s)
       \/ ~answered /\ UNCHANGED custody
    /\ report' = [report EXCEPT ![s] =
                     IF answered /\ ClosedReceipt(custody[s]) THEN "closed" ELSE "not closed"]

\* `each`: "a failure at one never stops the others".
AfterClose(s) ==
    IF s = N THEN stage' = "closed again" /\ UNCHANGED slot
    ELSE slot' = s + 1 /\ UNCHANGED stage

CloseSlot ==
    /\ stage = "closing"
    /\ \E answered \in BOOLEAN : Close(slot, answered)
    /\ AfterClose(slot)
    /\ UNCHANGED <<disk, enrolls>>

\* `close_command`, run by the holder with the saved keys: one trustee of it.
CloseLater(s, answered) ==
    /\ Ended
    /\ "holder.json" \in disk
    /\ Close(s, answered)
    /\ UNCHANGED <<stage, slot, disk, enrolls>>

(* ------------------------------ the vault -------------------------------- *)

\* The sealed map's key, then the map; at the end both are read back.  A write
\* that fails raises, with nothing closed.
WriteMap(f) ==
    /\ stage = "map"
    /\ f \in MapFiles \ disk
    /\ f = "map.json" => "map.key" \in disk
    /\ \/ disk' = disk \cup {f} /\ stage' = IF MapFiles \subseteq disk' THEN "enrolled" ELSE "map"
       \/ UNCHANGED disk /\ stage' = "map not saved"
    /\ UNCHANGED <<slot, custody, enrolls, closes, report>>

\* Killed, or a write failed before any trustee was contacted.
Die ==
    /\ ~Ended
    /\ stage' = "dead"
    /\ UNCHANGED <<slot, disk, custody, enrolls, closes, report>>

-----------------------------------------------------------------------------

\* What a running enroll_to does of its own accord.
Advance ==
    \/ \E f \in KeyFiles : WriteKeys(f)
    \/ RedeemInvitation \/ SendEnroll \/ CloseSlot
    \/ \E f \in MapFiles : WriteMap(f)

Next ==
    \/ Advance \/ Die
    \/ \E s \in Slots : Late(s) \/ \E answered \in BOOLEAN : CloseLater(s, answered)

\* A running client is scheduled; and a holder who wants custody ended goes on
\* closing until each trustee has answered.
Spec == /\ Init /\ [][Next]_vars
        /\ WF_vars(Advance)
        /\ \A s \in Slots : WF_vars(CloseLater(s, TRUE))

-----------------------------------------------------------------------------

\* No invitation is redeemed, no enroll request sent and no custody taken before
\* both key files are on disk, whenever the client is killed ("written before any
\* trustee is contacted", enroll_to: the manifests were fetched before that).
KeysBeforeContact ==
    (\/ stage \in {"challenge", "enroll"}
     \/ enrolls # {}
     \/ \E s \in Slots : custody[s] # "none") => KeyFiles \subseteq disk

\* A slot once reported closed holds no custody, then or ever after: neither a
\* late enroll nor a repeated one revives it.  After a failed enrollment every slot
\* has been reported, so custody that survives it was reported as not closed
\* (Holder.each; "closed" or "not closed" in enroll_to).
NoSilentCustody ==
    /\ \A s \in Slots : report[s] = "closed" => custody[s] = "closed"
    /\ stage = "closed again" => \A s \in Slots : report[s] # "none"

\* enroll_to returns only with every slot in custody and everything on disk that
\* recovery needs; what then ends custody is a close of the holder's own.
EnrolledEverywhere ==
    stage = "enrolled" =>
        /\ disk = KeyFiles \cup MapFiles
        /\ \A s \in Slots : custody[s] = "live" \/ s \in closes

\* Enrollment comes to an end, and whatever it left behind can be closed with
\* the saved keys, custody taken by a late request included ("can always close
\* what was accepted", Enrollment).
CustodyCanBeEnded ==
    \A s \in Slots : (custody[s] = "live" ~> Ended) /\ (custody[s] = "live" ~> custody[s] = "closed")
=============================================================================
