---------------------------- MODULE MCArithmetic ----------------------------
(* The parts of the system that only compute, each checked on its own from     *)
(* `subject`: manifests and their age (Manifest), the times of a session       *)
(* (MCMargins), shares (Slip39), durations (Duration).  The machines of the    *)
(* other three stay as they started.                                           *)
EXTENDS Manifest, MCMargins, Slip39, Duration

VARIABLE subject

ManifestIdle == clock = 0 /\ drift = 0 /\ served = ValidUntil(0) /\ movedAt = 0
MarginsIdle == policy = [cooldown |-> 1, lifetime |-> 2, attempts |-> 1] /\ end = 1 /\ arrival = 0
ShareIdle == vector = (CHOOSE v \in Vectors : TRUE) /\ words = vector.words /\ errors = MaxErrors
TextIdle == text = <<>>

MCInit ==
    \/ subject = "manifest" /\ ManifestInit /\ MarginsIdle /\ ShareIdle /\ TextIdle
    \/ subject = "margins" /\ ManifestIdle /\ MarginsInit /\ ShareIdle /\ TextIdle
    \/ subject = "share" /\ ManifestIdle /\ MarginsIdle /\ ShareInit /\ TextIdle
    \/ subject = "duration" /\ ManifestIdle /\ MarginsIdle /\ ShareIdle /\ TextInit

MCNext ==
    /\ UNCHANGED subject
    /\ \/ subject = "manifest" /\ ManifestNext /\ UNCHANGED <<marginsVars, shareVars, text>>
       \/ subject = "margins" /\ Later /\ UNCHANGED <<manifestVars, shareVars, text>>
       \/ subject = "share" /\ ShareNext /\ UNCHANGED <<manifestVars, marginsVars, text>>
       \/ subject = "duration" /\ TextNext /\ UNCHANGED <<manifestVars, marginsVars, shareVars>>

MCSpec == MCInit /\ [][MCNext]_<<subject, manifestVars, marginsVars, shareVars, text>>

\* Shares of src/tests/fixtures/slip39, by word number: the last of the generated
\* 2-of-16 and 16-of-16 sets, official vectors 34 (several groups), 45 (extendable)
\* and 22 (checksum right, padding wrong).
MCVectors == {
    [verdict |-> "ok", memberIndex |-> 15, memberThreshold |-> 2,
     words |-> <<215, 448, 0, 241, 45, 384, 573, 77, 946, 502, 46, 163, 354, 468, 863, 660, 662,
                 466, 136, 784, 249, 285, 12, 826, 483, 433, 590, 521, 555, 12, 10, 395, 560>>],
    [verdict |-> "ok", memberIndex |-> 15, memberThreshold |-> 16,
     words |-> <<410, 736, 0, 255, 49, 451, 138, 97, 55, 334, 630, 647, 764, 366, 461, 787, 800,
                 82, 736, 484, 857, 76, 436, 569, 47, 612, 521, 340, 374, 8, 504, 44, 53>>],
    [verdict |-> "unsupported", memberIndex |-> 4, memberThreshold |-> 2,
     words |-> <<1004, 192, 196, 833, 40, 391, 598, 444, 179, 870, 829, 382, 161, 320, 883, 328, 210,
                 327, 928, 970, 800, 942, 919, 874, 512, 652, 367, 48, 306, 365, 708, 918, 473>>],
    [verdict |-> "unsupported", memberIndex |-> 2, memberThreshold |-> 2,
     words |-> <<1002, 48, 0, 33, 54, 751, 99, 875, 1012, 633, 157, 153, 23, 577, 656, 45, 696,
                 54, 367, 36, 211, 581, 328, 608, 602, 665, 997, 29, 128, 959, 849, 539, 555>>],
    [verdict |-> "malformed", memberIndex |-> 0, memberThreshold |-> 1,
     words |-> <<911, 640, 0, 0, 117, 882, 1019, 582, 265, 225, 2, 1004, 91, 278, 380, 508, 781,
                 109, 122, 217, 39, 421, 515, 927, 636, 78, 663, 120, 564, 530, 323, 621, 817>>]}
=============================================================================
