---------------------------- MODULE TamperPolicy ----------------------------
(***************************************************************************)
(* What the tracking of one web server promises, whatever its threads do:  *)
(* the life of a file between two backups.  A file that differs from the   *)
(* backup is reported once; a report is undone, or the administrator       *)
(* decides between restoring the file and accepting the change; only an    *)
(* accepted change gets into the backup, and there is no way back from     *)
(* "accepted" to "restoring".  A backup that is thrown away takes the      *)
(* records with it, except those the administrator has in hand meanwhile.  *)
(***************************************************************************)
CONSTANT Path

VARIABLES
  phase,     \* where each file is in that life
  stage,     \* what becomes of the backup
  backed,    \* the files the backup has
  kept       \* the files whose records a discarded backup left behind

Phases == {"untracked", "reported", "deciding", "returning", "restoring", "accepted"}
Stages == {"making", "made", "discarding"}

In(ph) == {p \in Path : phase[p] = ph}
Tracked == Path \ In("untracked")
InHand == In("deciding") \cup In("returning")

PolicyType ==
  /\ phase \in [Path -> Phases] /\ stage \in Stages
  /\ backed \subseteq Path /\ kept \subseteq Path

Init ==
  /\ phase = [p \in Path |-> "untracked"] /\ stage = "making"
  /\ backed = {} /\ kept = {}

SetPhase(P, ph) == phase' = [p \in Path |-> IF p \in P THEN ph ELSE phase[p]]

(* A backup is made, in one go or in several, while nothing is reported. *)
BackUp ==
  /\ stage = "making" /\ Tracked \subseteq kept
  /\ stage' \in {"making", "made"}
  /\ backed \subseteq backed' /\ backed' \subseteq Path
  /\ UNCHANGED <<phase, kept>>

(* A changed configuration throws the backup away ... *)
Discard ==
  /\ stage # "discarding"
  /\ stage' = "discarding" /\ backed' = {} /\ kept' = InHand
  /\ UNCHANGED phase

(* ... and the records of one kind after the other. *)
Forget ==
  /\ stage = "discarding"
  /\ \E ph \in {"reported", "restoring", "accepted"} : SetPhase(In(ph), "untracked")
  /\ kept' = kept \cap Tracked'
  /\ stage' = "discarding" \/ (stage' = "making" /\ Tracked' \subseteq kept')
  /\ UNCHANGED backed

Report ==
  /\ stage = "made" /\ InHand = {}
  /\ \E P \in SUBSET In("untracked") : SetPhase(P, "reported")
  /\ UNCHANGED <<stage, backed, kept>>

(* The administrator takes a record in hand, *)
Decide ==
  /\ InHand = {}
  /\ \E p \in Path :
       /\ \/ phase[p] = "reported" /\ SetPhase({p}, "deciding")
          \/ phase[p] = "restoring" /\ SetPhase({p}, "returning")
       /\ kept' = IF stage = "discarding" THEN kept \cup {p} ELSE kept
  /\ UNCHANGED <<stage, backed>>

(* and puts it where it is to be. *)
Decided ==
  /\ \/ /\ In("deciding") # {}
        /\ SetPhase(In("deciding"), "restoring") \/ SetPhase(In("deciding"), "accepted")
     \/ In("returning") # {} /\ SetPhase(In("returning"), "reported")
  /\ UNCHANGED <<stage, backed, kept>>

(* The worker undoes all that is reported, or all that is to be restored. *)
Undo ==
  /\ stage = "made" /\ InHand = {}
  /\ SetPhase(In("reported"), "untracked") \/ SetPhase(In("restoring"), "untracked")
  /\ kept' = kept \cap Tracked'
  /\ UNCHANGED <<stage, backed>>

(* The worker takes accepted changes into the backup, after it restored. *)
TakeIn ==
  /\ stage = "made" /\ InHand = {}
  /\ SetPhase(In("restoring") \cup In("accepted"), "untracked")
  /\ \E A \in SUBSET In("accepted"), D \in SUBSET In("accepted") :
       backed' = (backed \cup A) \ D
  /\ kept' = kept \cap Tracked'
  /\ UNCHANGED stage

Next ==
  \/ BackUp \/ Discard \/ Forget \/ Report \/ Decide \/ Decided \/ Undo \/ TakeIn

Spec == Init /\ [][Next]_<<phase, stage, backed, kept>>
=============================================================================
