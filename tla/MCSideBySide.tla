----------------------------- MODULE MCSideBySide -----------------------------
(***************************************************************************)
(* Parts of the system that share no state, checked in one run: a          *)
(* behaviour is a behaviour of one of them, chosen at the start, while the *)
(* others rest in their initial states.                                    *)
(***************************************************************************)
EXTENDS DvrRecorder, GuideFetch, PlayerSession, CloudSync, Profiles,
        RecurringExpansion, CloudMerge

CONSTANT news

VARIABLE part  \* the part that moves

partVars ==
    <<part, vars, guideVars, playerVars,
      cloudVars, profileVars, expansionVars, mergeVars>>

MCInit ==
    /\ Init /\ GuideInit /\ PlayerInit /\ CloudInit
    /\ ProfilesInit /\ ExpansionInit /\ MergeInit
    /\ part \in {"recorder", "guide", "player", "cloud", "profiles",
                  "expansion", "merge"}

RecorderPart ==
    /\ part = "recorder" /\ Next
    /\ UNCHANGED <<part, guideVars, playerVars,
                    cloudVars, profileVars, expansionVars, mergeVars>>
GuidePart ==
    /\ part = "guide" /\ GuideNext
    /\ UNCHANGED <<part, vars, playerVars,
                    cloudVars, profileVars, expansionVars, mergeVars>>
PlayerPart ==
    /\ part = "player" /\ PlayerNext
    /\ UNCHANGED <<part, vars, guideVars,
                    cloudVars, profileVars, expansionVars, mergeVars>>
CloudPart ==
    /\ part = "cloud" /\ CloudNext
    /\ UNCHANGED <<part, vars, guideVars,
                    playerVars, profileVars, expansionVars, mergeVars>>
ProfilePart ==
    /\ part = "profiles" /\ ProfilesNext
    /\ UNCHANGED <<part, vars, guideVars,
                    playerVars, cloudVars, expansionVars, mergeVars>>
ExpansionPart ==
    /\ part = "expansion" /\ ExpansionNext
    /\ UNCHANGED <<part, vars, guideVars,
                    playerVars, cloudVars, profileVars, mergeVars>>
MergePart ==
    /\ part = "merge" /\ MergeNext
    /\ UNCHANGED <<part, vars, guideVars,
                    playerVars, cloudVars, profileVars, expansionVars>>

MCNext ==
    \/ RecorderPart \/ GuidePart \/ PlayerPart
    \/ CloudPart \/ ProfilePart \/ ExpansionPart \/ MergePart

MCSpec == MCInit /\ [][MCNext]_partVars

-----------------------------------------------------------------------------
Symmetry == Permutations(Slots)
MCStart == [d \in {"box", "phone"} |-> IF d = "box" THEN {"tv"} ELSE {}]
\* One is broadcast over midnight, on both days of the week.
MCRecurring == {[show |-> "late film", start |-> 3, end |-> 5, days |-> {0, 1}],
                [show |-> "news", start |-> 1, end |-> 2, days |-> {0}]}
===============================================================================
