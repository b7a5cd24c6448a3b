----------------- MODULE CheckpointPublicationProofs ---------------------
(***************************************************************************)
(* What CheckpointPublication guarantees for every number of writers,      *)
(* every bound on failures and incidents, and every set of failing calls.  *)
(* The inductive invariant has four parts, each proved in three lemmas     *)
(* (a writer's step, a failing call, an incident):                         *)
(*   TypeInv    types, and that a claim in progress pins a directory;      *)
(*   TreeInv    a named tree is synced, and stable storage lags behind;    *)
(*   OutcomeInv what each answer says about the name;                      *)
(*   ClaimInv   one claimant at a time, unless a mkdir reported an error.  *)
(* Three more hold where some calls do not fail: TellingInv, ResidueInv    *)
(* and HolderInv.  RaceInv is about races in which nothing fails, and the  *)
(* rank Left bounds the calls of a transaction: all that EveryoneEnds adds *)
(* to what is proved here is that a running writer goes on.                *)
(***************************************************************************)
EXTENDS CheckpointPublication, TLAPS

LEMMA DirectoriesDiffer ==
    /\ \A v, w \in Writers : Tree(v) = Tree(w) => v = w
    /\ \A v, w \in Writers : Slot(v) = Slot(w) => v = w
    /\ \A v, w \in Writers : Tree(v) # Slot(w)
    /\ \A w \in Writers : Tree(w) # Nothing
    /\ \A w \in Writers : Slot(w) # Nothing
BY DEF Tree, Slot, Nothing

----------------------------------------------------------------------------
\* Types.

ClaimPins ==
    \A w \in Writers :
        pc[w] \in {"mark", "lock", "unmark", "chmod"} => fd[w] # Nothing

TypeInv == TypeOK /\ ClaimPins

LEMMA TypeStep ==
    ASSUME TypeInv, NEW w \in Writers, Step(w)
    PROVE  TypeInv'
<1> USE DEF TypeInv, TypeOK, ClaimPins, Labels, Outcomes,
        names, dirs, claims, control, world,
        Goto, Raise, Release
<1>1. CASE NewStagingDirectory(w)
  BY <1>1 DEF NewStagingDirectory
<1>2. CASE WriteBody(w)
  BY <1>2 DEF WriteBody
<1>3. CASE FsyncStagingTree(w)
  BY <1>3 DEF FsyncStagingTree
<1>4. CASE RequireStableParent(w)
  BY <1>4 DEF RequireStableParent
<1>5. CASE RenameNoReplace(w)
  BY <1>5 DEF RenameNoReplace, Trees
<1>6. CASE MakePlaceholder(w)
  BY <1>6 DEF MakePlaceholder, Slots
<1>7. CASE OpenPlaceholder(w)
  BY <1>7 DEF OpenPlaceholder
<1>8. CASE CreateMarker(w)
  BY <1>8 DEF CreateMarker, Usable
<1>9. CASE LockPlaceholder(w)
  BY <1>9 DEF LockPlaceholder
<1>10. CASE RemoveMarker(w)
  BY <1>10 DEF RemoveMarker
<1>11. CASE ClosePlaceholder(w)
  BY <1>11 DEF ClosePlaceholder
<1>12. CASE AbandonClaim(w)
  BY <1>12 DEF AbandonClaim
<1>13. CASE RemovePlaceholder(w)
  BY <1>13 DEF RemovePlaceholder
<1>14. CASE InspectTarget(w)
  BY <1>14 DEF InspectTarget
<1>15. CASE CheckClaim(w)
  BY <1>15 DEF CheckClaim
<1>16. CASE RenameOverPlaceholder(w)
  BY <1>16 DEF RenameOverPlaceholder, Trees
<1>17. CASE RecheckClaim(w)
  BY <1>17 DEF RecheckClaim
<1>18. CASE ReadBack(w)
  BY <1>18 DEF ReadBack
<1>19. CASE RemoveIfOwnedLstat(w)
  BY <1>19 DEF RemoveIfOwnedLstat, Unwind
<1>20. CASE RemoveIfOwnedRmdir(w)
  BY <1>20 DEF RemoveIfOwnedRmdir, Unwind
<1>21. CASE CloseClaim(w)
  BY <1>21 DEF CloseClaim
<1>22. CASE FsyncParent(w)
  BY <1>22 DEF FsyncParent
<1>23. CASE RequireStableParentAgain(w)
  BY <1>23 DEF RequireStableParentAgain
<1>24. CASE RemoveStagingTree(w)
  BY <1>24 DEF RemoveStagingTree
<1>25. CASE PinParent(w)
  BY <1>25 DEF PinParent
<1> QED
  BY <1>1, <1>2, <1>3, <1>4, <1>5, <1>6, <1>7, <1>8, <1>9, <1>10, <1>11,
     <1>12, <1>13, <1>14, <1>15, <1>16, <1>17, <1>18, <1>19, <1>20,
     <1>21, <1>22, <1>23, <1>24, <1>25 DEF Step

LEMMA TypeFault ==
    ASSUME TypeInv, NEW w \in Writers, Fault(w)
    PROVE  TypeInv'
<1> USE DEF TypeInv, TypeOK, ClaimPins, Labels, Outcomes,
        names, dirs, claims, control, world,
        Goto, Raise, Release, Faulty
<1>1. CASE CallFails(w)
  BY <1>1 DEF CallFails, OnError
<1>2. CASE MkdirUnanswered(w)
  BY <1>2 DEF MkdirUnanswered, Slots
<1>3. CASE RenameUnanswered(w)
  BY <1>3 DEF RenameUnanswered, Trees
<1>4. CASE BestEffortFails(w)
  BY <1>4 DEF BestEffortFails
<1>5. CASE ReadBackFails(w)
  BY <1>5 DEF ReadBackFails
<1>6. CASE RemoveIfOwnedFails(w)
  BY <1>6 DEF RemoveIfOwnedFails, Empty, Slots
<1>7. CASE ConfirmationFails(w)
  BY <1>7 DEF ConfirmationFails
<1>8. CASE CleanupFails(w)
  BY <1>8 DEF CleanupFails, Staged
<1>9. CASE StagingUnanswered(w)
  BY <1>9 DEF StagingUnanswered
<1>10. CASE ClaimUnanswered(w)
  BY <1>10 DEF ClaimUnanswered, Usable
<1>11. CASE ClaimCloseFails(w)
  BY <1>11 DEF ClaimCloseFails, Usable
<1> QED
  BY <1>1, <1>2, <1>3, <1>4, <1>5, <1>6, <1>7, <1>8, <1>9, <1>10,
     <1>11 DEF Fault

LEMMA TypeOther ==
    ASSUME TypeInv,
           \/ \E w \in Writers : Kill(w)
           \/ PowerLoss \/ RetargetParent \/ WriteBack \/ UNCHANGED vars
    PROVE  TypeInv'
<1> USE DEF TypeInv, TypeOK, ClaimPins, Labels, Outcomes,
        names, dirs, claims, control, world,
        Goto, Raise, Release, Incident
<1>1. CASE \E w \in Writers : Kill(w)
  BY <1>1 DEF Kill, Running
<1>2. CASE PowerLoss
  BY <1>2 DEF PowerLoss, Running
<1>3. CASE RetargetParent
  BY <1>3 DEF RetargetParent
<1>4. CASE WriteBack
  BY <1>4 DEF WriteBack
<1>5. CASE UNCHANGED vars
  BY <1>5 DEF vars
<1> QED
  BY <1>1, <1>2, <1>3, <1>4, <1>5

----------------------------------------------------------------------------
\* Trees: what is named is synced.

Unsynced == {"idle", "identity", "body", "sync"}
Early    == {"parent", "publish", "mkdir", "open", "mark", "lock", "unmark",
             "chmod", "unclaim", "rmdir", "lstat", "check", "rename"}
Doubtful == {"recheck", "readback", "release", "remove"}

StagedIsSynced ==
    \A w \in Writers :
        /\ pc[w] \in Unsynced => tree[w] # "synced"
        /\ pc[w] \in Early \cup Doubtful => tree[w] = "synced"
        /\ pc[w] \in Early => target # Tree(w)

DiskFollows == disk \in Trees => target = disk

TreeInv == PublishedIsWhole /\ StagedIsSynced /\ DiskFollows

LEMMA TreeStep ==
    ASSUME TypeInv, TreeInv, NEW w \in Writers, Step(w)
    PROVE  TreeInv'
<1> USE DirectoriesDiffer DEF TypeInv, TypeOK, TreeInv, PublishedIsWhole,
        StagedIsSynced, DiskFollows, Unsynced, Early, Doubtful, Trees,
        names, dirs, claims, control, world,
        Goto, Raise
<1>1. CASE NewStagingDirectory(w)
  BY <1>1 DEF NewStagingDirectory
<1>2. CASE WriteBody(w)
  BY <1>2 DEF WriteBody
<1>3. CASE FsyncStagingTree(w)
  BY <1>3 DEF FsyncStagingTree
<1>4. CASE RequireStableParent(w)
  BY <1>4 DEF RequireStableParent
<1>5. CASE RenameNoReplace(w)
  BY <1>5 DEF RenameNoReplace
<1>6. CASE MakePlaceholder(w)
  BY <1>6 DEF MakePlaceholder
<1>7. CASE OpenPlaceholder(w)
  BY <1>7 DEF OpenPlaceholder
<1>8. CASE CreateMarker(w)
  BY <1>8 DEF CreateMarker
<1>9. CASE LockPlaceholder(w)
  BY <1>9 DEF LockPlaceholder
<1>10. CASE RemoveMarker(w)
  BY <1>10 DEF RemoveMarker
<1>11. CASE ClosePlaceholder(w)
  BY <1>11 DEF ClosePlaceholder
<1>12. CASE AbandonClaim(w)
  BY <1>12 DEF AbandonClaim
<1>13. CASE RemovePlaceholder(w)
  BY <1>13 DEF RemovePlaceholder, Empty, Slots
<1>14. CASE InspectTarget(w)
  BY <1>14 DEF InspectTarget
<1>15. CASE CheckClaim(w)
  BY <1>15 DEF CheckClaim
<1>16. CASE RenameOverPlaceholder(w)
  BY <1>16 DEF RenameOverPlaceholder, Empty, Slots
<1>17. CASE RecheckClaim(w)
  BY <1>17 DEF RecheckClaim
<1>18. CASE ReadBack(w)
  BY <1>18 DEF ReadBack
<1>19. CASE RemoveIfOwnedLstat(w)
  BY <1>19 DEF RemoveIfOwnedLstat, Unwind
<1>20. CASE RemoveIfOwnedRmdir(w)
  BY <1>20 DEF RemoveIfOwnedRmdir, Unwind, Empty, Slots
<1>21. CASE CloseClaim(w)
  BY <1>21 DEF CloseClaim, Staged
<1>22. CASE FsyncParent(w)
  BY <1>22 DEF FsyncParent
<1>23. CASE RequireStableParentAgain(w)
  BY <1>23 DEF RequireStableParentAgain
<1>24. CASE RemoveStagingTree(w)
  BY <1>24 DEF RemoveStagingTree, Staged
<1>25. CASE PinParent(w)
  BY <1>25 DEF PinParent
<1> QED
  BY <1>1, <1>2, <1>3, <1>4, <1>5, <1>6, <1>7, <1>8, <1>9, <1>10, <1>11,
     <1>12, <1>13, <1>14, <1>15, <1>16, <1>17, <1>18, <1>19, <1>20,
     <1>21, <1>22, <1>23, <1>24, <1>25 DEF Step

LEMMA TreeFault ==
    ASSUME TypeInv, TreeInv, NEW w \in Writers, Fault(w)
    PROVE  TreeInv'
<1> USE DirectoriesDiffer DEF TypeInv, TypeOK, TreeInv, PublishedIsWhole,
        StagedIsSynced, DiskFollows, Unsynced, Early, Doubtful, Trees,
        names, dirs, claims, control, world,
        Goto, Raise, Faulty
<1>1. CASE CallFails(w)
  BY <1>1 DEF CallFails, OnError
<1>2. CASE MkdirUnanswered(w)
  BY <1>2 DEF MkdirUnanswered
<1>3. CASE RenameUnanswered(w)
  BY <1>3 DEF RenameUnanswered, Empty, Slots
<1>4. CASE BestEffortFails(w)
  BY <1>4 DEF BestEffortFails
<1>5. CASE ReadBackFails(w)
  BY <1>5 DEF ReadBackFails
<1>6. CASE RemoveIfOwnedFails(w)
  BY <1>6 DEF RemoveIfOwnedFails, Empty, Slots
<1>7. CASE ConfirmationFails(w)
  BY <1>7 DEF ConfirmationFails
<1>8. CASE CleanupFails(w)
  BY <1>8 DEF CleanupFails, Staged
<1>9. CASE StagingUnanswered(w)
  BY <1>9 DEF StagingUnanswered
<1>10. CASE ClaimUnanswered(w)
  BY <1>10 DEF ClaimUnanswered, Usable
<1>11. CASE ClaimCloseFails(w)
  BY <1>11 DEF ClaimCloseFails, Usable
<1> QED
  BY <1>1, <1>2, <1>3, <1>4, <1>5, <1>6, <1>7, <1>8, <1>9, <1>10,
     <1>11 DEF Fault

LEMMA TreeOther ==
    ASSUME TypeInv, TreeInv,
           \/ \E w \in Writers : Kill(w)
           \/ PowerLoss \/ RetargetParent \/ WriteBack \/ UNCHANGED vars
    PROVE  TreeInv'
<1> USE DirectoriesDiffer DEF TypeInv, TypeOK, TreeInv, PublishedIsWhole,
        StagedIsSynced, DiskFollows, Unsynced, Early, Doubtful, Trees,
        names, dirs, claims, control, world,
        Goto, Raise, Incident
<1>1. CASE \E w \in Writers : Kill(w)
  BY <1>1 DEF Kill, Running
<1>2. CASE PowerLoss
  BY <1>2 DEF PowerLoss, Running
<1>3. CASE RetargetParent
  BY <1>3 DEF RetargetParent
<1>4. CASE WriteBack
  BY <1>4 DEF WriteBack
<1>5. CASE UNCHANGED vars
  BY <1>5 DEF vars
<1> QED
  BY <1>1, <1>2, <1>3, <1>4, <1>5

----------------------------------------------------------------------------
\* Outcomes: what an answer, given or about to be given, says of the name.

StandsFor(w) == \E v \in Writers : target = Tree(v) /\ Payload[v] = Payload[w]

Committed ==
    \A w \in Writers :
        /\ pc[w] \in {"close", "fsync", "reparent"} => StandsFor(w)
        /\ pc[w] = "reparent" => disk = target
        /\ result[w] = "ok" => pc[w] = "done"

CollisionStays ==
    \A w \in Writers : result[w] = "exists" =>
        /\ pc[w] \in {"unclaim", "rmdir", "lstat", "cleanup", "done"}
        /\ target # Tree(w)

\* The witness of a doubtful outcome stands at the name, or belongs to a
\* writer that has ended and will not remove it.
DoubtStays ==
    \A w \in Writers :
        /\ result[w] = "ambiguous" => pc[w] \in {"release", "remove", "done"}
        /\ result[w] = "durability" => pc[w] \in {"cleanup", "done"}
        /\ result[w] = "durability" /\ pc[w] = "cleanup" => StandsFor(w)
        /\ pc[w] = "done" /\ result[w] \in {"ambiguous", "durability", "ok"} =>
              \E v \in Writers :
                 /\ tree[v] = "synced" /\ Payload[v] = Payload[w]
                 /\ target = Tree(v) \/ pc[v] = "done"

OutcomeInv == Committed /\ SuccessIsDurable /\ CollisionStays /\ DoubtStays

LEMMA OutcomeStep ==
    ASSUME TypeInv, TreeInv, OutcomeInv, NEW w \in Writers, Step(w)
    PROVE  OutcomeInv'
<1> USE DirectoriesDiffer DEF TypeInv, TypeOK, TreeInv, PublishedIsWhole,
        StagedIsSynced, DiskFollows, Unsynced, Early, Doubtful, Trees,
        OutcomeInv, Committed, SuccessIsDurable, CollisionStays, DoubtStays,
        StandsFor, names, dirs, claims, control, world,
        Goto, Raise
<1>1. CASE NewStagingDirectory(w)
  BY <1>1 DEF NewStagingDirectory
<1>2. CASE WriteBody(w)
  BY <1>2 DEF WriteBody
<1>3. CASE FsyncStagingTree(w)
  BY <1>3 DEF FsyncStagingTree
<1>4. CASE RequireStableParent(w)
  BY <1>4 DEF RequireStableParent
<1>5. CASE RenameNoReplace(w)
  BY <1>5 DEF RenameNoReplace
<1>6. CASE MakePlaceholder(w)
  BY <1>6 DEF MakePlaceholder
<1>7. CASE OpenPlaceholder(w)
  BY <1>7 DEF OpenPlaceholder
<1>8. CASE CreateMarker(w)
  BY <1>8 DEF CreateMarker
<1>9. CASE LockPlaceholder(w)
  BY <1>9 DEF LockPlaceholder
<1>10. CASE RemoveMarker(w)
  BY <1>10 DEF RemoveMarker
<1>11. CASE ClosePlaceholder(w)
  BY <1>11 DEF ClosePlaceholder
<1>12. CASE AbandonClaim(w)
  BY <1>12 DEF AbandonClaim
<1>13. CASE RemovePlaceholder(w)
  BY <1>13 DEF RemovePlaceholder, Empty, Slots
<1>14. CASE InspectTarget(w)
  BY <1>14 DEF InspectTarget
<1>15. CASE CheckClaim(w)
  BY <1>15 DEF CheckClaim
<1>16. CASE RenameOverPlaceholder(w)
  BY <1>16 DEF RenameOverPlaceholder, Empty, Slots
<1>17. CASE RecheckClaim(w)
  BY <1>17 DEF RecheckClaim
<1>18. CASE ReadBack(w)
  BY <1>18 DEF ReadBack, Confirmed
<1>19. CASE RemoveIfOwnedLstat(w)
  BY <1>19 DEF RemoveIfOwnedLstat, Unwind
<1>20. CASE RemoveIfOwnedRmdir(w)
  BY <1>20 DEF RemoveIfOwnedRmdir, Unwind, Empty, Slots
<1>21. CASE CloseClaim(w)
  BY <1>21 DEF CloseClaim, Staged
<1>22. CASE FsyncParent(w)
  BY <1>22 DEF FsyncParent
<1>23. CASE RequireStableParentAgain(w)
  BY <1>23 DEF RequireStableParentAgain
<1>24. CASE RemoveStagingTree(w)
  BY <1>24 DEF RemoveStagingTree, Staged
<1>25. CASE PinParent(w)
  BY <1>25 DEF PinParent
<1> QED
  BY <1>1, <1>2, <1>3, <1>4, <1>5, <1>6, <1>7, <1>8, <1>9, <1>10, <1>11,
     <1>12, <1>13, <1>14, <1>15, <1>16, <1>17, <1>18, <1>19, <1>20,
     <1>21, <1>22, <1>23, <1>24, <1>25 DEF Step

LEMMA OutcomeFault ==
    ASSUME TypeInv, TreeInv, OutcomeInv, NEW w \in Writers, Fault(w)
    PROVE  OutcomeInv'
<1> USE DirectoriesDiffer DEF TypeInv, TypeOK, TreeInv, PublishedIsWhole,
        StagedIsSynced, DiskFollows, Unsynced, Early, Doubtful, Trees,
        OutcomeInv, Committed, SuccessIsDurable, CollisionStays, DoubtStays,
        StandsFor, names, dirs, claims, control, world,
        Goto, Raise, Faulty
<1>1. CASE CallFails(w)
  BY <1>1 DEF CallFails, OnError
<1>2. CASE MkdirUnanswered(w)
  BY <1>2 DEF MkdirUnanswered
<1>3. CASE RenameUnanswered(w)
  BY <1>3 DEF RenameUnanswered, Empty, Slots
<1>4. CASE BestEffortFails(w)
  BY <1>4 DEF BestEffortFails
<1>5. CASE ReadBackFails(w)
  BY <1>5 DEF ReadBackFails
<1>6. CASE RemoveIfOwnedFails(w)
  BY <1>6 DEF RemoveIfOwnedFails, Empty, Slots
<1>7. CASE ConfirmationFails(w)
  BY <1>7 DEF ConfirmationFails
<1>8. CASE CleanupFails(w)
  BY <1>8 DEF CleanupFails, Staged
<1>9. CASE StagingUnanswered(w)
  BY <1>9 DEF StagingUnanswered
<1>10. CASE ClaimUnanswered(w)
  BY <1>10 DEF ClaimUnanswered, Usable
<1>11. CASE ClaimCloseFails(w)
  BY <1>11 DEF ClaimCloseFails, Usable
<1> QED
  BY <1>1, <1>2, <1>3, <1>4, <1>5, <1>6, <1>7, <1>8, <1>9, <1>10,
     <1>11 DEF Fault

LEMMA OutcomeOther ==
    ASSUME TypeInv, TreeInv, OutcomeInv,
           \/ \E w \in Writers : Kill(w)
           \/ PowerLoss \/ RetargetParent \/ WriteBack \/ UNCHANGED vars
    PROVE  OutcomeInv'
<1> USE DirectoriesDiffer DEF TypeInv, TypeOK, TreeInv, PublishedIsWhole,
        StagedIsSynced, DiskFollows, Unsynced, Early, Doubtful, Trees,
        OutcomeInv, Committed, SuccessIsDurable, CollisionStays, DoubtStays,
        StandsFor, names, dirs, claims, control, world,
        Goto, Raise, Incident
<1>1. CASE \E w \in Writers : Kill(w)
  BY <1>1 DEF Kill, Running
<1>2. CASE PowerLoss
  BY <1>2 DEF PowerLoss, Running
<1>3. CASE RetargetParent
  BY <1>3 DEF RetargetParent
<1>4. CASE WriteBack
  BY <1>4 DEF WriteBack
<1>5. CASE UNCHANGED vars
  BY <1>5 DEF vars
<1> QED
  BY <1>1, <1>2, <1>3, <1>4, <1>5

----------------------------------------------------------------------------
\* Claims: as long as no placeholder mkdir reported an error, the one writer
\* whose mkdir succeeded is alone in the election.

Claimant == {"open", "mark", "lock", "unmark", "chmod", "unclaim", "rmdir",
             "check", "rename", "remove"}
Holder   == {"mark", "lock", "unmark", "chmod", "check", "rename", "recheck",
             "readback", "release", "remove"}

ClaimInv ==
    mkdirError = {} =>
        /\ \A w \in Writers :
              /\ pc[w] \in Claimant => target = Slot(w)
              /\ pc[w] \in Holder => fd[w] = Slot(w)
              /\ fd[w] \in {Slot(w), Nothing}
              /\ pc[w] # "lstat"
        /\ closed \cup marked \subseteq Slots

LEMMA ClaimStep ==
    ASSUME TypeInv, ClaimInv, NEW w \in Writers, Step(w)
    PROVE  ClaimInv'
<1> USE DirectoriesDiffer DEF TypeInv, TypeOK, ClaimInv, Claimant, Holder,
        Trees, Slots, names, dirs, claims, control, world,
        Goto, Raise, Release
<1>1. CASE NewStagingDirectory(w)
  BY <1>1 DEF NewStagingDirectory
<1>2. CASE WriteBody(w)
  BY <1>2 DEF WriteBody
<1>3. CASE FsyncStagingTree(w)
  BY <1>3 DEF FsyncStagingTree
<1>4. CASE RequireStableParent(w)
  BY <1>4 DEF RequireStableParent
<1>5. CASE RenameNoReplace(w)
  BY <1>5 DEF RenameNoReplace
<1>6. CASE MakePlaceholder(w)
  BY <1>6 DEF MakePlaceholder
<1>7. CASE OpenPlaceholder(w)
  BY <1>7 DEF OpenPlaceholder
<1>8. CASE CreateMarker(w)
  BY <1>8 DEF CreateMarker, Usable
<1>9. CASE LockPlaceholder(w)
  BY <1>9 DEF LockPlaceholder
<1>10. CASE RemoveMarker(w)
  BY <1>10 DEF RemoveMarker
<1>11. CASE ClosePlaceholder(w)
  BY <1>11 DEF ClosePlaceholder
<1>12. CASE AbandonClaim(w)
  BY <1>12 DEF AbandonClaim
<1>13. CASE RemovePlaceholder(w)
  BY <1>13 DEF RemovePlaceholder, Empty
<1>14. CASE InspectTarget(w)
  BY <1>14 DEF InspectTarget
<1>15. CASE CheckClaim(w)
  BY <1>15 DEF CheckClaim, Matches
<1>16. CASE RenameOverPlaceholder(w)
  BY <1>16 DEF RenameOverPlaceholder, Empty
<1>17. CASE RecheckClaim(w)
  BY <1>17 DEF RecheckClaim, Matches
<1>18. CASE ReadBack(w)
  BY <1>18 DEF ReadBack
<1>19. CASE RemoveIfOwnedLstat(w)
  BY <1>19 DEF RemoveIfOwnedLstat, Unwind, Matches
<1>20. CASE RemoveIfOwnedRmdir(w)
  BY <1>20 DEF RemoveIfOwnedRmdir, Unwind, Empty
<1>21. CASE CloseClaim(w)
  BY <1>21 DEF CloseClaim
<1>22. CASE FsyncParent(w)
  BY <1>22 DEF FsyncParent
<1>23. CASE RequireStableParentAgain(w)
  BY <1>23 DEF RequireStableParentAgain
<1>24. CASE RemoveStagingTree(w)
  BY <1>24 DEF RemoveStagingTree
<1>25. CASE PinParent(w)
  BY <1>25 DEF PinParent
<1> QED
  BY <1>1, <1>2, <1>3, <1>4, <1>5, <1>6, <1>7, <1>8, <1>9, <1>10, <1>11,
     <1>12, <1>13, <1>14, <1>15, <1>16, <1>17, <1>18, <1>19, <1>20,
     <1>21, <1>22, <1>23, <1>24, <1>25 DEF Step

LEMMA ClaimFault ==
    ASSUME TypeInv, ClaimInv, NEW w \in Writers, Fault(w)
    PROVE  ClaimInv'
<1> USE DirectoriesDiffer DEF TypeInv, TypeOK, ClaimInv, Claimant, Holder,
        Trees, Slots, names, dirs, claims, control, world,
        Goto, Raise, Release, Faulty
<1>1. CASE CallFails(w)
  BY <1>1 DEF CallFails, OnError
<1>2. CASE MkdirUnanswered(w)
  BY <1>2 DEF MkdirUnanswered
<1>3. CASE RenameUnanswered(w)
  BY <1>3 DEF RenameUnanswered, Empty
<1>4. CASE BestEffortFails(w)
  BY <1>4 DEF BestEffortFails
<1>5. CASE ReadBackFails(w)
  BY <1>5 DEF ReadBackFails
<1>6. CASE RemoveIfOwnedFails(w)
  BY <1>6 DEF RemoveIfOwnedFails, Empty, Slots
<1>7. CASE ConfirmationFails(w)
  BY <1>7 DEF ConfirmationFails
<1>8. CASE CleanupFails(w)
  BY <1>8 DEF CleanupFails, Staged
<1>9. CASE StagingUnanswered(w)
  BY <1>9 DEF StagingUnanswered
<1>10. CASE ClaimUnanswered(w)
  BY <1>10 DEF ClaimUnanswered, Usable
<1>11. CASE ClaimCloseFails(w)
  BY <1>11 DEF ClaimCloseFails, Usable
<1> QED
  BY <1>1, <1>2, <1>3, <1>4, <1>5, <1>6, <1>7, <1>8, <1>9, <1>10,
     <1>11 DEF Fault

LEMMA ClaimOther ==
    ASSUME TypeInv, ClaimInv,
           \/ \E w \in Writers : Kill(w)
           \/ PowerLoss \/ RetargetParent \/ WriteBack \/ UNCHANGED vars
    PROVE  ClaimInv'
<1> USE DirectoriesDiffer DEF TypeInv, TypeOK, ClaimInv, Claimant, Holder,
        Trees, Slots, names, dirs, claims, control, world,
        Goto, Raise, Release, Incident
<1>1. CASE \E w \in Writers : Kill(w)
  BY <1>1 DEF Kill, Running
<1>2. CASE PowerLoss
  BY <1>2 DEF PowerLoss, Running
<1>3. CASE RetargetParent
  BY <1>3 DEF RetargetParent
<1>4. CASE WriteBack
  BY <1>4 DEF WriteBack
<1>5. CASE UNCHANGED vars
  BY <1>5 DEF vars
<1> QED
  BY <1>1, <1>2, <1>3, <1>4, <1>5

----------------------------------------------------------------------------
\* The inductive invariant.

IInv == TypeInv /\ TreeInv /\ OutcomeInv /\ ClaimInv

LEMMA InitIInv == Init => IInv
<1> SUFFICES ASSUME Init PROVE IInv
  OBVIOUS
<1> USE DirectoriesDiffer DEF Init
<1>1. TypeInv
  BY PublicationAssumption DEF TypeInv, TypeOK, ClaimPins, Labels, Outcomes
<1>2. TreeInv
  BY DEF TreeInv, PublishedIsWhole, StagedIsSynced, DiskFollows, Unsynced,
         Early, Doubtful, Trees
<1>3. OutcomeInv
  BY DEF OutcomeInv, Committed, SuccessIsDurable, CollisionStays, DoubtStays
<1>4. ClaimInv
  BY DEF ClaimInv, Claimant, Holder
<1> QED
  BY <1>1, <1>2, <1>3, <1>4 DEF IInv

LEMMA NextIInv == IInv /\ [Next]_vars => IInv'
<1> SUFFICES ASSUME IInv, [Next]_vars
             PROVE  IInv'
  OBVIOUS
<1> USE DEF IInv
<1>1. ASSUME NEW w \in Writers, Step(w)
      PROVE  IInv'
  BY <1>1, TypeStep, TreeStep, OutcomeStep, ClaimStep
<1>2. ASSUME NEW w \in Writers, Fault(w)
      PROVE  IInv'
  BY <1>2, TypeFault, TreeFault, OutcomeFault, ClaimFault
<1>3. CASE \/ \E w \in Writers : Kill(w)
           \/ PowerLoss \/ RetargetParent \/ WriteBack \/ UNCHANGED vars
  BY <1>3, TypeOther, TreeOther, OutcomeOther, ClaimOther
<1> QED
  BY <1>1, <1>2, <1>3 DEF Next

\* Every reachable state satisfies the invariant.
THEOREM Invariance == Spec => []IInv
BY InitIInv, NextIInv, PTL DEF Spec

----------------------------------------------------------------------------
\* Theorems of the specification.

\* Every variable keeps its type, whatever fails.
THEOREM TypeCorrect == Spec => []TypeOK
<1>1. IInv => TypeOK
  BY DEF IInv, TypeInv
<1> QED
  BY <1>1, Invariance, PTL

\* Readers never find a partial checkpoint at the target name.
THEOREM NoPartialCheckpoint == Spec => []PublishedIsWhole
<1>1. IInv => PublishedIsWhole
  BY DEF IInv, TreeInv
<1> QED
  BY <1>1, Invariance, PTL

\* A reported success stands on stable storage from then on.
THEOREM DurableSuccess == Spec => []SuccessIsDurable
<1>1. IInv => SuccessIsDurable
  BY DEF IInv, OutcomeInv
<1> QED
  BY <1>1, Invariance, PTL

\* At most one content is ever reported as published.
THEOREM AtMostOneWinner == Spec => []OneWinner
<1>1. IInv => OneWinner
  BY DirectoriesDiffer DEF IInv, OutcomeInv, SuccessIsDurable, OneWinner
<1> QED
  BY <1>1, Invariance, PTL

\* A writer left in doubt has not lost its bytes.
THEOREM DoubtKeepsBytes == Spec => []InDoubtKeepsBytes
<1>1. IInv => InDoubtKeepsBytes
  BY DEF IInv, OutcomeInv, DoubtStays, InDoubtKeepsBytes
<1> QED
  BY <1>1, Invariance, PTL

\* "The target already exists" is never told to the writer that published.
THEOREM DefiniteCollision == Spec => []CollisionIsDefinite
<1>1. IInv => CollisionIsDefinite
  BY DEF IInv, TreeInv, DiskFollows, Trees, OutcomeInv, CollisionStays,
         CollisionIsDefinite
<1> QED
  BY <1>1, Invariance, PTL

\* Unless a placeholder mkdir failed, a published checkpoint is never
\* closed or marked by another writer's claim.
THEOREM IntactCheckpoint == Spec => []PublishedIsIntact
<1>1. IInv => PublishedIsIntact
  BY DirectoriesDiffer DEF IInv, ClaimInv, PublishedIsIntact, Published,
         Trees, Slots
<1> QED
  BY <1>1, Invariance, PTL

----------------------------------------------------------------------------
\* Action properties.

\* What a writer's step does to the name: nothing readers can see, or its
\* own tree appears where no tree was, or stable storage catches up.  Only a
\* quiet step ends the transaction.
Quiet(w) ==
    /\ disk' = disk
    /\ target' = target \/ (target \notin Trees /\ target' \notin Trees)
    /\ pc'[w] = "done" /\ result'[w] = "ok" => disk = target /\ StandsFor(w)

Appears(w) ==
    /\ target \notin Trees /\ target' = Tree(w) /\ disk' = disk
    /\ pc'[w] # "done"

CatchesUp(w) == target' = target /\ disk' = target /\ pc'[w] # "done"

Effect(w) ==
    /\ pc[w] # "done"
    /\ \A v \in Writers \ {w} : pc'[v] = pc[v] /\ result'[v] = result[v]
    /\ mkdirError \subseteq mkdirError'
    /\ target' # target =>
          pc'[w] # pc[w] /\ (target = Nothing \/ pc[w] \in Claimant)
    /\ Quiet(w) \/ Appears(w) \/ CatchesUp(w)

LEMMA StepEffect ==
    ASSUME IInv, NEW w \in Writers, Step(w)
    PROVE  Effect(w)
<1> USE DirectoriesDiffer DEF IInv, TypeInv, TypeOK, OutcomeInv, Committed,
        StandsFor, Effect, Quiet, Appears, CatchesUp, Claimant, Trees,
        names, dirs, claims, control, world,
        Goto, Raise, Release
<1>1. CASE NewStagingDirectory(w)
  BY <1>1 DEF NewStagingDirectory
<1>2. CASE WriteBody(w)
  BY <1>2 DEF WriteBody
<1>3. CASE FsyncStagingTree(w)
  BY <1>3 DEF FsyncStagingTree
<1>4. CASE RequireStableParent(w)
  BY <1>4 DEF RequireStableParent
<1>5. CASE RenameNoReplace(w)
  BY <1>5 DEF RenameNoReplace
<1>6. CASE MakePlaceholder(w)
  BY <1>6 DEF MakePlaceholder
<1>7. CASE OpenPlaceholder(w)
  BY <1>7 DEF OpenPlaceholder
<1>8. CASE CreateMarker(w)
  BY <1>8 DEF CreateMarker
<1>9. CASE LockPlaceholder(w)
  BY <1>9 DEF LockPlaceholder
<1>10. CASE RemoveMarker(w)
  BY <1>10 DEF RemoveMarker
<1>11. CASE ClosePlaceholder(w)
  BY <1>11 DEF ClosePlaceholder
<1>12. CASE AbandonClaim(w)
  BY <1>12 DEF AbandonClaim
<1>13. CASE RemovePlaceholder(w)
  BY <1>13 DEF RemovePlaceholder, Empty, Slots
<1>14. CASE InspectTarget(w)
  BY <1>14 DEF InspectTarget
<1>15. CASE CheckClaim(w)
  BY <1>15 DEF CheckClaim
<1>16. CASE RenameOverPlaceholder(w)
  BY <1>16 DEF RenameOverPlaceholder, Empty, Slots
<1>17. CASE RecheckClaim(w)
  BY <1>17 DEF RecheckClaim
<1>18. CASE ReadBack(w)
  BY <1>18 DEF ReadBack
<1>19. CASE RemoveIfOwnedLstat(w)
  BY <1>19 DEF RemoveIfOwnedLstat, Unwind
<1>20. CASE RemoveIfOwnedRmdir(w)
  BY <1>20 DEF RemoveIfOwnedRmdir, Unwind, Empty, Slots
<1>21. CASE CloseClaim(w)
  BY <1>21 DEF CloseClaim
<1>22. CASE FsyncParent(w)
  BY <1>22 DEF FsyncParent
<1>23. CASE RequireStableParentAgain(w)
  BY <1>23 DEF RequireStableParentAgain
<1>24. CASE RemoveStagingTree(w)
  BY <1>24 DEF RemoveStagingTree
<1>25. CASE PinParent(w)
  BY <1>25 DEF PinParent
<1> QED
  BY <1>1, <1>2, <1>3, <1>4, <1>5, <1>6, <1>7, <1>8, <1>9, <1>10, <1>11,
     <1>12, <1>13, <1>14, <1>15, <1>16, <1>17, <1>18, <1>19, <1>20,
     <1>21, <1>22, <1>23, <1>24, <1>25 DEF Step

LEMMA FaultEffect ==
    ASSUME IInv, NEW w \in Writers, Fault(w)
    PROVE  Effect(w)
<1> USE DirectoriesDiffer DEF IInv, TypeInv, TypeOK, OutcomeInv, Committed,
        StandsFor, Effect, Quiet, Appears, CatchesUp, Claimant, Trees,
        names, dirs, claims, control, world,
        Goto, Raise, Release, Faulty
<1>1. CASE CallFails(w)
  BY <1>1 DEF CallFails, OnError
<1>2. CASE MkdirUnanswered(w)
  BY <1>2 DEF MkdirUnanswered
<1>3. CASE RenameUnanswered(w)
  BY <1>3 DEF RenameUnanswered, Empty, Slots
<1>4. CASE BestEffortFails(w)
  BY <1>4 DEF BestEffortFails
<1>5. CASE ReadBackFails(w)
  BY <1>5 DEF ReadBackFails
<1>6. CASE RemoveIfOwnedFails(w)
  BY <1>6 DEF RemoveIfOwnedFails, Empty, Slots
<1>7. CASE ConfirmationFails(w)
  BY <1>7 DEF ConfirmationFails
<1>8. CASE CleanupFails(w)
  BY <1>8 DEF CleanupFails, Staged
<1>9. CASE StagingUnanswered(w)
  BY <1>9 DEF StagingUnanswered
<1>10. CASE ClaimUnanswered(w)
  BY <1>10 DEF ClaimUnanswered, Usable
<1>11. CASE ClaimCloseFails(w)
  BY <1>11 DEF ClaimCloseFails, Usable
<1> QED
  BY <1>1, <1>2, <1>3, <1>4, <1>5, <1>6, <1>7, <1>8, <1>9, <1>10,
     <1>11 DEF Fault

LEMMA KillEffect ==
    ASSUME IInv, NEW w \in Writers, Kill(w)
    PROVE  Effect(w)
BY DirectoriesDiffer DEF IInv, TypeInv, TypeOK, OutcomeInv, Committed,
        StandsFor, Effect, Quiet, Appears, CatchesUp, Claimant, Trees,
        names, dirs, claims, control, world,
        Goto, Raise, Release, Kill, Running, Incident

\* A step of the specification is one of these effects, a power loss, or
\* leaves the names and the answers alone.
LEMMA NextEffect ==
    ASSUME IInv, [Next]_vars
    PROVE  \/ \E w \in Writers : Effect(w)
           \/ PowerLoss
           \/ /\ UNCHANGED <<target, control, mkdirError>>
              /\ disk' \in {disk, target}
<1>1. ASSUME NEW w \in Writers, Step(w) \/ Fault(w) \/ Kill(w)
      PROVE  Effect(w)
  BY <1>1, StepEffect, FaultEffect, KillEffect
<1>2. CASE RetargetParent \/ UNCHANGED vars
  BY <1>2 DEF RetargetParent, vars, names, claims, control
<1>3. CASE WriteBack
  BY <1>3 DEF WriteBack, claims, control
<1> QED
  BY <1>1, <1>2, <1>3 DEF Next

\* A checkpoint at the name is replaced by nobody.
THEOREM NeverReplacedHolds == Spec => NeverReplaced
<1>1. ASSUME IInv, [Next]_vars
      PROVE  [/\ disk \in Trees => disk' = disk
              /\ Published /\ target' # target =>
                    target' = disk /\ PowerLoss]_vars
  <2>1. ASSUME NEW w \in Writers, Effect(w)
        PROVE  /\ disk \in Trees => disk' = disk
               /\ Published => target' = target
    BY <1>1, <2>1 DEF IInv, TreeInv, DiskFollows, Effect, Quiet, Appears,
                      CatchesUp, Published
  <2>2. CASE PowerLoss
    BY <2>2 DEF PowerLoss
  <2>3. CASE /\ UNCHANGED <<target, control, mkdirError>>
             /\ disk' \in {disk, target}
    BY <1>1, <2>3 DEF IInv, TreeInv, DiskFollows
  <2> QED
    BY <1>1, <2>1, <2>2, <2>3, NextEffect
<1> QED
  BY <1>1, Invariance, PTL DEF Spec, NeverReplaced

\* A claimed placeholder is removed or replaced by its creator only.
THEOREM ClaimIsRespectedHolds == Spec => ClaimIsRespected
<1> DEFINE Respected ==
      \A w \in Writers :
         mkdirError' = {} /\ incidents' = incidents
           /\ target = Slot(w) /\ target' # target => pc'[w] # pc[w]
<1>1. ASSUME IInv, [Next]_vars
      PROVE  Respected
  <2>1. ASSUME NEW v \in Writers, Effect(v)
        PROVE  Respected
    BY <1>1, <2>1, DirectoriesDiffer DEF IInv, ClaimInv, Effect
  <2>2. CASE PowerLoss
    BY <1>1, <2>2 DEF IInv, TypeInv, TypeOK, PowerLoss, Incident
  <2>3. CASE /\ UNCHANGED <<target, control, mkdirError>>
             /\ disk' \in {disk, target}
    BY <2>3
  <2> QED
    BY <1>1, <2>1, <2>2, <2>3, NextEffect
<1>2. ASSUME IInv, [Next]_vars
      PROVE  [Respected]_vars
  BY <1>1, <1>2
<1> QED
  BY <1>2, Invariance, PTL DEF Spec, ClaimIsRespected

----------------------------------------------------------------------------
\* Refinement of the put-if-absent store.

LEMMA ContentOfTree == \A w \in Writers : ContentOf(Tree(w)) = Payload[w]
BY DEF ContentOf, Tree, Trees

LEMMA AtomicInit == Init => Atomic!Init
BY DirectoriesDiffer DEF Init, Atomic!Init, ContentOf, Told, Trees

LEMMA AtomicNext ==
    ASSUME IInv, [Next]_vars
    PROVE  [Atomic!Next]_(Atomic!absVars)
<1> USE DEF Atomic!absVars
<1> DEFINE answers == [v \in Writers |-> Told(v)]
<1>1. ASSUME NEW w \in Writers, Effect(w), Quiet(w)
      PROVE  \/ UNCHANGED Atomic!absVars
             \/ Atomic!Succeed(w) \/ Atomic!Decline(w)
  <2>1. UNCHANGED <<ContentOf(target), ContentOf(disk)>>
    BY <1>1 DEF Quiet, ContentOf
  <2>2. Told(w) = "none" /\ \A v \in Writers \ {w} : Told(v)' = Told(v)
    BY <1>1 DEF Effect, Told
  <2>3. CASE pc'[w] # "done"
    <3>1. answers' = answers
      BY <2>2, <2>3 DEF Told
    <3> QED
      BY <2>1, <3>1
  <2>4. CASE pc'[w] = "done" /\ result'[w] = "ok"
    <3>1. answers' = [answers EXCEPT ![w] = "success"]
      BY <2>2, <2>4 DEF Told
    <3>2. ContentOf(target) = Payload[w] /\ ContentOf(disk) = Payload[w]
      BY <1>1, <2>4, ContentOfTree DEF Quiet, StandsFor
    <3> QED
      BY <2>1, <2>2, <3>1, <3>2 DEF Atomic!Succeed
  <2>5. CASE pc'[w] = "done" /\ result'[w] # "ok"
    <3>1. answers' = [answers EXCEPT ![w] = "other"]
      BY <2>2, <2>5 DEF Told
    <3> QED
      BY <2>1, <2>2, <3>1 DEF Atomic!Decline
  <2> QED
    BY <2>3, <2>4, <2>5
<1>2. ASSUME NEW w \in Writers, Effect(w), pc'[w] # "done"
      PROVE  answers' = answers
  BY <1>2 DEF Effect, Told
<1>3. ASSUME NEW w \in Writers, Effect(w), Appears(w)
      PROVE  Atomic!Publish(w)
  <2>1. ContentOf(target) = Nothing /\ ContentOf(disk)' = ContentOf(disk)
    BY <1>3 DEF Appears, ContentOf
  <2>2. ContentOf(target)' = Payload[w]
    BY <1>3, ContentOfTree DEF Appears, ContentOf
  <2> QED
    BY <1>2, <1>3, <2>1, <2>2 DEF Appears, Atomic!Publish
<1>4. ASSUME NEW w \in Writers, Effect(w), CatchesUp(w)
      PROVE  Atomic!Persist
  BY <1>2, <1>4 DEF CatchesUp, ContentOf, Atomic!Persist
<1>5. CASE PowerLoss
  <2>1. \A v \in Writers : answers'[v] # answers[v] =>
                             answers[v] = "none" /\ answers'[v] = "other"
    BY <1>5 DEF PowerLoss, Running, Told
  <2>2. answers' \in [Writers -> Atomic!Answers]
    BY DEF Atomic!Answers, Told
  <2>3. /\ ContentOf(target)' = ContentOf(disk)
        /\ ContentOf(disk)' = ContentOf(disk)
    BY <1>5 DEF PowerLoss, ContentOf
  <2> QED
    BY <2>1, <2>2, <2>3 DEF Atomic!Lose, Atomic!Next
<1>6. CASE /\ UNCHANGED <<target, control, mkdirError>>
           /\ disk' \in {disk, target}
  <2>1. answers' = answers /\ ContentOf(target)' = ContentOf(target)
    BY <1>6 DEF control, Told, ContentOf
  <2>2. ContentOf(disk)' \in {ContentOf(disk), ContentOf(target)}
    BY <1>6 DEF ContentOf
  <2> QED
    BY <2>1, <2>2 DEF Atomic!Persist, Atomic!Next
<1> QED
  BY <1>1, <1>3, <1>4, <1>5, <1>6, NextEffect DEF Effect, Atomic!Next

\* The protocol implements the put-if-absent store: its steps are the
\* store's steps, or invisible.
THEOREM Refinement == Spec => ImplementsAtomic
<1>1. ASSUME IInv, [Next]_vars
      PROVE  [Atomic!Next]_(Atomic!absVars)
  BY <1>1, AtomicNext
<1> QED
  BY <1>1, AtomicInit, Invariance, PTL
     DEF Spec, ImplementsAtomic, Atomic!Spec

----------------------------------------------------------------------------
\* What holds only where some calls do not fail.

\* Calls after whose failure a writer cannot tell what it did: the mkdir and
\* the look at the name after a rename error; the removal of a claim, whose
\* own error replaces the ambiguous one; the close of a claim whose rename
\* was served; the look at the staging name in the clean-up, whose error
\* replaces a durability error; and a rename that is not read back.
TellingFaults ==
    /\ FaultSites \cap {"mkdir", "recheck", "release", "remove", "close",
                        "cleanup"} = {}
    /\ OnNFS \/ "publish" \notin FaultSites

Undecided == {"idle", "identity", "body", "sync", "parent", "publish",
              "mkdir", "open", "mark", "lock", "unmark", "chmod", "check", "rename", "recheck",
              "readback", "close", "fsync", "reparent"}

ToldApart ==
    \A w \in Writers :
        /\ pc[w] \in Undecided => result[w] = "none"
        /\ result[w] \in {"exists", "io_error"} => target # Tree(w)

TellingInv == mkdirError = {} /\ ToldApart

LEMMA TellingStep ==
    ASSUME IInv, TellingInv, TellingFaults, NEW w \in Writers, Step(w)
    PROVE  TellingInv'
<1> USE DirectoriesDiffer DEF IInv, TypeInv, TypeOK, TreeInv,
        PublishedIsWhole, StagedIsSynced, DiskFollows, Unsynced, Early,
        Doubtful, ClaimInv, Claimant, Holder, Trees, Slots, TellingInv,
        ToldApart, Undecided, names, dirs, claims, control, world,
        Goto, Raise, Release
<1>1. CASE NewStagingDirectory(w)
  BY <1>1 DEF NewStagingDirectory
<1>2. CASE WriteBody(w)
  BY <1>2 DEF WriteBody
<1>3. CASE FsyncStagingTree(w)
  BY <1>3 DEF FsyncStagingTree
<1>4. CASE RequireStableParent(w)
  BY <1>4 DEF RequireStableParent
<1>5. CASE RenameNoReplace(w)
  BY <1>5 DEF RenameNoReplace
<1>6. CASE MakePlaceholder(w)
  BY <1>6 DEF MakePlaceholder
<1>7. CASE OpenPlaceholder(w)
  BY <1>7 DEF OpenPlaceholder
<1>8. CASE CreateMarker(w)
  BY <1>8 DEF CreateMarker
<1>9. CASE LockPlaceholder(w)
  BY <1>9 DEF LockPlaceholder
<1>10. CASE RemoveMarker(w)
  BY <1>10 DEF RemoveMarker
<1>11. CASE ClosePlaceholder(w)
  BY <1>11 DEF ClosePlaceholder
<1>12. CASE AbandonClaim(w)
  BY <1>12 DEF AbandonClaim
<1>13. CASE RemovePlaceholder(w)
  BY <1>13 DEF RemovePlaceholder, Empty
<1>14. CASE InspectTarget(w)
  BY <1>14 DEF InspectTarget
<1>15. CASE CheckClaim(w)
  BY <1>15 DEF CheckClaim
<1>16. CASE RenameOverPlaceholder(w)
  BY <1>16 DEF RenameOverPlaceholder, Empty
<1>17. CASE RecheckClaim(w)
  BY <1>17 DEF RecheckClaim, Matches
<1>18. CASE ReadBack(w)
  BY <1>18 DEF ReadBack
<1>19. CASE RemoveIfOwnedLstat(w)
  BY <1>19 DEF RemoveIfOwnedLstat, Unwind
<1>20. CASE RemoveIfOwnedRmdir(w)
  BY <1>20 DEF RemoveIfOwnedRmdir, Empty, Unwind
<1>21. CASE CloseClaim(w)
  BY <1>21 DEF CloseClaim
<1>22. CASE FsyncParent(w)
  BY <1>22 DEF FsyncParent
<1>23. CASE RequireStableParentAgain(w)
  BY <1>23 DEF RequireStableParentAgain
<1>24. CASE RemoveStagingTree(w)
  BY <1>24 DEF RemoveStagingTree
<1>25. CASE PinParent(w)
  BY <1>25 DEF PinParent
<1> QED
  BY <1>1, <1>2, <1>3, <1>4, <1>5, <1>6, <1>7, <1>8, <1>9, <1>10, <1>11,
     <1>12, <1>13, <1>14, <1>15, <1>16, <1>17, <1>18, <1>19, <1>20, <1>21,
     <1>22, <1>23, <1>24, <1>25 DEF Step

LEMMA TellingFault ==
    ASSUME IInv, TellingInv, TellingFaults, NEW w \in Writers, Fault(w)
    PROVE  TellingInv'
<1> USE DirectoriesDiffer DEF IInv, TypeInv, TypeOK, TreeInv,
        PublishedIsWhole, StagedIsSynced, DiskFollows, Unsynced, Early,
        Doubtful, ClaimInv, Claimant, Holder, Trees, Slots, TellingInv,
        ToldApart, Undecided, names, dirs, claims, control, world,
        Goto, Raise, Release,
        Faulty, TellingFaults
<1>1. CASE CallFails(w)
  BY <1>1 DEF CallFails, OnError, Staged
<1>2. CASE MkdirUnanswered(w)
  BY <1>2 DEF MkdirUnanswered
<1>3. CASE RenameUnanswered(w)
  BY <1>3 DEF RenameUnanswered, Empty
<1>4. CASE BestEffortFails(w)
  BY <1>4 DEF BestEffortFails
<1>5. CASE ReadBackFails(w)
  BY <1>5 DEF ReadBackFails
<1>6. CASE RemoveIfOwnedFails(w)
  BY <1>6 DEF RemoveIfOwnedFails, Empty, Slots
<1>7. CASE ConfirmationFails(w)
  BY <1>7 DEF ConfirmationFails
<1>8. CASE CleanupFails(w)
  BY <1>8 DEF CleanupFails, Staged
<1>9. CASE StagingUnanswered(w)
  BY <1>9 DEF StagingUnanswered
<1>10. CASE ClaimUnanswered(w)
  BY <1>10 DEF ClaimUnanswered, Usable
<1>11. CASE ClaimCloseFails(w)
  BY <1>11 DEF ClaimCloseFails, Usable
<1> QED
  BY <1>1, <1>2, <1>3, <1>4, <1>5, <1>6, <1>7, <1>8, <1>9, <1>10,
     <1>11 DEF Fault

LEMMA TellingOther ==
    ASSUME IInv, TellingInv, TellingFaults,
           \/ \E w \in Writers : Kill(w)
           \/ PowerLoss \/ RetargetParent \/ WriteBack \/ UNCHANGED vars
    PROVE  TellingInv'
<1> USE DirectoriesDiffer DEF IInv, TypeInv, TypeOK, TreeInv,
        PublishedIsWhole, StagedIsSynced, DiskFollows, Unsynced, Early,
        Doubtful, ClaimInv, Claimant, Holder, Trees, Slots, TellingInv,
        ToldApart, Undecided, names, dirs, claims, control, world,
        Goto, Raise, Release,
        Incident
<1>1. CASE \E w \in Writers : Kill(w)
  BY <1>1 DEF Kill, Running
<1>2. CASE PowerLoss
  BY <1>2 DEF PowerLoss, Running
<1>3. CASE RetargetParent
  BY <1>3 DEF RetargetParent
<1>4. CASE WriteBack
  BY <1>4 DEF WriteBack
<1>5. CASE UNCHANGED vars
  BY <1>5 DEF vars
<1> QED
  BY <1>1, <1>2, <1>3, <1>4, <1>5

\* Where those calls do not fail, an error that is not ambiguous is told of
\* no published checkpoint, through incidents of any kind.
THEOREM UnconfirmedIsTold ==
    ASSUME TellingFaults PROVE Spec => []UnconfirmedIsAmbiguous
<1>1. Init => TellingInv
  BY DirectoriesDiffer DEF Init, TellingInv, ToldApart
<1>2. ASSUME IInv, TellingInv, [Next]_vars PROVE TellingInv'
  <2>1. CASE \E w \in Writers : Step(w)
    BY <1>2, <2>1, TellingStep
  <2>2. CASE \E w \in Writers : Fault(w)
    BY <1>2, <2>2, TellingFault
  <2>3. CASE \/ \E w \in Writers : Kill(w)
             \/ PowerLoss \/ RetargetParent \/ WriteBack \/ UNCHANGED vars
    BY <1>2, <2>3, TellingOther
  <2> QED
    BY <1>2, <2>1, <2>2, <2>3 DEF Next
<1>3. TellingInv => UnconfirmedIsAmbiguous
  BY DEF TellingInv, ToldApart, UnconfirmedIsAmbiguous
<1> QED
  BY <1>1, <1>2, <1>3, Invariance, PTL DEF Spec

\* The making of the staging directory, the look at its parent, which comes
\* before the try that cleans up, and the clean-up itself do not fail.
CleanableFaults == FaultSites \cap {"idle", "identity", "cleanup"} = {}

\* A writer that has ended left no staging tree, nor will it when its last
\* confirmation ends.
ResidueInv ==
    incidents = 0 =>
        \A w \in Writers :
            /\ pc[w] = "idle" => tree[w] = "none"
            /\ pc[w] \in {"fsync", "reparent"} => ~Staged(w)
            /\ pc[w] = "done" =>
                  ~Staged(w) \/ result[w] \in {"ambiguous", "killed"}

LEMMA ResidueStep ==
    ASSUME IInv, ResidueInv, CleanableFaults,
           NEW w \in Writers, Step(w)
    PROVE  ResidueInv'
<1> USE DirectoriesDiffer DEF IInv, TypeInv, TypeOK, Trees, Slots,
        ResidueInv, Staged, names, dirs, claims, control, world,
        Goto, Raise, Release
<1>1. CASE NewStagingDirectory(w)
  BY <1>1 DEF NewStagingDirectory
<1>2. CASE WriteBody(w)
  BY <1>2 DEF WriteBody
<1>3. CASE FsyncStagingTree(w)
  BY <1>3 DEF FsyncStagingTree
<1>4. CASE RequireStableParent(w)
  BY <1>4 DEF RequireStableParent
<1>5. CASE RenameNoReplace(w)
  BY <1>5 DEF RenameNoReplace
<1>6. CASE MakePlaceholder(w)
  BY <1>6 DEF MakePlaceholder
<1>7. CASE OpenPlaceholder(w)
  BY <1>7 DEF OpenPlaceholder
<1>8. CASE CreateMarker(w)
  BY <1>8 DEF CreateMarker
<1>9. CASE LockPlaceholder(w)
  BY <1>9 DEF LockPlaceholder
<1>10. CASE RemoveMarker(w)
  BY <1>10 DEF RemoveMarker
<1>11. CASE ClosePlaceholder(w)
  BY <1>11 DEF ClosePlaceholder
<1>12. CASE AbandonClaim(w)
  BY <1>12 DEF AbandonClaim
<1>13. CASE RemovePlaceholder(w)
  BY <1>13 DEF RemovePlaceholder, Empty
<1>14. CASE InspectTarget(w)
  BY <1>14 DEF InspectTarget
<1>15. CASE CheckClaim(w)
  BY <1>15 DEF CheckClaim
<1>16. CASE RenameOverPlaceholder(w)
  BY <1>16 DEF RenameOverPlaceholder, Empty
<1>17. CASE RecheckClaim(w)
  BY <1>17 DEF RecheckClaim, Matches
<1>18. CASE ReadBack(w)
  BY <1>18 DEF ReadBack
<1>19. CASE RemoveIfOwnedLstat(w)
  BY <1>19 DEF RemoveIfOwnedLstat, Unwind
<1>20. CASE RemoveIfOwnedRmdir(w)
  BY <1>20 DEF RemoveIfOwnedRmdir, Empty, Unwind
<1>21. CASE CloseClaim(w)
  BY <1>21 DEF CloseClaim
<1>22. CASE FsyncParent(w)
  BY <1>22 DEF FsyncParent
<1>23. CASE RequireStableParentAgain(w)
  BY <1>23 DEF RequireStableParentAgain
<1>24. CASE RemoveStagingTree(w)
  BY <1>24 DEF RemoveStagingTree
<1>25. CASE PinParent(w)
  BY <1>25 DEF PinParent
<1> QED
  BY <1>1, <1>2, <1>3, <1>4, <1>5, <1>6, <1>7, <1>8, <1>9, <1>10, <1>11,
     <1>12, <1>13, <1>14, <1>15, <1>16, <1>17, <1>18, <1>19, <1>20, <1>21,
     <1>22, <1>23, <1>24, <1>25 DEF Step

LEMMA ResidueFault ==
    ASSUME IInv, ResidueInv, CleanableFaults,
           NEW w \in Writers, Fault(w)
    PROVE  ResidueInv'
<1> USE DirectoriesDiffer DEF IInv, TypeInv, TypeOK, Trees, Slots,
        ResidueInv, Staged, names, dirs, claims, control, world,
        Goto, Raise, Release,
        Faulty, CleanableFaults
<1>1. CASE CallFails(w)
  BY <1>1 DEF CallFails, OnError, Staged
<1>2. CASE MkdirUnanswered(w)
  BY <1>2 DEF MkdirUnanswered
<1>3. CASE RenameUnanswered(w)
  BY <1>3 DEF RenameUnanswered, Empty
<1>4. CASE BestEffortFails(w)
  BY <1>4 DEF BestEffortFails
<1>5. CASE ReadBackFails(w)
  BY <1>5 DEF ReadBackFails
<1>6. CASE RemoveIfOwnedFails(w)
  BY <1>6 DEF RemoveIfOwnedFails, Empty, Slots
<1>7. CASE ConfirmationFails(w)
  BY <1>7 DEF ConfirmationFails
<1>8. CASE CleanupFails(w)
  BY <1>8 DEF CleanupFails, Staged
<1>9. CASE StagingUnanswered(w)
  BY <1>9 DEF StagingUnanswered
<1>10. CASE ClaimUnanswered(w)
  BY <1>10 DEF ClaimUnanswered, Usable
<1>11. CASE ClaimCloseFails(w)
  BY <1>11 DEF ClaimCloseFails, Usable
<1> QED
  BY <1>1, <1>2, <1>3, <1>4, <1>5, <1>6, <1>7, <1>8, <1>9, <1>10,
     <1>11 DEF Fault

LEMMA ResidueOther ==
    ASSUME IInv, ResidueInv, CleanableFaults,
           \/ \E w \in Writers : Kill(w)
           \/ PowerLoss \/ RetargetParent \/ WriteBack \/ UNCHANGED vars
    PROVE  ResidueInv'
<1> USE DirectoriesDiffer DEF IInv, TypeInv, TypeOK, Trees, Slots,
        ResidueInv, Staged, names, dirs, claims, control, world,
        Goto, Raise, Release,
        Incident
<1>1. CASE \E w \in Writers : Kill(w)
  BY <1>1 DEF Kill, Running
<1>2. CASE PowerLoss
  BY <1>2 DEF PowerLoss, Running
<1>3. CASE RetargetParent
  BY <1>3 DEF RetargetParent
<1>4. CASE WriteBack
  BY <1>4 DEF WriteBack
<1>5. CASE UNCHANGED vars
  BY <1>5 DEF vars
<1> QED
  BY <1>1, <1>2, <1>3, <1>4, <1>5

\* Where those three do not fail, only ambiguity and incidents leave a staging
\* tree behind, whatever other calls fail.
THEOREM NoResidueHolds ==
    ASSUME CleanableFaults PROVE Spec => []NoStagingResidue
<1>1. Init => ResidueInv
  BY DEF Init, ResidueInv
<1>2. ASSUME IInv, ResidueInv, [Next]_vars PROVE ResidueInv'
  <2>1. CASE \E w \in Writers : Step(w)
    BY <1>2, <2>1, ResidueStep
  <2>2. CASE \E w \in Writers : Fault(w)
    BY <1>2, <2>2, ResidueFault
  <2>3. CASE \/ \E w \in Writers : Kill(w)
             \/ PowerLoss \/ RetargetParent \/ WriteBack \/ UNCHANGED vars
    BY <1>2, <2>3, ResidueOther
  <2> QED
    BY <1>2, <2>1, <2>2, <2>3 DEF Next
<1>3. IInv /\ ResidueInv => NoStagingResidue
  BY DEF IInv, TypeInv, TypeOK, ResidueInv, NoStagingResidue
<1> QED
  BY <1>1, <1>2, <1>3, Invariance, PTL DEF Spec
----------------------------------------------------------------------------
\* Where mkdir does not fail, nobody ever claims what it did not create.

\* A writer whose rename was not answered still holds the name, with its
\* placeholder or with its tree; what it reads back is its tree.
HolderInv ==
    /\ mkdirError = {}
    /\ \A w \in Writers :
          /\ pc[w] \in {"recheck", "readback"} => target \in {Slot(w), Tree(w)}
          /\ pc[w] = "readback" => target = Tree(w)

\* No step becomes ambiguous about a name that nothing stands at.
AmbiguityIsFounded ==
    \A w \in Writers :
        result'[w] = "ambiguous" /\ result[w] # "ambiguous" =>
            target # Nothing

LEMMA HolderStep ==
    ASSUME IInv, HolderInv, "mkdir" \notin FaultSites,
           NEW w \in Writers, Step(w)
    PROVE  HolderInv' /\ AmbiguityIsFounded
<1> USE DirectoriesDiffer DEF IInv, TypeInv, TypeOK, TreeInv,
        PublishedIsWhole, StagedIsSynced,
        Early, Doubtful, OutcomeInv, Committed, StandsFor, ClaimInv, Claimant,
        Holder, Trees, Slots, HolderInv, AmbiguityIsFounded, names, dirs,
        claims, control, world, Goto, Raise, Release
<1>1. CASE NewStagingDirectory(w)
  BY <1>1 DEF NewStagingDirectory
<1>2. CASE WriteBody(w)
  BY <1>2 DEF WriteBody
<1>3. CASE FsyncStagingTree(w)
  BY <1>3 DEF FsyncStagingTree
<1>4. CASE RequireStableParent(w)
  BY <1>4 DEF RequireStableParent
<1>5. CASE RenameNoReplace(w)
  BY <1>5 DEF RenameNoReplace
<1>6. CASE MakePlaceholder(w)
  BY <1>6 DEF MakePlaceholder
<1>7. CASE OpenPlaceholder(w)
  BY <1>7 DEF OpenPlaceholder, Accessible
<1>8. CASE CreateMarker(w)
  BY <1>8 DEF CreateMarker, Usable, Accessible
<1>9. CASE LockPlaceholder(w)
  BY <1>9 DEF LockPlaceholder
<1>10. CASE RemoveMarker(w)
  BY <1>10 DEF RemoveMarker, Usable, Accessible
<1>11. CASE ClosePlaceholder(w)
  BY <1>11 DEF ClosePlaceholder
<1>12. CASE AbandonClaim(w)
  BY <1>12 DEF AbandonClaim
<1>13. CASE RemovePlaceholder(w)
  BY <1>13 DEF RemovePlaceholder, Empty
<1>14. CASE InspectTarget(w)
  BY <1>14 DEF InspectTarget
<1>15. CASE CheckClaim(w)
  BY <1>15 DEF CheckClaim, Matches
<1>16. CASE RenameOverPlaceholder(w)
  BY <1>16 DEF RenameOverPlaceholder, Empty
<1>17. CASE RecheckClaim(w)
  BY <1>17 DEF RecheckClaim, Matches
<1>18. CASE ReadBack(w)
  BY <1>18 DEF ReadBack, Confirmed
<1>19. CASE RemoveIfOwnedLstat(w)
  BY <1>19 DEF RemoveIfOwnedLstat, Unwind, Matches
<1>20. CASE RemoveIfOwnedRmdir(w)
  BY <1>20 DEF RemoveIfOwnedRmdir, Unwind, Empty
<1>21. CASE CloseClaim(w)
  BY <1>21 DEF CloseClaim
<1>22. CASE FsyncParent(w)
  BY <1>22 DEF FsyncParent
<1>23. CASE RequireStableParentAgain(w)
  BY <1>23 DEF RequireStableParentAgain
<1>24. CASE RemoveStagingTree(w)
  BY <1>24 DEF RemoveStagingTree
<1>25. CASE PinParent(w)
  BY <1>25 DEF PinParent
<1> QED
  BY <1>1, <1>2, <1>3, <1>4, <1>5, <1>6, <1>7, <1>8, <1>9, <1>10, <1>11,
     <1>12, <1>13, <1>14, <1>15, <1>16, <1>17, <1>18, <1>19, <1>20,
     <1>21, <1>22, <1>23, <1>24, <1>25 DEF Step

LEMMA HolderFault ==
    ASSUME IInv, HolderInv, "mkdir" \notin FaultSites,
           NEW w \in Writers, Fault(w)
    PROVE  HolderInv' /\ AmbiguityIsFounded
<1> USE DirectoriesDiffer DEF IInv, TypeInv, TypeOK, TreeInv,
        PublishedIsWhole, StagedIsSynced,
        Early, Doubtful, OutcomeInv, Committed, StandsFor, ClaimInv, Claimant,
        Holder, Trees, Slots, HolderInv, AmbiguityIsFounded, names, dirs,
        claims, control, world, Goto, Raise, Release, Faulty
<1>1. CASE CallFails(w)
  BY <1>1 DEF CallFails, OnError
<1>2. CASE MkdirUnanswered(w)
  BY <1>2 DEF MkdirUnanswered
<1>3. CASE RenameUnanswered(w)
  BY <1>3 DEF RenameUnanswered, Empty
<1>4. CASE BestEffortFails(w)
  BY <1>4 DEF BestEffortFails
<1>5. CASE ReadBackFails(w)
  BY <1>5 DEF ReadBackFails
<1>6. CASE RemoveIfOwnedFails(w)
  BY <1>6 DEF RemoveIfOwnedFails, Empty, Slots
<1>7. CASE ConfirmationFails(w)
  BY <1>7 DEF ConfirmationFails
<1>8. CASE CleanupFails(w)
  BY <1>8 DEF CleanupFails, Staged
<1>9. CASE StagingUnanswered(w)
  BY <1>9 DEF StagingUnanswered
<1>10. CASE ClaimUnanswered(w)
  BY <1>10 DEF ClaimUnanswered, Usable
<1>11. CASE ClaimCloseFails(w)
  BY <1>11 DEF ClaimCloseFails, Usable
<1> QED
  BY <1>1, <1>2, <1>3, <1>4, <1>5, <1>6, <1>7, <1>8, <1>9, <1>10,
     <1>11 DEF Fault

LEMMA HolderOther ==
    ASSUME IInv, HolderInv,
           \/ \E w \in Writers : Kill(w)
           \/ PowerLoss \/ RetargetParent \/ WriteBack \/ UNCHANGED vars
    PROVE  HolderInv' /\ AmbiguityIsFounded
<1> USE DirectoriesDiffer DEF IInv, TypeInv, TypeOK, TreeInv,
        PublishedIsWhole, StagedIsSynced,
        Early, Doubtful, OutcomeInv, Committed, StandsFor, ClaimInv, Claimant,
        Holder, Trees, Slots, HolderInv, AmbiguityIsFounded, names, dirs,
        claims, control, world, Goto, Raise, Release, Incident
<1>1. CASE \E w \in Writers : Kill(w)
  BY <1>1 DEF Kill, Running
<1>2. CASE PowerLoss
  BY <1>2 DEF PowerLoss, Running
<1>3. CASE RetargetParent
  BY <1>3 DEF RetargetParent
<1>4. CASE WriteBack
  BY <1>4 DEF WriteBack
<1>5. CASE UNCHANGED vars
  BY <1>5 DEF vars
<1> QED
  BY <1>1, <1>2, <1>3, <1>4, <1>5

LEMMA HolderInvariance ==
    ASSUME "mkdir" \notin FaultSites
    PROVE  /\ Init => HolderInv
           /\ IInv /\ HolderInv /\ [Next]_vars =>
                 HolderInv' /\ AmbiguityIsFounded
<1>1. Init => HolderInv
  BY DEF Init, HolderInv
<1>2. ASSUME IInv, HolderInv, [Next]_vars
      PROVE  HolderInv' /\ AmbiguityIsFounded
  <2>1. CASE \E w \in Writers : Step(w)
    BY <1>2, <2>1, HolderStep
  <2>2. CASE \E w \in Writers : Fault(w)
    BY <1>2, <2>2, HolderFault
  <2>3. CASE \/ \E w \in Writers : Kill(w)
             \/ PowerLoss \/ RetargetParent \/ WriteBack \/ UNCHANGED vars
    BY <1>2, <2>3, HolderOther
  <2> QED
    BY <1>2, <2>1, <2>2, <2>3 DEF Next
<1> QED
  BY <1>1, <1>2

\* Where mkdir does not fail an ambiguous outcome is told of a name that
\* exists: the finding AmbiguousAbsent is about mkdir errors alone.
THEOREM AmbiguityHasTarget ==
    ASSUME "mkdir" \notin FaultSites PROVE Spec => AmbiguousHasTarget
<1>1. ASSUME IInv, HolderInv, [Next]_vars
      PROVE  [AmbiguityIsFounded]_vars
  BY <1>1, HolderInvariance
<1> QED
  BY <1>1, HolderInvariance, Invariance, PTL
     DEF Spec, AmbiguousHasTarget, AmbiguityIsFounded

\* Where mkdir does not fail no writer marks or closes a published
\* checkpoint: the finding DestinationTouched is about mkdir errors alone.
THEOREM DestinationsStayUntouched ==
    ASSUME "mkdir" \notin FaultSites PROVE Spec => []DestinationsUntouched
<1>1. HolderInv /\ PublishedIsIntact => DestinationsUntouched
  BY DEF HolderInv, PublishedIsIntact, DestinationsUntouched
<1>2. ASSUME IInv, HolderInv, [Next]_vars PROVE HolderInv'
  BY <1>2, HolderInvariance
<1> QED
  BY <1>1, <1>2, HolderInvariance, IntactCheckpoint, Invariance, PTL DEF Spec
----------------------------------------------------------------------------
\* An undisturbed race.

Waiting == {"idle", "identity", "body", "sync", "parent", "publish", "mkdir"}
Electing == {"open", "mark", "lock", "unmark", "chmod", "check", "rename"}
Confirming == {"close", "fsync", "reparent"}

\* While nobody has claimed the name everybody waits; a claim is its
\* creator's to the end, and what it holds is as its creator left it; once a
\* tree stands at the name, its writer confirms it and the others give up.
RaceInv ==
    Undisturbed =>
        /\ ~moved /\ mkdirError = {}
        /\ target = Nothing => \A w \in Writers : pc[w] \in Waiting
        /\ \A w \in Writers :
              /\ pc[w] \in Waiting \cup Electing \cup Confirming
                           \cup {"cleanup", "done"}
              /\ pc[w] \in Waiting \cup Electing \cup Confirming =>
                    result[w] = "none"
              /\ pc[w] = "idle" => tree[w] = "none"
              /\ pc[w] = "cleanup" => result[w] = "exists"
              /\ pc[w] = "done" => result[w] \in {"exists", "ok"}
              /\ pc[w] = "done" /\ result[w] = "exists" => tree[w] = "none"
              /\ pc[w] \in Confirming \/ result[w] = "ok" => target = Tree(w)
              /\ target = Slot(w) => pc[w] \in Electing
              /\ target = Tree(w) => pc[w] \in Confirming \cup {"done"}
              /\ fd[w] # Nothing => pc[w] \in Electing \cup {"close"}
              /\ w \in locked => pc[w] \in {"unmark", "chmod", "check",
                                            "rename", "close"}
              /\ Slot(w) \in marked => pc[w] \in {"lock", "unmark"}
              /\ pc[w] \in {"lock", "unmark"} => Slot(w) \in marked
              /\ Slot(w) \in closed =>
                    pc[w] \in {"check", "rename"} \cup Confirming \cup {"done"}

LEMMA RaceStep ==
    ASSUME IInv, RaceInv, NEW w \in Writers, Step(w)
    PROVE  RaceInv'
<1> USE DirectoriesDiffer DEF IInv, TypeInv, TypeOK, TreeInv,
        PublishedIsWhole, StagedIsSynced,
        OutcomeInv, Committed, ClaimInv, Claimant, Holder, Trees, Slots,
        RaceInv, Undisturbed, Waiting, Electing, Confirming, names, dirs,
        claims, control, world, Goto, Raise, Release
<1>1. CASE NewStagingDirectory(w)
  BY <1>1 DEF NewStagingDirectory
<1>2. CASE WriteBody(w)
  BY <1>2 DEF WriteBody
<1>3. CASE FsyncStagingTree(w)
  BY <1>3 DEF FsyncStagingTree
<1>4. CASE RequireStableParent(w)
  BY <1>4 DEF RequireStableParent
<1>5. CASE RenameNoReplace(w)
  BY <1>5 DEF RenameNoReplace
<1>6. CASE MakePlaceholder(w)
  BY <1>6 DEF MakePlaceholder
<1>7. CASE OpenPlaceholder(w)
  BY <1>7 DEF OpenPlaceholder, Accessible
<1>8. CASE CreateMarker(w)
  <2>1. ASSUME Undisturbed
        PROVE  /\ fd[w] = Slot(w) /\ target = Slot(w)
               /\ Slot(w) \notin closed \cup marked
    BY <1>8, <2>1 DEF CreateMarker
  <2>2. ASSUME Undisturbed
        PROVE  marked' = marked \cup {Slot(w)} /\ Goto(w, "lock")
    BY <1>8, <2>1, <2>2 DEF CreateMarker, Usable, Accessible
  <2> QED
    BY <1>8, <2>1, <2>2 DEF CreateMarker
<1>9. CASE LockPlaceholder(w)
  <2>1. ASSUME Undisturbed
        PROVE  \A v \in locked : fd[v] # fd[w]
    BY <1>9, <2>1 DEF LockPlaceholder
  <2>2. ASSUME Undisturbed
        PROVE  locked' = locked \cup {w} /\ Goto(w, "unmark")
    BY <1>9, <2>1, <2>2 DEF LockPlaceholder
  <2>3. ASSUME Undisturbed PROVE Slot(w) \in marked
    BY <1>9, <2>3 DEF LockPlaceholder
  <2> QED
    BY <1>9, <2>1, <2>2, <2>3 DEF LockPlaceholder
<1>10. CASE RemoveMarker(w)
  BY <1>10 DEF RemoveMarker, Usable, Accessible
<1>11. CASE ClosePlaceholder(w)
  BY <1>11 DEF ClosePlaceholder
<1>12. CASE AbandonClaim(w)
  BY <1>12 DEF AbandonClaim
<1>13. CASE RemovePlaceholder(w)
  BY <1>13 DEF RemovePlaceholder, Empty
<1>14. CASE InspectTarget(w)
  BY <1>14 DEF InspectTarget
<1>15. CASE CheckClaim(w)
  BY <1>15 DEF CheckClaim, Matches
<1>16. CASE RenameOverPlaceholder(w)
  BY <1>16 DEF RenameOverPlaceholder, Empty
<1>17. CASE RecheckClaim(w)
  BY <1>17 DEF RecheckClaim, Matches
<1>18. CASE ReadBack(w)
  BY <1>18 DEF ReadBack, Confirmed
<1>19. CASE RemoveIfOwnedLstat(w)
  BY <1>19 DEF RemoveIfOwnedLstat, Unwind, Matches
<1>20. CASE RemoveIfOwnedRmdir(w)
  BY <1>20 DEF RemoveIfOwnedRmdir, Unwind, Empty
<1>21. CASE CloseClaim(w)
  BY <1>21 DEF CloseClaim, Staged
<1>22. CASE FsyncParent(w)
  BY <1>22 DEF FsyncParent
<1>23. CASE RequireStableParentAgain(w)
  BY <1>23 DEF RequireStableParentAgain
<1>24. CASE RemoveStagingTree(w)
  BY <1>24 DEF RemoveStagingTree, Staged
<1>25. CASE PinParent(w)
  BY <1>25 DEF PinParent
<1> QED
  BY <1>1, <1>2, <1>3, <1>4, <1>5, <1>6, <1>7, <1>8, <1>9, <1>10, <1>11,
     <1>12, <1>13, <1>14, <1>15, <1>16, <1>17, <1>18, <1>19, <1>20,
     <1>21, <1>22, <1>23, <1>24, <1>25 DEF Step

LEMMA RaceNext == IInv /\ RaceInv /\ [Next]_vars => RaceInv'
<1> SUFFICES ASSUME IInv, RaceInv, [Next]_vars PROVE RaceInv'
  OBVIOUS
<1>1. CASE \E w \in Writers : Step(w)
  BY <1>1, RaceStep
<1>2. CASE \E w \in Writers : Fault(w)
  <2>1. faults' = faults + 1 /\ faults \in Nat
    BY <1>2 DEF IInv, TypeInv, TypeOK, Fault, Faulty, CallFails,
       StagingUnanswered, MkdirUnanswered, ClaimUnanswered, ClaimCloseFails,
       RenameUnanswered, BestEffortFails, ReadBackFails,
       RemoveIfOwnedFails, ConfirmationFails, CleanupFails
  <2> QED
    BY <2>1 DEF RaceInv, Undisturbed
<1>3. CASE (\E w \in Writers : Kill(w)) \/ PowerLoss \/ RetargetParent
  <2>1. incidents' = incidents + 1 /\ incidents \in Nat
    BY <1>3 DEF IInv, TypeInv, TypeOK, Kill, PowerLoss, RetargetParent,
       Incident
  <2> QED
    BY <2>1 DEF RaceInv, Undisturbed
<1>4. CASE WriteBack \/ UNCHANGED vars
  BY <1>4 DEF WriteBack, RaceInv, Undisturbed, vars, names, dirs, claims,
     control, world
<1> QED
  BY <1>1, <1>2, <1>3, <1>4 DEF Next

\* Any number of writers, undisturbed, have exactly one winner.
THEOREM OneWinnerOfARace == Spec => []RaceHasOneWinner
<1>1. Init => RaceInv
  BY DirectoriesDiffer DEF Init, RaceInv, Waiting, Electing, Confirming
<1>2. ASSUME IInv, RaceInv PROVE RaceHasOneWinner
  <2> SUFFICES ASSUME Undisturbed,
                      \A w \in Writers : pc[w] \in {"idle", "done"},
                      \E w \in Writers : pc[w] = "done"
               PROVE  \E w \in Writers :
                         /\ target = Tree(w) /\ disk = Tree(w)
                         /\ result[w] = "ok"
                         /\ \A v \in Writers \ {w} :
                               /\ tree[v] = "none"
                               /\ pc[v] = "done" => result[v] = "exists"
    BY DEF RaceHasOneWinner
  <2>1. PICK w \in Writers : target = Tree(w)
    BY <1>2 DEF IInv, TypeInv, TypeOK, RaceInv, Waiting, Electing,
       Trees, Slots
  <2>2. \A v \in Writers :
           result[v] = "ok" => target = Tree(v) /\ disk = target
    BY <1>2 DEF IInv, OutcomeInv, SuccessIsDurable, RaceInv
  <2>3. \A v \in Writers \ {w} :
           tree[v] = "none" /\ (pc[v] = "done" => result[v] = "exists")
    BY <1>2, <2>1, <2>2, DirectoriesDiffer DEF RaceInv
  <2>4. result[w] = "ok"
    BY <1>2, <2>1, DirectoriesDiffer
       DEF RaceInv, Confirming, IInv, OutcomeInv, CollisionStays
  <2> QED
    BY <2>1, <2>2, <2>3, <2>4
<1> QED
  BY <1>1, <1>2, RaceNext, Invariance, PTL DEF Spec
----------------------------------------------------------------------------
\* Ending: the calls a transaction still has before it, at most.

Left == [idle   |-> 20, identity |-> 19, body     |-> 18, sync    |-> 17, parent |-> 16,
         publish |-> 15, mkdir   |-> 14, open    |-> 13, mark   |-> 12,
         lock   |-> 11, unmark   |-> 10, chmod   |-> 9,  check  |-> 8,
         rename |-> 7,  recheck  |-> 6,  readback |-> 5, unclaim |-> 5,
         close  |-> 4,  release  |-> 4,  rmdir   |-> 3,  lstat  |-> 3,
         remove |-> 3,  fsync    |-> 3,  reparent |-> 2, cleanup |-> 1,
         done   |-> 0]

\* A call made by a writer, answered or failed, brings it closer to its end
\* and moves no other writer.
CallDescends(w) ==
    /\ Left[pc[w]] \in 0..20 /\ Left[pc'[w]] \in 0..20
    /\ Left[pc'[w]] < Left[pc[w]]
    /\ \A v \in Writers \ {w} : pc'[v] = pc[v]

EveryCallDescends ==
    \A w \in Writers : Step(w) \/ Fault(w) => CallDescends(w)

LEMMA StepDescends ==
    ASSUME TypeOK, NEW w \in Writers, Step(w)
    PROVE  CallDescends(w)
<1> USE DEF TypeOK, Labels, CallDescends, Left, names, dirs, claims, control,
        world, Goto, Raise, Release
<1>1. CASE NewStagingDirectory(w)
  BY <1>1 DEF NewStagingDirectory
<1>2. CASE WriteBody(w)
  BY <1>2 DEF WriteBody
<1>3. CASE FsyncStagingTree(w)
  BY <1>3 DEF FsyncStagingTree
<1>4. CASE RequireStableParent(w)
  BY <1>4 DEF RequireStableParent
<1>5. CASE RenameNoReplace(w)
  BY <1>5 DEF RenameNoReplace
<1>6. CASE MakePlaceholder(w)
  BY <1>6 DEF MakePlaceholder
<1>7. CASE OpenPlaceholder(w)
  BY <1>7 DEF OpenPlaceholder
<1>8. CASE CreateMarker(w)
  BY <1>8 DEF CreateMarker
<1>9. CASE LockPlaceholder(w)
  BY <1>9 DEF LockPlaceholder
<1>10. CASE RemoveMarker(w)
  BY <1>10 DEF RemoveMarker
<1>11. CASE ClosePlaceholder(w)
  BY <1>11 DEF ClosePlaceholder
<1>12. CASE AbandonClaim(w)
  BY <1>12 DEF AbandonClaim
<1>13. CASE RemovePlaceholder(w)
  BY <1>13 DEF RemovePlaceholder
<1>14. CASE InspectTarget(w)
  BY <1>14 DEF InspectTarget
<1>15. CASE CheckClaim(w)
  BY <1>15 DEF CheckClaim
<1>16. CASE RenameOverPlaceholder(w)
  BY <1>16 DEF RenameOverPlaceholder
<1>17. CASE RecheckClaim(w)
  BY <1>17 DEF RecheckClaim
<1>18. CASE ReadBack(w)
  BY <1>18 DEF ReadBack
<1>19. CASE RemoveIfOwnedLstat(w)
  BY <1>19 DEF RemoveIfOwnedLstat, Unwind, Matches
<1>20. CASE RemoveIfOwnedRmdir(w)
  BY <1>20 DEF RemoveIfOwnedRmdir, Unwind, Empty
<1>21. CASE CloseClaim(w)
  BY <1>21 DEF CloseClaim
<1>22. CASE FsyncParent(w)
  BY <1>22 DEF FsyncParent
<1>23. CASE RequireStableParentAgain(w)
  BY <1>23 DEF RequireStableParentAgain
<1>24. CASE RemoveStagingTree(w)
  BY <1>24 DEF RemoveStagingTree
<1>25. CASE PinParent(w)
  BY <1>25 DEF PinParent
<1> QED
  BY <1>1, <1>2, <1>3, <1>4, <1>5, <1>6, <1>7, <1>8, <1>9, <1>10, <1>11,
     <1>12, <1>13, <1>14, <1>15, <1>16, <1>17, <1>18, <1>19, <1>20,
     <1>21, <1>22, <1>23, <1>24, <1>25 DEF Step

LEMMA FaultDescends ==
    ASSUME TypeOK, NEW w \in Writers, Fault(w)
    PROVE  CallDescends(w)
<1> USE DEF TypeOK, Labels, CallDescends, Left, names, dirs, claims, control,
        world, Goto, Raise, Release, Faulty
<1>1. CASE CallFails(w)
  BY <1>1 DEF CallFails, OnError
<1>2. CASE MkdirUnanswered(w)
  BY <1>2 DEF MkdirUnanswered
<1>3. CASE RenameUnanswered(w)
  BY <1>3 DEF RenameUnanswered
<1>4. CASE BestEffortFails(w)
  BY <1>4 DEF BestEffortFails
<1>5. CASE ReadBackFails(w)
  BY <1>5 DEF ReadBackFails
<1>6. CASE RemoveIfOwnedFails(w)
  BY <1>6 DEF RemoveIfOwnedFails, Empty, Slots
<1>7. CASE ConfirmationFails(w)
  BY <1>7 DEF ConfirmationFails
<1>8. CASE CleanupFails(w)
  BY <1>8 DEF CleanupFails, Staged
<1>9. CASE StagingUnanswered(w)
  BY <1>9 DEF StagingUnanswered
<1>10. CASE ClaimUnanswered(w)
  BY <1>10 DEF ClaimUnanswered, Usable
<1>11. CASE ClaimCloseFails(w)
  BY <1>11 DEF ClaimCloseFails, Usable
<1> QED
  BY <1>1, <1>2, <1>3, <1>4, <1>5, <1>6, <1>7, <1>8, <1>9, <1>10,
     <1>11 DEF Fault

\* No transaction makes more than twenty calls, however many writers there
\* are and whatever they do: none waits for another and none tries again.
THEOREM TransactionsAreFinite == Spec => [][EveryCallDescends]_vars
<1>1. ASSUME TypeOK PROVE [EveryCallDescends]_vars
  BY <1>1, StepDescends, FaultDescends DEF EveryCallDescends
<1> QED
  BY <1>1, TypeCorrect, PTL
==========================================================================
