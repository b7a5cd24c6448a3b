---------------------- MODULE CheckpointPublication ----------------------
(***************************************************************************)
(* The publication protocol of pssolver/io/checkpoint.py: writers that     *)
(* stage a checkpoint tree beside one target name and publish it at most   *)
(* once, with renameat2(RENAME_NOREPLACE) or, on NFS, by renaming over an  *)
(* empty "placeholder" directory claimed with mkdir, an ownership marker   *)
(* and an advisory lock.  One action is one filesystem call that another   *)
(* writer can observe; calls on a writer's private staging tree are one    *)
(* action per stage.                                                       *)
(***************************************************************************)
EXTENDS Naturals, FiniteSets

CONSTANTS
    Writers,      \* transactions on one target name, in any processes
    Payload,      \* the bytes each writer's tree digests to
    OnNFS,        \* RENAME_NOREPLACE is positively identified as unsupported
    Privileged,   \* the process bypasses directory permissions (root)
    FaultSites,   \* the calls that may fail or lose their reply
    MaxFaults,    \* bound on such failures
    MaxIncidents  \* bound on kills, power losses and parent retargets

VARIABLES
    target,     \* the directory the target name denotes
    disk,       \* what it denotes on stable storage
    tree,       \* the tree each writer stages: how much of it is there
    closed,     \* directories whose mode is 000
    marked,     \* directories holding .pssolver-placeholder-owner
    fd,         \* the directory each writer's claim descriptor pins
    locked,     \* writers holding the flock on their descriptor
    mkdirError, \* writers whose placeholder mkdir reported an error
    pc,         \* the next call of each writer
    result,     \* the exception in flight, and at "done" the outcome
    moved,      \* the requested parent no longer leads to the pinned one
    faults, incidents

names    == <<target, disk>>
dirs     == <<closed, marked>>
claims   == <<fd, locked, mkdirError>>
control  == <<pc, result>>
world    == <<moved, faults, incidents>>
vars     == <<names, tree, dirs, claims, control, world>>

----------------------------------------------------------------------------
\* Directories that can bear the target name, identified by inode: the tree
\* a writer staged, and the placeholder a writer's mkdir created.
Tree(w) == <<"tree", w>>
Slot(w) == <<"slot", w>>
Trees   == {Tree(w) : w \in Writers}
Slots   == {Slot(w) : w \in Writers}
Nothing == <<"nothing", "nothing">>

ASSUME PublicationAssumption ==
    /\ OnNFS \in BOOLEAN
    /\ Privileged \in BOOLEAN
    /\ MaxFaults \in Nat
    /\ MaxIncidents \in Nat
    /\ \A w \in Writers : Payload[w] # Nothing

Published == target \in Trees

\* Creating, unlinking or listing entries of a directory.
Accessible(d) == Privileged \/ d \notin closed

\* An entry can be created or removed through the writer's descriptor: the
\* directory it pins is still linked at the target name and searchable.
Usable(w) == fd[w] = target /\ fd[w] # Nothing /\ Accessible(fd[w])

\* rename(2) of a directory replaces nothing but an empty directory, and
\* rmdir(2) removes nothing else.  A published tree is never empty.
Empty(d) == d \in Slots \ marked

\* _OwnedPlaceholder.matches_path: the name still denotes the pinned inode.
Matches(w) == target = fd[w]

Goto(w, l)     == pc' = [pc EXCEPT ![w] = l] /\ UNCHANGED result
Raise(w, r, l) == /\ pc' = [pc EXCEPT ![w] = l]
                  /\ result' = [result EXCEPT ![w] = r]
Release(w)     == /\ fd' = [fd EXCEPT ![w] = Nothing]
                  /\ locked' = locked \ {w}
                  /\ UNCHANGED mkdirError

\* Mutants of Unwind: remove, or keep, the staging tree whatever happened.
UnwindRemoves(r) == "cleanup"
UnwindKeeps(r)   == "done"

\* checkpoint_directory_transaction keeps the staging tree of an ambiguous
\* publication only.
Unwind(r) == IF r = "ambiguous" THEN "done" ELSE "cleanup"

Labels == {"idle", "identity", "body", "sync", "parent", "publish",
           "mkdir", "open", "mark", "lock", "unmark", "chmod", "unclaim",
           "rmdir", "lstat", "check", "rename", "recheck", "readback", "release", "remove",
           "close", "fsync", "reparent", "cleanup", "done"}
Outcomes == {"none", "ok", "exists", "io_error", "durability", "ambiguous",
             "killed"}

\* Where a call that fails and changes nothing leads with an I/O error.  The
\* parent is pinned before the try whose handler removes the staging tree.
OnError == [body  |-> "cleanup", sync   |-> "cleanup", parent  |-> "cleanup",
            publish |-> "cleanup", open |-> "unclaim", mark    |-> "unclaim",
            lock  |-> "unclaim", unmark |-> "unclaim", chmod   |-> "unclaim",
            lstat |-> "cleanup", check  |-> "release", recheck |-> "release",
            close |-> "cleanup", identity |-> "done"]

Init ==
    /\ target = Nothing /\ disk = Nothing
    /\ tree = [w \in Writers |-> "none"]
    /\ closed = {} /\ marked = {}
    /\ fd = [w \in Writers |-> Nothing]
    /\ locked = {} /\ mkdirError = {}
    /\ pc = [w \in Writers |-> "idle"]
    /\ result = [w \in Writers |-> "none"]
    /\ moved = FALSE /\ faults = 0 /\ incidents = 0

----------------------------------------------------------------------------
\* The transaction up to publication.

\* The target is inspected and a staging directory with a fresh name made.
\* Transactions that begin after the retarget have another target.
NewStagingDirectory(w) ==
    /\ pc[w] = "idle" /\ ~moved
    /\ IF target = Nothing
       THEN /\ tree' = [tree EXCEPT ![w] = "partial"]
            /\ Goto(w, "identity")
       ELSE UNCHANGED tree /\ Raise(w, "exists", "done")
    /\ UNCHANGED <<names, dirs, claims, world>>

\* _directory_identity: the parent as it is now is the one to come back to.
PinParent(w) ==
    /\ pc[w] = "identity" /\ Goto(w, "body")
    /\ UNCHANGED <<names, tree, dirs, claims, world>>

WriteBody(w) ==
    /\ pc[w] = "body"
    /\ IF moved THEN UNCHANGED tree /\ Raise(w, "io_error", "cleanup")
                ELSE /\ tree' = [tree EXCEPT ![w] = "written"]
                     /\ Goto(w, "sync")
    /\ UNCHANGED <<names, dirs, claims, world>>

\* Mutant: the payload is published without having been synced.
SkipFsyncStagingTree(w) ==
    /\ pc[w] = "sync" /\ Goto(w, "parent")
    /\ UNCHANGED <<names, tree, dirs, claims, world>>

FsyncStagingTree(w) ==
    /\ pc[w] = "sync"
    /\ tree' = [tree EXCEPT ![w] = "synced"]
    /\ Goto(w, "parent")
    /\ UNCHANGED <<names, dirs, claims, world>>

RequireStableParent(w) ==
    /\ pc[w] = "parent"
    /\ IF moved THEN Raise(w, "io_error", "cleanup") ELSE Goto(w, "publish")
    /\ UNCHANGED <<names, tree, dirs, claims, world>>

\* Mutant: a plain rename where the no-replace one is needed.
RenameReplaces(w) ==
    /\ pc[w] = "publish" /\ ~OnNFS
    /\ target' = Tree(w) /\ Goto(w, "fsync")
    /\ UNCHANGED <<disk, tree, dirs, claims, world>>

\* Mutant: an occupied name is waited for instead of reported.
RenameWaits(w) ==
    /\ pc[w] = "publish" /\ target = Nothing
    /\ Goto(w, "mkdir")
    /\ UNCHANGED <<names, tree, dirs, claims, world>>

\* renameat2(RENAME_NOREPLACE).  The VFS reports an existing target before
\* NFS rejects the flag.
RenameNoReplace(w) ==
    /\ pc[w] = "publish"
    /\ \/ /\ target # Nothing
          /\ Raise(w, "exists", "cleanup") /\ UNCHANGED target
       \/ /\ target = Nothing /\ ~OnNFS
          /\ target' = Tree(w) /\ Goto(w, "fsync")
       \/ /\ target = Nothing /\ OnNFS
          /\ Goto(w, "mkdir") /\ UNCHANGED target
    /\ UNCHANGED <<disk, tree, dirs, claims, world>>

----------------------------------------------------------------------------
\* The NFS placeholder: mkdir, and the election in _claim_placeholder.

\* Mutant: mkdir(exist_ok=True).
MakePlaceholderExistOk(w) ==
    /\ pc[w] = "mkdir"
    /\ target' = IF target = Nothing THEN Slot(w) ELSE target
    /\ Goto(w, "open")
    /\ UNCHANGED <<disk, tree, dirs, claims, world>>

MakePlaceholder(w) ==
    /\ pc[w] = "mkdir"
    /\ IF target = Nothing
       THEN target' = Slot(w) /\ Goto(w, "open")
       ELSE UNCHANGED target /\ Raise(w, "exists", "cleanup")
    /\ UNCHANGED <<disk, tree, dirs, claims, world>>

OpenPlaceholder(w) ==
    /\ pc[w] = "open"
    /\ IF target # Nothing /\ Accessible(target)
       THEN fd' = [fd EXCEPT ![w] = target] /\ Goto(w, "mark")
       ELSE UNCHANGED fd /\ Raise(w, "io_error", "unclaim")
    /\ UNCHANGED <<names, tree, dirs, locked, mkdirError, world>>

CreateMarker(w) ==
    /\ pc[w] = "mark"
    /\ \/ /\ Usable(w) /\ fd[w] \notin marked
          /\ marked' = marked \cup {fd[w]} /\ Goto(w, "lock")
       \/ /\ Usable(w) /\ fd[w] \in marked
          /\ Raise(w, "exists", "unclaim") /\ UNCHANGED marked
       \/ /\ ~Usable(w)
          /\ Raise(w, "io_error", "unclaim") /\ UNCHANGED marked
    /\ UNCHANGED <<names, tree, closed, claims, world>>

\* flock(LOCK_EX | LOCK_NB)
LockPlaceholder(w) ==
    /\ pc[w] = "lock"
    /\ IF \E v \in locked : fd[v] = fd[w]
       THEN UNCHANGED locked /\ Raise(w, "io_error", "unclaim")
       ELSE locked' = locked \cup {w} /\ Goto(w, "unmark")
    /\ UNCHANGED <<names, tree, dirs, fd, mkdirError, world>>

RemoveMarker(w) ==
    /\ pc[w] = "unmark"
    /\ IF Usable(w) /\ fd[w] \in marked
       THEN marked' = marked \ {fd[w]} /\ Goto(w, "chmod")
       ELSE UNCHANGED marked /\ Raise(w, "io_error", "unclaim")
    /\ UNCHANGED <<names, tree, closed, claims, world>>

\* Mutant: chmod by name instead of through the descriptor.
ClosePlaceholderByName(w) ==
    /\ pc[w] = "chmod"
    /\ closed' = closed \cup {target} /\ Goto(w, "check")
    /\ UNCHANGED <<names, tree, marked, claims, world>>

ClosePlaceholder(w) ==
    /\ pc[w] = "chmod"
    /\ closed' = closed \cup {fd[w]} /\ Goto(w, "check")
    /\ UNCHANGED <<names, tree, marked, claims, world>>

\* The finally clause of a failed claim: unlink whatever marker is there,
\* ignoring errors, and close the descriptor.
AbandonClaim(w) ==
    /\ pc[w] = "unclaim"
    /\ marked' = IF Usable(w) THEN marked \ {fd[w]} ELSE marked
    /\ Release(w)
    /\ Goto(w, IF w \in mkdirError THEN "lstat" ELSE "rmdir")
    /\ UNCHANGED <<names, tree, closed, world>>

\* mkdir succeeded but the claim did not: rmdir by name, errors ignored.
RemovePlaceholder(w) ==
    /\ pc[w] = "rmdir"
    /\ target' = IF Empty(target) THEN Nothing ELSE target
    /\ Goto(w, "cleanup")
    /\ UNCHANGED <<disk, tree, dirs, claims, world>>

\* mkdir and the claim both failed: is there anything at the name?
InspectTarget(w) ==
    /\ pc[w] = "lstat"
    /\ IF target = Nothing THEN Raise(w, "io_error", "cleanup")
                           ELSE Raise(w, "ambiguous", "done")
    /\ UNCHANGED <<names, tree, dirs, claims, world>>

----------------------------------------------------------------------------
\* Publication over the claim, and the handling of its errors.

CheckClaim(w) ==
    /\ pc[w] = "check"
    /\ IF Matches(w) THEN Goto(w, "rename")
                     ELSE Raise(w, "ambiguous", "release")
    /\ UNCHANGED <<names, tree, dirs, claims, world>>

\* Mutant: the destination is removed when it is not empty (shutil.move).
RenameOverAnything(w) ==
    /\ pc[w] = "rename"
    /\ target' = Tree(w) /\ Goto(w, "close")
    /\ UNCHANGED <<disk, tree, dirs, claims, world>>

\* Mutant: a rename error is taken for success.
RenameErrorIgnored(w) ==
    /\ pc[w] = "rename"
    /\ target' = IF target = Nothing \/ Empty(target) THEN Tree(w) ELSE target
    /\ Goto(w, "close")
    /\ UNCHANGED <<disk, tree, dirs, claims, world>>

RenameOverPlaceholder(w) ==
    /\ pc[w] = "rename"
    /\ IF target = Nothing \/ Empty(target)
       THEN target' = Tree(w) /\ Goto(w, "close")
       ELSE UNCHANGED target /\ Goto(w, "recheck")
    /\ UNCHANGED <<disk, tree, dirs, claims, world>>

\* Mutants: a rename error whose claim is gone is taken for a collision, for
\* a plain failure, or for a success, without reading the name back.
RecheckSaysExists(w) ==
    /\ pc[w] = "recheck"
    /\ Raise(w, IF Matches(w) THEN "io_error" ELSE "exists", "release")
    /\ UNCHANGED <<names, tree, dirs, claims, world>>

RecheckSaysError(w) ==
    /\ pc[w] = "recheck" /\ Raise(w, "io_error", "release")
    /\ UNCHANGED <<names, tree, dirs, claims, world>>

RecheckSaysPublished(w) ==
    /\ pc[w] = "recheck"
    /\ IF Matches(w) THEN Raise(w, "io_error", "release") ELSE Goto(w, "close")
    /\ UNCHANGED <<names, tree, dirs, claims, world>>

RecheckClaim(w) ==
    /\ pc[w] = "recheck"
    /\ IF Matches(w) THEN Raise(w, "io_error", "release")
                     ELSE Goto(w, "readback")
    /\ UNCHANGED <<names, tree, dirs, claims, world>>

\* The digest of what stands at the name equals the staged digest.
Confirmed(w) ==
    /\ Accessible(target) /\ target \notin marked
    /\ \E v \in Writers : target = Tree(v) /\ Payload[v] = Payload[w]

ReadBack(w) ==
    /\ pc[w] = "readback"
    /\ IF Confirmed(w) THEN Goto(w, "close")
                       ELSE Raise(w, "ambiguous", "release")
    /\ UNCHANGED <<names, tree, dirs, claims, world>>

\* remove_if_owned: lstat, then rmdir by name, then close.
RemoveIfOwnedLstat(w) ==
    /\ pc[w] = "release"
    /\ IF Matches(w)
       THEN Goto(w, "remove") /\ UNCHANGED claims
       ELSE Goto(w, Unwind(result[w])) /\ Release(w)
    /\ UNCHANGED <<names, tree, dirs, world>>

RemoveIfOwnedRmdir(w) ==
    /\ pc[w] = "remove"
    /\ IF target = Nothing \/ Empty(target)
       THEN target' = Nothing /\ Goto(w, Unwind(result[w]))
       ELSE UNCHANGED target /\ Raise(w, "io_error", "cleanup")
    /\ Release(w)
    /\ UNCHANGED <<disk, tree, dirs, world>>

Staged(w) == tree[w] # "none" /\ target # Tree(w)

\* The claim is closed; a staging tree that an identical published tree
\* made superfluous is removed.
CloseClaim(w) ==
    /\ pc[w] = "close"
    /\ tree' = [tree EXCEPT ![w] = IF Staged(w) THEN "none" ELSE @]
    /\ Release(w) /\ Goto(w, "fsync")
    /\ UNCHANGED <<names, dirs, world>>

\* Mutant: the parent directory is not synced.
SkipFsyncParent(w) ==
    /\ pc[w] = "fsync" /\ Goto(w, "reparent")
    /\ UNCHANGED <<names, tree, dirs, claims, world>>

FsyncParent(w) ==
    /\ pc[w] = "fsync"
    /\ disk' = target /\ Goto(w, "reparent")
    /\ UNCHANGED <<target, tree, dirs, claims, world>>

RequireStableParentAgain(w) ==
    /\ pc[w] = "reparent"
    /\ Raise(w, IF moved THEN "ambiguous" ELSE "ok", "done")
    /\ UNCHANGED <<names, tree, dirs, claims, world>>

\* The except clause of the transaction removes the staging tree if there.
RemoveStagingTree(w) ==
    /\ pc[w] = "cleanup"
    /\ tree' = [tree EXCEPT ![w] = IF Staged(w) THEN "none" ELSE @]
    /\ Goto(w, "done")
    /\ UNCHANGED <<names, dirs, claims, world>>

Step(w) ==
    \/ NewStagingDirectory(w) \/ PinParent(w)
    \/ WriteBody(w) \/ FsyncStagingTree(w)
    \/ RequireStableParent(w) \/ RenameNoReplace(w)
    \/ MakePlaceholder(w) \/ OpenPlaceholder(w) \/ CreateMarker(w)
    \/ LockPlaceholder(w) \/ RemoveMarker(w) \/ ClosePlaceholder(w)
    \/ AbandonClaim(w) \/ RemovePlaceholder(w) \/ InspectTarget(w)
    \/ CheckClaim(w) \/ RenameOverPlaceholder(w) \/ RecheckClaim(w)
    \/ ReadBack(w) \/ RemoveIfOwnedLstat(w) \/ RemoveIfOwnedRmdir(w)
    \/ CloseClaim(w) \/ FsyncParent(w) \/ RequireStableParentAgain(w)
    \/ RemoveStagingTree(w)

----------------------------------------------------------------------------
\* Failing calls.  Each consumes one unit of MaxFaults.

Faulty(w) == /\ pc[w] \in FaultSites /\ faults < MaxFaults
             /\ faults' = faults + 1 /\ UNCHANGED <<moved, incidents>>

\* The call reports an error and had no effect.  Whether the rename before
\* it was served is of no concern to "close": the descriptor's close or the
\* look at the staging name may fail for a published tree.
CallFails(w) ==
    /\ pc[w] \in DOMAIN OnError /\ Faulty(w)
    /\ Raise(w, "io_error", OnError[pc[w]])
    /\ IF pc[w] = "close" THEN Release(w) ELSE UNCHANGED claims
    /\ UNCHANGED <<names, tree, dirs>>

\* The look at the target or the staging mkdir reports an error, and the
\* mkdir may have been served.
StagingUnanswered(w) ==
    /\ pc[w] = "idle" /\ ~moved /\ Faulty(w)
    /\ \/ UNCHANGED tree
       \/ target = Nothing /\ tree' = [tree EXCEPT ![w] = "partial"]
    /\ Raise(w, "io_error", "done")
    /\ UNCHANGED <<names, dirs, claims>>

\* The placeholder mkdir reports an error, with or without having created
\* the directory.  A retransmitted request that had been served is answered
\* EEXIST, any other failure is remembered and the claim tried regardless.
MkdirUnanswered(w) ==
    /\ pc[w] = "mkdir" /\ Faulty(w)
    /\ \/ /\ target' \in {target} \cup (IF target = Nothing THEN {Slot(w)}
                                                            ELSE {})
          /\ mkdirError' = mkdirError \cup {w}
          /\ Goto(w, "open")
       \/ /\ target = Nothing /\ target' = Slot(w)
          /\ UNCHANGED mkdirError
          /\ Raise(w, "exists", "cleanup")
    /\ UNCHANGED <<disk, tree, dirs, fd, locked>>

\* A call of the claim is served and the step fails all the same: the reply
\* is lost, or the write or fsync of the marker, or the final fstat, fails.
ClaimUnanswered(w) ==
    /\ Faulty(w)
    /\ \/ /\ pc[w] = "mark" /\ Usable(w) /\ fd[w] \notin marked
          /\ marked' = marked \cup {fd[w]} /\ UNCHANGED closed
       \/ /\ pc[w] = "unmark" /\ Usable(w)
          /\ marked' = marked \ {fd[w]} /\ UNCHANGED closed
       \/ /\ pc[w] = "chmod"
          /\ closed' = closed \cup {fd[w]} /\ UNCHANGED marked
    /\ Raise(w, "io_error", "unclaim")
    /\ UNCHANGED <<names, tree, claims>>

\* A close in the finally clause of the claim fails, the marker's (tried
\* again after it failed) or the descriptor's.  The error is no
\* CheckpointError: neither rmdir nor lstat follows and the placeholder stays.
ClaimCloseFails(w) ==
    /\ Faulty(w)
    /\ \/ /\ pc[w] = "mark" /\ Usable(w) /\ fd[w] \notin marked
          /\ marked' = marked \cup {fd[w]}
       \/ /\ pc[w] = "unclaim" /\ fd[w] # Nothing
          /\ \/ UNCHANGED marked
             \/ Usable(w) /\ marked' = marked \ {fd[w]}
    /\ Raise(w, "io_error", "cleanup") /\ Release(w)
    /\ UNCHANGED <<names, tree, closed>>

\* The rename over the placeholder reports an error, served or not; so may a
\* no-replace rename that was served, which is not read back.
RenameUnanswered(w) ==
    /\ Faulty(w)
    /\ \/ /\ pc[w] = "rename"
          /\ target' \in {target} \cup (IF target = Nothing \/ Empty(target)
                                        THEN {Tree(w)} ELSE {})
          /\ Goto(w, "recheck")
       \/ /\ pc[w] = "publish" /\ ~OnNFS /\ target = Nothing
          /\ target' = Tree(w) /\ Raise(w, "io_error", "cleanup")
    /\ UNCHANGED <<disk, tree, dirs, claims>>

\* Errors of the best-effort unlink and rmdir are ignored.
BestEffortFails(w) ==
    /\ pc[w] \in {"unclaim", "rmdir"} /\ Faulty(w)
    /\ IF pc[w] = "unclaim"
       THEN /\ Release(w)
            /\ Goto(w, IF w \in mkdirError THEN "lstat" ELSE "rmdir")
       ELSE UNCHANGED claims /\ Goto(w, "cleanup")
    /\ UNCHANGED <<names, tree, dirs>>

ReadBackFails(w) ==
    /\ pc[w] = "readback" /\ Faulty(w)
    /\ Raise(w, "ambiguous", "release")
    /\ UNCHANGED <<names, tree, dirs, claims>>

\* remove_if_owned raises its own error in place of the one in flight; an
\* rmdir that reports an error, or whose descriptor's close does, may have
\* removed the placeholder.
RemoveIfOwnedFails(w) ==
    /\ pc[w] \in {"release", "remove"} /\ Faulty(w)
    /\ \/ UNCHANGED target
       \/ pc[w] = "remove" /\ Empty(target) /\ target' = Nothing
    /\ Raise(w, "io_error", "cleanup") /\ Release(w)
    /\ UNCHANGED <<disk, tree, dirs>>

\* Mutant: a failed parent sync is reported as a failed publication.
ConfirmationSaysError(w) ==
    /\ pc[w] \in {"fsync", "reparent"} /\ Faulty(w)
    /\ Raise(w, "io_error", "cleanup")
    /\ UNCHANGED <<names, tree, dirs, claims>>

\* After publication a failure is a durability error or ambiguous.
ConfirmationFails(w) ==
    /\ pc[w] \in {"fsync", "reparent"} /\ Faulty(w)
    /\ IF pc[w] = "fsync" THEN Raise(w, "durability", "cleanup")
                          ELSE Raise(w, "ambiguous", "done")
    /\ UNCHANGED <<names, tree, dirs, claims>>

\* The look at the staging name or its removal, perhaps halfway, fails; the
\* error replaces the one in flight, a durability error included.
CleanupFails(w) ==
    /\ pc[w] = "cleanup" /\ Faulty(w)
    /\ \/ UNCHANGED tree
       \/ Staged(w) /\ tree' = [tree EXCEPT ![w] = "partial"]
    /\ Raise(w, "io_error", "done")
    /\ UNCHANGED <<names, dirs, claims>>

Fault(w) ==
    \/ CallFails(w) \/ StagingUnanswered(w) \/ MkdirUnanswered(w)
    \/ ClaimUnanswered(w) \/ ClaimCloseFails(w) \/ RenameUnanswered(w)
    \/ BestEffortFails(w) \/ ReadBackFails(w) \/ RemoveIfOwnedFails(w)
    \/ ConfirmationFails(w) \/ CleanupFails(w)

----------------------------------------------------------------------------
\* Incidents.  Each consumes one unit of MaxIncidents.

Running(w) == pc[w] \notin {"idle", "done"}

Incident == /\ incidents < MaxIncidents /\ incidents' = incidents + 1
            /\ UNCHANGED faults

\* The process is killed: its descriptors and locks go, its files stay.
Kill(w) ==
    /\ Running(w) /\ Incident
    /\ Raise(w, "killed", "done")
    /\ Release(w)
    /\ UNCHANGED <<names, tree, dirs, moved>>

\* The machine stops: every process dies, the name reverts to stable
\* storage and unsynced files are torn.
PowerLoss ==
    /\ Incident
    /\ target' = disk
    /\ tree' = [w \in Writers |->
                  IF tree[w] = "written" THEN "partial" ELSE tree[w]]
    /\ pc' = [w \in Writers |-> IF Running(w) THEN "done" ELSE pc[w]]
    /\ result' = [w \in Writers |-> IF Running(w) THEN "killed" ELSE result[w]]
    /\ fd' = [w \in Writers |-> Nothing]
    /\ locked' = {}
    /\ UNCHANGED <<disk, dirs, mkdirError, moved>>

\* A symbolic link in the requested parent is pointed elsewhere.
RetargetParent ==
    /\ ~moved /\ Incident /\ moved' = TRUE
    /\ UNCHANGED <<names, tree, dirs, claims, control>>

\* The kernel writes the parent directory back on its own.
WriteBack ==
    /\ disk # target /\ disk' = target
    /\ UNCHANGED <<target, tree, dirs, claims, control, world>>

Finished == \A w \in Writers : pc[w] = "done" \/ (pc[w] = "idle" /\ moved)

Next ==
    \/ \E w \in Writers : Step(w) \/ Fault(w) \/ Kill(w)
    \/ PowerLoss \/ RetargetParent \/ WriteBack
    \/ Finished /\ UNCHANGED vars

Fairness == \A w \in Writers : WF_vars(Running(w) /\ Step(w))

Spec == Init /\ [][Next]_vars /\ Fairness

----------------------------------------------------------------------------
\* Properties.

TypeOK ==
    /\ target \in Trees \cup Slots \cup {Nothing}
    /\ disk \in Trees \cup Slots \cup {Nothing}
    /\ tree \in [Writers -> {"none", "partial", "written", "synced"}]
    /\ closed \subseteq Trees \cup Slots
    /\ marked \subseteq Trees \cup Slots
    /\ fd \in [Writers -> Trees \cup Slots \cup {Nothing}]
    /\ locked \subseteq Writers
    /\ mkdirError \subseteq Writers
    /\ pc \in [Writers -> Labels]
    /\ result \in [Writers -> Outcomes]
    /\ moved \in BOOLEAN
    /\ faults \in Nat /\ incidents \in Nat

\* A name that denotes a checkpoint, in memory or on stable storage, denotes
\* one whose every file was synced: readers never see a partial checkpoint,
\* not even after a power loss between any two calls.
PublishedIsWhole ==
    \A w \in Writers :
        target = Tree(w) \/ disk = Tree(w) => tree[w] = "synced"

\* Once a checkpoint stands at the name no writer, retry or clean-up of a
\* loser replaces or removes it; only a power loss can, and none can take
\* back a checkpoint that reached stable storage.
NeverReplaced ==
    [][/\ disk \in Trees => disk' = disk
       /\ Published /\ target' # target => target' = disk /\ PowerLoss]_vars

\* A success is reported only when this writer's bytes stand at the name on
\* stable storage, also when the rename reply was lost and the outcome was
\* inferred by reading back; it stays true after any later power loss.
SuccessIsDurable ==
    \A w \in Writers : result[w] = "ok" =>
        /\ disk = target
        /\ \E v \in Writers : disk = Tree(v) /\ Payload[v] = Payload[w]

\* Two writers of different bytes are never both told they succeeded.
OneWinner ==
    \A v, w \in Writers :
        result[v] = "ok" /\ result[w] = "ok" => Payload[v] = Payload[w]

\* A writer told that the publication is ambiguous, durable-pending or
\* successful has not lost its bytes: they are still staged, or stand at
\* the name, possibly as another writer's identical tree.
InDoubtKeepsBytes ==
    \A w \in Writers :
        pc[w] = "done" /\ result[w] \in {"ambiguous", "durability", "ok"} =>
            \E v \in Writers : tree[v] = "synced" /\ Payload[v] = Payload[w]

\* A collision report is definite: a writer told the target exists has not
\* published, and something else stands or stood there.
CollisionIsDefinite ==
    \A w \in Writers : result[w] = "exists" => target # Tree(w) /\ disk # Tree(w)

\* Only an ambiguous outcome, a kill or a power loss leaves a staging
\* directory behind, where its creation, the look at its parent (made before
\* the try that cleans up) and its removal do not fail themselves.
NoStagingResidue ==
    \A w \in Writers :
        pc[w] = "done" /\ Staged(w) =>
            result[w] \in {"ambiguous", "killed"} \/ incidents > 0

\* As long as no placeholder mkdir reported an error, the published
\* checkpoint keeps its mode and its exact set of files.
PublishedIsIntact ==
    mkdirError = {} /\ Published => target \notin closed \cup marked

\* Nobody but a placeholder's creator makes it disappear, as long as no
\* placeholder mkdir reported an error: a claim is never taken from under
\* the writer that is about to rename over it.
ClaimIsRespected ==
    [][\A w \in Writers :
         mkdirError' = {} /\ incidents' = incidents
           /\ target = Slot(w) /\ target' # target => pc'[w] # pc[w]]_vars

Undisturbed == faults = 0 /\ incidents = 0

\* When an undisturbed race is over, whoever took part, it has one winner,
\* durably published and told so; every other writer was told that the
\* target exists and left nothing behind, however the calls interleaved.
RaceHasOneWinner ==
    /\ Undisturbed
    /\ \A w \in Writers : pc[w] \in {"idle", "done"}
    /\ \E w \in Writers : pc[w] = "done"
    => \E w \in Writers :
          /\ target = Tree(w) /\ disk = Tree(w) /\ result[w] = "ok"
          /\ \A v \in Writers \ {w} :
                tree[v] = "none" /\ (pc[v] = "done" => result[v] = "exists")

\* Every transaction that starts ends, whatever fails.
EveryoneEnds ==
    \A w \in Writers : pc[w] = "identity" ~> pc[w] = "done"

\* The published content, and what the writers were told, refine the
\* put-if-absent store.
ContentOf(d) == IF d \in Trees THEN Payload[d[2]] ELSE Nothing
Told(w) == IF pc[w] # "done" THEN "none"
           ELSE IF result[w] = "ok" THEN "success" ELSE "other"

Atomic == INSTANCE AtomicPublication WITH
    Content  <- Payload,
    NoContent <- Nothing,
    visible  <- ContentOf(target),
    durable  <- ContentOf(disk),
    answer   <- [w \in Writers |-> Told(w)]

\* The protocol implements the put-if-absent store: a checkpoint appears
\* whole at an empty name, is never replaced, and success follows durability.
ImplementsAtomic == Atomic!Spec

\* Statements of the repository that the code does not keep.

\* "Existing destinations are never removed, truncated, merged, or
\* overwritten": no writer's step leaves a marker in, or takes the mode of,
\* a checkpoint that is published.
DestinationsUntouched ==
    Published => target \notin closed \cup marked

\* A lost acknowledgement is read back and verified: a writer that ends with
\* an error that is not ambiguous has not published.  True where the calls
\* after which the code cannot tell do not fail (TellingFaults).
UnconfirmedIsAmbiguous ==
    \A w \in Writers :
        pc[w] = "done" /\ result[w] \in {"exists", "io_error"} =>
            target # Tree(w)

\* Ambiguous outcomes are reserved for a final name that exists.
AmbiguousHasTarget ==
    [][\A w \in Writers :
         result'[w] = "ambiguous" /\ result[w] # "ambiguous" =>
            target # Nothing]_vars
==========================================================================
