------------------------------ MODULE EditorModel ------------------------------
(***************************************************************************)
(* A text editor and its file (packages/monaco, packages/filesystem): the  *)
(* user edits, undoes, saves and reverts, other programs write the file.   *)
(* Saving and loading take several steps, in a queue of operations; a save *)
(* is refused when the file is newer than what the model has seen of it.   *)
(* Texts are numbers, every change makes a new one; 0 is a text that came  *)
(* out of applying changes to another text than they were made on.         *)
(***************************************************************************)
EXTENDS Naturals, SequencesExt

CONSTANTS
  MaxTexts,   \* bound: texts made by edits and by other programs, and the first
  MaxCalls,   \* bound: calls of save and revert
  MaxVersions \* bound: states of the buffer

ASSUME EditorAssumption == MaxTexts \in Nat /\ MaxCalls \in Nat /\ MaxVersions \in Nat

VARIABLES
  (* the file and its FileResource *)
  written,  \* the texts the file has had; its mtime is their number
  notice,   \* a change event is on its way
  stat,     \* the mtime that isInSync has got, 0: none
  version,  \* the mtime of _version
  (* MonacoEditorModel *)
  history,         \* states that can be undone to, the last is the current one
  bufferSavedVersionId, dirty, resourceVersion, contentChanges,
  queue,           \* operations chained to pendingOperation
  op,              \* the one that runs
  reverting,       \* revert waits for its sync
  texts, versions, calls,
  (* history of the system, for the properties *)
  seen,       \* mtimes of texts the model has loaded or written
  synced,     \* a sync ended, or was cancelled, since bufferSavedVersionId was set
  disturbed   \* what happened that the code does not cope with

file == <<written, notice, stat, version>>
ghosts == <<seen, synced, disturbed>>
buffer == <<history, bufferSavedVersionId, dirty, contentChanges>>
vars == <<file, buffer, resourceVersion, queue, op, reverting, texts, versions, calls, ghosts>>

Idle == [kind |-> "none"]
Sync(revert) == [kind |-> "sync", stage |-> "start", cancelled |-> FALSE, revert |-> revert]
Saving(manual) == [kind |-> "save", stage |-> "start", cancelled |-> FALSE, manual |-> manual]

Init ==
  /\ written = <<1>> /\ notice = FALSE /\ stat = 0 /\ version = 1
  /\ history = <<[id |-> 1, text |-> 1]>> /\ bufferSavedVersionId = 1 /\ dirty = FALSE
  /\ resourceVersion = 1 /\ contentChanges = <<>>
  /\ queue = <<>> /\ op = Idle /\ reverting = FALSE
  /\ texts = 1 /\ versions = 1 /\ calls = 0
  /\ seen = {1} /\ synced = FALSE /\ disturbed = {}

Current == Last(history)

Cancel(o, kinds) == IF o.kind \in kinds THEN [o EXCEPT !.cancelled = TRUE] ELSE o

(* cancelSync: all that were asked for so far.                             *)
CancelSync ==
  /\ op' = Cancel(op, {"sync"})
  /\ queue' = [i \in DOMAIN queue |-> Cancel(queue[i], {"sync"})]
  /\ synced' = (synced \/ op.kind = "sync" \/ \E i \in DOMAIN queue : queue[i].kind = "sync")

(* New tokens are taken, which cancels what has the old ones, and the      *)
(* operation is chained.                                                   *)
CancelThenRun(kinds, o) ==
  /\ op' = Cancel(op, kinds)
  /\ queue' = Append([i \in DOMAIN queue |-> Cancel(queue[i], kinds)], o)

(* setDirty(false), on the state of the buffer that the step leaves.       *)
SetClean ==
  /\ dirty' = FALSE
  /\ bufferSavedVersionId' = IF dirty THEN Last(history').id ELSE bufferSavedVersionId
  /\ synced' = (synced /\ ~ dirty)

Change(from, to) == [from |-> from, to |-> to]

-----------------------------------------------------------------------------
(* The user, or a participant of a save.                                   *)
Edit ==
  /\ texts < MaxTexts /\ versions < MaxVersions
  /\ texts' = texts + 1 /\ versions' = versions + 1
  /\ history' = Append(history, [id |-> versions + 1, text |-> texts + 1])
  /\ dirty' = TRUE /\ CancelSync
  /\ contentChanges' = Append(contentChanges, Change(Current.text, texts + 1))
  /\ UNCHANGED <<file, bufferSavedVersionId, resourceVersion, reverting, calls, seen, disturbed>>

(* Undo brings back the alternative version id of the state it goes back   *)
(* to: at the saved one the model is clean.                                *)
Undo ==
  /\ Len(history) > 1 /\ history' = Front(history)
  /\ contentChanges' = Append(contentChanges, Change(Current.text, Last(history').text))
  /\ IF Last(history').id = bufferSavedVersionId
     THEN /\ SetClean /\ UNCHANGED <<queue, op>>
          /\ disturbed' = disturbed \cup IF synced THEN {"undo"} ELSE {}
     ELSE /\ dirty' = TRUE /\ CancelSync
          /\ UNCHANGED <<bufferSavedVersionId, disturbed>>
  /\ UNCHANGED <<file, resourceVersion, reverting, texts, versions, calls, seen>>

(* save: of a dirty model, or when the user asks for it.                   *)
Save(manual) ==
  /\ dirty \/ manual
  /\ calls < MaxCalls /\ calls' = calls + 1
  /\ CancelThenRun({"save"}, Saving(manual))
  /\ UNCHANGED <<file, buffer, resourceVersion, reverting, texts, versions, ghosts>>

(* revert, of a dirty model: saves are cancelled, and the model counts as  *)
(* clean for the sync.                                                     *)
Revert ==
  /\ dirty /\ ~ reverting /\ calls < MaxCalls /\ calls' = calls + 1
  /\ reverting' = TRUE /\ dirty' = FALSE
  /\ CancelThenRun({"save", "sync"}, Sync(TRUE))
  /\ UNCHANGED <<file, history, bufferSavedVersionId, contentChanges, resourceVersion, texts, versions, ghosts>>

-----------------------------------------------------------------------------
(* Another program writes the file.                                        *)
ExternalWrite ==
  /\ texts < MaxTexts /\ texts' = texts + 1
  /\ written' = Append(written, texts + 1) /\ notice' = TRUE
  /\ UNCHANGED <<stat, version, buffer, resourceVersion, queue, op, reverting, versions, calls, ghosts>>

Locked == op.kind = "save" /\ op.stage \in {"ask", "write", "stat"}

(* sync of the FileResource, on a change event.                            *)
StatFile ==
  /\ notice /\ stat = 0 /\ ~ Locked
  /\ notice' = FALSE /\ stat' = Len(written)
  /\ UNCHANGED <<written, version, buffer, resourceVersion, queue, op, reverting, texts, versions, calls, ghosts>>

\* Mistake: a file that is newer than the version counts as in sync.
AlwaysInSync == stat > 0

InSync == version >= stat

(* The model syncs when the file is newer than the version.                *)
StatAnswered ==
  /\ stat # 0 /\ stat' = 0
  /\ IF InSync THEN UNCHANGED <<queue, op>> ELSE CancelThenRun({"sync"}, Sync(FALSE))
  /\ UNCHANGED <<written, notice, version, buffer, resourceVersion, reverting, texts, versions, calls, ghosts>>

-----------------------------------------------------------------------------
(* The queue.                                                              *)
Start ==
  /\ op = Idle /\ queue # <<>> /\ queue' = Tail(queue) /\ op' = Head(queue)
  /\ UNCHANGED <<file, buffer, resourceVersion, reverting, texts, versions, calls, ghosts>>

Kept(what) == IF contentChanges # <<>> THEN {what} ELSE {}

\* Mistake: a revert does not hear of the end of its sync.
EndSyncUnheard(also) ==
  /\ op' = Idle /\ synced' = TRUE
  /\ UNCHANGED <<reverting, dirty, bufferSavedVersionId, disturbed>>

(* doSync ends: a revert that waited for it marks the model as clean.      *)
EndSync(also) ==
  /\ op' = Idle /\ synced' = TRUE
  /\ IF op.revert
     THEN /\ reverting' = FALSE /\ dirty' = FALSE /\ bufferSavedVersionId' = Last(history').id
          /\ disturbed' = disturbed \cup Kept("revert") \cup IF dirty THEN {"edit"} ELSE {}
     ELSE /\ UNCHANGED <<reverting, dirty, bufferSavedVersionId>>
          /\ disturbed' = disturbed \cup also

(* doSync: readStream opens the file and keeps its mtime.                  *)
SyncOpen ==
  /\ op.kind = "sync" /\ op.stage = "start" /\ UNCHANGED history
  /\ IF op.cancelled
     THEN EndSync({}) /\ UNCHANGED version
     ELSE /\ version' = Len(written) /\ op' = [op EXCEPT !.stage = "read"]
          /\ UNCHANGED <<dirty, bufferSavedVersionId, reverting, synced, disturbed>>
  /\ UNCHANGED <<written, notice, stat, contentChanges, resourceVersion, queue, texts, versions, calls, seen>>

Loads == ~ op.cancelled /\ ~ dirty

(* doSync, with the text that was read; updateModel of an equal text       *)
(* changes nothing.                                                        *)
SyncRead ==
  /\ op.kind = "sync" /\ op.stage = "read"
  /\ IF Loads
     THEN /\ resourceVersion' = version /\ seen' = seen \cup {version}
          /\ IF Last(written) = Current.text THEN UNCHANGED <<history, versions>>
             ELSE /\ versions < MaxVersions /\ versions' = versions + 1
                  /\ history' = Append(history, [id |-> versions + 1, text |-> Last(written)])
     ELSE UNCHANGED <<resourceVersion, seen, history, versions>>
  /\ EndSync(IF history' = history THEN {} ELSE Kept("load"))
  /\ UNCHANGED <<file, contentChanges, queue, texts, calls>>

-----------------------------------------------------------------------------
(* doSave.                                                                 *)
EndSave == op' = Idle

(* The participants run; edits of theirs are edits.                        *)
SaveStart ==
  /\ op.kind = "save" /\ op.stage = "start"
  /\ IF op.cancelled THEN EndSave ELSE op' = [op EXCEPT !.stage = "participants"]
  /\ UNCHANGED <<file, buffer, resourceVersion, queue, reverting, texts, versions, calls, ghosts>>

\* Mistake: the version of the resource is what the model has seen.
VersionOfResource == version

VersionToSave == resourceVersion

(* The text and the changes are taken; those are sent when they are        *)
(* shorter than the text.                                                  *)
Snapshot ==
  /\ op.kind = "save" /\ op.stage = "participants"
  /\ IF op.cancelled \/ (contentChanges = <<>> /\ ~ op.manual)
     THEN EndSave
     ELSE \E incremental \in BOOLEAN :
            op' = [kind |-> "save", stage |-> "check", cancelled |-> FALSE, incremental |-> incremental,
                   confirmed |-> FALSE, changes |-> contentChanges, id |-> Current.id, text |-> Current.text,
                   version |-> VersionToSave, mtime |-> 0]
  /\ UNCHANGED <<file, buffer, resourceVersion, queue, reverting, texts, versions, calls, ghosts>>

(* After Resource.save: changes that were there at its start are dropped.  *)
(* A save that was cancelled stays dirty if the model has changed.         *)
EndResourceSave(v, also) ==
  /\ version' = v /\ resourceVersion' = v /\ UNCHANGED history
  /\ contentChanges' = SubSeq(contentChanges, Len(op.changes) + 1, Len(contentChanges))
  /\ IF op.cancelled /\ Current.id # op.id
     THEN UNCHANGED <<dirty, bufferSavedVersionId, synced>> /\ disturbed' = disturbed \cup also
     ELSE SetClean /\ disturbed' = disturbed \cup also \cup IF Current.id # op.id THEN {"edit"} ELSE {}
  /\ EndSave

Keep == <<queue, reverting, texts, versions, calls>>

(* modifiedSince: the size is another one, too.                            *)
ModifiedSince == op.version < Len(written)

(* The stat before a write.  Changes that are refused are followed by the  *)
(* whole text, unless the save is cancelled: then Resource.save returns as *)
(* if it had saved.                                                        *)
Check ==
  /\ op.kind = "save" /\ op.stage = "check"
  /\ \/ /\ ~ ModifiedSince
        /\ op' = [op EXCEPT !.stage = "write", !.mtime = Len(written)]
        /\ UNCHANGED <<version, buffer, resourceVersion, synced, disturbed>>
     \/ /\ ModifiedSince /\ op.incremental /\ op.cancelled
        /\ EndResourceSave(version, {"cancel"})
     \/ /\ ModifiedSince /\ op.incremental /\ ~ op.cancelled
        /\ op' = [op EXCEPT !.incremental = FALSE]
        /\ UNCHANGED <<version, buffer, resourceVersion, synced, disturbed>>
     \/ /\ ModifiedSince /\ ~ op.incremental
        /\ op' = [op EXCEPT !.stage = "ask"]
        /\ UNCHANGED <<version, buffer, resourceVersion, synced, disturbed>>
  /\ UNCHANGED <<written, notice, stat, Keep, seen>>

(* shouldOverwrite: with no, the save ends as OutOfSync.                   *)
Ask ==
  /\ op.kind = "save" /\ op.stage = "ask"
  /\ \/ op' = [op EXCEPT !.stage = "write", !.confirmed = TRUE, !.mtime = Len(written)]
     \/ EndSave
  /\ UNCHANGED <<file, buffer, resourceVersion, Keep, ghosts>>

(* Another program wrote since the last step.                              *)
Overtaken == IF op.mtime < Len(written) THEN {"overtaken"} ELSE {}

Consecutive(changes) == \A i \in 1 .. Len(changes) - 1 : changes[i].to = changes[i + 1].from

(* updateFile: changes, on the text they were made on or on another.       *)
Apply(changes, text) ==
  CASE changes = <<>> -> text
    [] changes # <<>> /\ Consecutive(changes) /\ changes[1].from = text -> Last(changes).to
    [] OTHER -> 0

Write ==
  /\ op.kind = "save" /\ op.stage = "write"
  /\ written' = Append(written, IF op.incremental THEN Apply(op.changes, Last(written)) ELSE op.text)
  /\ notice' = TRUE /\ seen' = seen \cup {Len(written) + 1}
  /\ op' = [op EXCEPT !.stage = "stat", !.mtime = Len(written) + 1]
  /\ disturbed' = disturbed \cup Overtaken
  /\ UNCHANGED <<stat, version, buffer, resourceVersion, Keep, synced>>

(* The stat after it is the new version, whoever wrote last.               *)
SaveDone ==
  /\ op.kind = "save" /\ op.stage = "stat"
  /\ EndResourceSave(Len(written), Overtaken)
  /\ UNCHANGED <<written, notice, stat, Keep, seen>>

Next ==
  \/ Edit \/ Undo \/ Revert \/ ExternalWrite
  \/ \E manual \in BOOLEAN : Save(manual)
  \/ StatFile \/ StatAnswered \/ Start \/ SyncOpen \/ SyncRead
  \/ SaveStart \/ Snapshot \/ Check \/ Ask \/ Write \/ SaveDone

Spec == Init /\ [][Next]_vars

-----------------------------------------------------------------------------
Text == Nat
Changes == Seq([from : Text, to : Text])

Syncing(stages) ==
  [kind : {"sync"}, stage : stages, cancelled : BOOLEAN, revert : BOOLEAN]

SaveBegun(stages) ==
  [kind : {"save"}, stage : stages, cancelled : BOOLEAN, manual : BOOLEAN]

SaveTaken(stages) ==
  [kind : {"save"}, stage : stages, cancelled : BOOLEAN, incremental : BOOLEAN, confirmed : BOOLEAN,
   changes : Changes, id : Nat, text : Text, version : Nat, mtime : Nat]

Operation == Syncing({"start"}) \cup SaveBegun({"start"})

Running ==
  {Idle} \cup Syncing({"start", "read"}) \cup SaveBegun({"start", "participants"})
         \cup SaveTaken({"check", "ask", "write", "stat"})

OfRevert(o) == o.kind = "sync" /\ o.revert

(* Every variable has its type; versions are mtimes the file has had, and  *)
(* a revert waits as long as its sync.                                     *)
TypeOK ==
  /\ written \in Seq(Text) /\ written # <<>> /\ notice \in BOOLEAN
  /\ stat \in 0 .. Len(written) /\ version \in 1 .. Len(written) /\ resourceVersion \in 1 .. Len(written)
  /\ history \in Seq([id : Nat, text : Text]) /\ history # <<>>
  /\ bufferSavedVersionId \in Nat /\ dirty \in BOOLEAN
  /\ contentChanges \in Changes
  /\ queue \in Seq(Operation) /\ op \in Running
  /\ reverting <=> (OfRevert(op) \/ \E i \in DOMAIN queue : OfRevert(queue[i]))
  /\ texts \in Nat /\ versions \in Nat /\ calls \in Nat
  /\ seen \subseteq Nat /\ synced \in BOOLEAN
  /\ disturbed \subseteq {"edit", "undo", "revert", "load", "cancel", "overtaken"}

(* A save never replaces a text of another program that the model has not  *)
(* loaded, unless the user agreed: at the check before the write the file  *)
(* had what the model had seen.                                            *)
NothingOverwritten ==
  (op.kind = "save" /\ op.stage = "write" /\ disturbed \cap {"cancel", "overtaken"} = {}) =>
    op.confirmed \/ op.mtime \in seen

Settled == ~ dirty /\ op = Idle /\ queue = <<>> /\ ~ notice /\ stat = 0 /\ ~ reverting

(* A clean model at rest shows what the file has.                          *)
SettledIsSynced == (Settled /\ disturbed = {}) => Current.text = Last(written)

(* The same after a revert of changes: it leaves nothing behind.           *)
RevertedIsGone == (Settled /\ disturbed \subseteq {"revert"}) => Current.text = Last(written)
=============================================================================
