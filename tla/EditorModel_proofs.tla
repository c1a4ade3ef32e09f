-------------------------- MODULE EditorModel_proofs --------------------------
(***************************************************************************)
(* Theorems about EditorModel, for any number of texts, calls and states.  *)
(***************************************************************************)
EXTENDS EditorModel, SequenceTheorems, TLAPS

(* The type invariant, in parts.                                           *)
FileOK ==
  /\ written \in Seq(Text) /\ written # <<>> /\ notice \in BOOLEAN
  /\ stat \in 0 .. Len(written) /\ version \in 1 .. Len(written) /\ resourceVersion \in 1 .. Len(written)

State == [id : Nat, text : Text]

BufferOK ==
  /\ history \in Seq(State) /\ history # <<>>
  /\ bufferSavedVersionId \in Nat /\ dirty \in BOOLEAN
  /\ contentChanges \in Changes

QueueOK == queue \in Seq(Operation) /\ op \in Running

Mark == {"edit", "undo", "revert", "load", "cancel", "overtaken"}

RestOK ==
  /\ texts \in Nat /\ versions \in Nat /\ calls \in Nat
  /\ seen \subseteq Nat /\ synced \in BOOLEAN /\ disturbed \subseteq Mark

(* At most one operation is of a revert, and one is while it waits.        *)
RevertOK ==
  /\ reverting \in BOOLEAN
  /\ reverting <=> (OfRevert(op) \/ \E i \in DOMAIN queue : OfRevert(queue[i]))
  /\ OfRevert(op) => \A i \in DOMAIN queue : ~ OfRevert(queue[i])
  /\ \A i, j \in DOMAIN queue : OfRevert(queue[i]) /\ OfRevert(queue[j]) => i = j

(* What NothingOverwritten rests on: as long as nothing else happened, the *)
(* versions that are compared with the mtime of the file have been seen.   *)
Undisturbed == disturbed \cap {"cancel", "overtaken"} = {}
At(stages) == op.kind = "save" /\ op.stage \in stages

SeenOK ==
  /\ At({"stat"}) => op.mtime \in seen /\ op.mtime <= Len(written)
  /\ At({"check", "ask", "write"}) => op.version <= Len(written)
  /\ Undisturbed =>
       /\ resourceVersion \in seen
       /\ At({"check"}) => op.version \in seen
       /\ NothingOverwritten

IInv == FileOK /\ BufferOK /\ QueueOK /\ RestOK /\ RevertOK /\ SeenOK

-----------------------------------------------------------------------------
(* Operations.                                                             *)
LEMMA OfKind ==
  ASSUME NEW o \in Running
  PROVE  /\ o.kind = "sync" => o \in Syncing({"start", "read"})
         /\ o.kind = "save" => o \in SaveBegun({"start", "participants"})
                                 \cup SaveTaken({"check", "ask", "write", "stat"})
         /\ o.kind = "save" /\ o.stage \in {"start", "participants"} => o \in SaveBegun({"start", "participants"})
         /\ o.kind = "save" /\ o.stage \in {"check", "ask", "write", "stat"}
              => o \in SaveTaken({"check", "ask", "write", "stat"})
BY DEF Running, Syncing, SaveBegun, SaveTaken, Idle

(* A token that is cancelled changes the mark of the operation only.       *)
LEMMA CancelOne ==
  ASSUME NEW o, NEW kinds \in SUBSET {"sync", "save"}
  PROVE  /\ o \in Running => Cancel(o, kinds) \in Running
         /\ o \in Operation => Cancel(o, kinds) \in Operation
<1>1. CASE o.kind \notin kinds BY <1>1 DEF Cancel
<1>2. CASE o.kind \in kinds
  <2>1. o # Idle BY <1>2 DEF Idle
  <2>2. Cancel(o, kinds) = [o EXCEPT !.cancelled = TRUE] BY <1>2 DEF Cancel
  <2>3. ASSUME NEW S, o \in Syncing(S) PROVE Cancel(o, kinds) \in Syncing(S) BY <2>2, <2>3 DEF Syncing
  <2>4. ASSUME NEW S, o \in SaveBegun(S) PROVE Cancel(o, kinds) \in SaveBegun(S) BY <2>2, <2>4 DEF SaveBegun
  <2>5. ASSUME NEW S, o \in SaveTaken(S) PROVE Cancel(o, kinds) \in SaveTaken(S) BY <2>2, <2>5 DEF SaveTaken
  <2> QED BY <2>1, <2>3, <2>4, <2>5 DEF Running, Operation
<1> QED BY <1>1, <1>2

LEMMA CancelKeeps ==
  ASSUME NEW o \in Running, NEW kinds \in SUBSET {"sync", "save"}
  PROVE  /\ Cancel(o, kinds).kind = o.kind
         /\ OfRevert(Cancel(o, kinds)) <=> OfRevert(o)
         /\ o.kind = "save" => Cancel(o, kinds).stage = o.stage
         /\ o.kind = "save" /\ o.stage \in {"check", "ask", "write", "stat"} =>
              /\ Cancel(o, kinds).mtime = o.mtime /\ Cancel(o, kinds).version = o.version
              /\ Cancel(o, kinds).confirmed = o.confirmed
<1>1. CASE o.kind \notin kinds BY <1>1 DEF Cancel
<1>2. CASE o.kind \in kinds
  <2>1. Cancel(o, kinds) = [o EXCEPT !.cancelled = TRUE] BY <1>2 DEF Cancel
  <2>2. CASE o \in Syncing({"start", "read"}) BY <2>1, <2>2 DEF Syncing, OfRevert
  <2>3. CASE o \in SaveBegun({"start", "participants"}) BY <2>1, <2>3 DEF SaveBegun, OfRevert
  <2>4. CASE o \in SaveTaken({"check", "ask", "write", "stat"}) BY <2>1, <2>4 DEF SaveTaken, OfRevert
  <2> QED BY <1>2, <2>2, <2>3, <2>4 DEF Running, Idle
<1> QED BY <1>1, <1>2

LEMMA OperationRuns == Operation \subseteq Running
BY DEF Operation, Running, Syncing, SaveBegun

(* Cancelling keeps the queue, and what is appended joins it.              *)
LEMMA QueueStep ==
  ASSUME QueueOK, NEW kinds \in SUBSET {"sync", "save"}, op' = Cancel(op, kinds),
         NEW q, q = [i \in DOMAIN queue |-> Cancel(queue[i], kinds)]
  PROVE  /\ op' \in Running
         /\ q \in Seq(Operation) /\ DOMAIN q = DOMAIN queue /\ Len(q) = Len(queue)
         /\ OfRevert(op') <=> OfRevert(op)
         /\ \A i \in DOMAIN queue : OfRevert(q[i]) <=> OfRevert(queue[i])
<1> USE DEF QueueOK
<1>1. op' \in Running /\ (OfRevert(op') <=> OfRevert(op)) BY CancelOne, CancelKeeps
<1>2. ASSUME NEW i \in DOMAIN queue
      PROVE  q[i] \in Operation /\ (OfRevert(q[i]) <=> OfRevert(queue[i]))
  <2>1. queue[i] \in Operation OBVIOUS
  <2>2. queue[i] \in Running BY <2>1, OperationRuns
  <2>3. q[i] = Cancel(queue[i], kinds) OBVIOUS
  <2> QED BY <2>1, <2>2, <2>3, CancelOne, CancelKeeps
<1>3. q \in Seq(Operation) /\ DOMAIN q = DOMAIN queue /\ Len(q) = Len(queue)
  <2>1. DOMAIN queue = 1 .. Len(queue) /\ Len(queue) \in Nat OBVIOUS
  <2>2. q \in [1 .. Len(queue) -> Operation] BY <1>2, <2>1
  <2> QED BY <2>1, <2>2
<1> QED BY <1>1, <1>2, <1>3

-----------------------------------------------------------------------------
(* The last of a sequence, and what comes before it.                       *)
LEMMA LastFront ==
  ASSUME NEW S, NEW s \in Seq(S), s # <<>>
  PROVE  /\ Last(s) \in S
         /\ Len(s) > 1 => Front(s) \in Seq(S) /\ Front(s) # <<>>
<1>1. Len(s) \in Nat /\ Len(s) > 0 OBVIOUS
<1>2. Last(s) \in S BY <1>1 DEF Last
<1>3. ASSUME Len(s) > 1 PROVE Front(s) \in Seq(S) /\ Front(s) # <<>>
  <2>1. Front(s) = SubSeq(s, 1, Len(s) - 1) BY DEF Front
  <2>2. Len(s) - 1 \in Nat /\ 1 <= Len(s) - 1 /\ Len(s) - 1 <= Len(s) BY <1>1, <1>3
  <2>3. Front(s) \in Seq(S) /\ Len(Front(s)) = Len(s) - 1 BY <2>1, <2>2
  <2> QED BY <2>2, <2>3
<1> QED BY <1>2, <1>3

LEMMA ApplyType ==
  ASSUME NEW changes \in Changes, NEW text \in Text
  PROVE  Apply(changes, text) \in Text
<1>1. CASE changes = <<>> BY <1>1 DEF Apply
<1>2. CASE changes # <<>>
  <2>1. Last(changes) \in [from : Text, to : Text] BY <1>2, LastFront DEF Changes
  <2>2. Last(changes).to \in Text BY <2>1
  <2> QED BY <1>2, <2>2 DEF Apply, Text
<1> QED BY <1>1, <1>2

(* The steps of operations.                                                *)
LEMMA OpAt ==
  ASSUME QueueOK
  PROVE  /\ op.kind = "sync" => op \in Syncing({"start", "read"})
         /\ At({"start", "participants"}) => op \in SaveBegun({"start", "participants"})
         /\ At({"check", "ask", "write", "stat"}) => op \in SaveTaken({"check", "ask", "write", "stat"})
BY OfKind DEF QueueOK, At

LEMMA FileStep ==
  ASSUME FileOK, QueueOK, RestOK, [Next]_vars PROVE FileOK'
<1> USE DEF FileOK
<1>0. Len(written) \in Nat /\ Len(written) >= 1 OBVIOUS
<1>1. CASE UNCHANGED <<file, resourceVersion>> BY <1>1 DEF file
<1>2. CASE ExternalWrite
  <2>1. texts + 1 \in Text BY DEF RestOK, Text
  <2>2. written' = Append(written, texts + 1) BY <1>2 DEF ExternalWrite
  <2>3. written' \in Seq(Text) /\ written' # <<>> /\ Len(written') = Len(written) + 1 BY <2>1, <2>2
  <2> QED BY <1>0, <1>2, <2>3 DEF ExternalWrite, buffer
<1>3. CASE StatFile
  <2>1. notice' \in BOOLEAN BY <1>3 DEF StatFile
  <2>2. stat' = Len(written) /\ UNCHANGED <<written, version, resourceVersion>> BY <1>3 DEF StatFile
  <2> QED BY <1>0, <2>1, <2>2
<1>4. CASE StatAnswered BY <1>0, <1>4 DEF StatAnswered
<1>5. CASE SyncOpen BY <1>0, <1>5 DEF SyncOpen
<1>6. CASE SyncRead BY <1>0, <1>6 DEF SyncRead, file
<1>7. CASE Check BY <1>0, <1>7 DEF Check, EndResourceSave
<1>8. CASE Write
  <2>1. op \in SaveTaken({"check", "ask", "write", "stat"}) BY <1>8, OpAt DEF Write, At
  <2>2. op.text \in Text /\ op.changes \in Changes BY <2>1 DEF SaveTaken
  <2>3. Last(written) \in Text BY LastFront
  <2>4. Apply(op.changes, Last(written)) \in Text BY <2>2, <2>3, ApplyType
  <2>5. PICK t \in Text : written' = Append(written, t) BY <1>8, <2>2, <2>4 DEF Write
  <2>6. written' \in Seq(Text) /\ written' # <<>> /\ Len(written') = Len(written) + 1 BY <2>5
  <2> QED BY <1>0, <1>8, <2>6 DEF Write
<1>9. CASE SaveDone BY <1>0, <1>9 DEF SaveDone, EndResourceSave
<1> QED BY <1>1, <1>2, <1>3, <1>4, <1>5, <1>6, <1>7, <1>8, <1>9
        DEF Next, vars, Edit, Undo, Save, Revert, Start, SaveStart, Snapshot, Ask

LEMMA BufferStep ==
  ASSUME BufferOK, FileOK, QueueOK, RestOK, [Next]_vars PROVE BufferOK'
<1> USE DEF BufferOK
<1>0. Last(history) \in State /\ Last(history).id \in Nat /\ Last(history).text \in Text
  <2>1. Last(history) \in State BY LastFront
  <2> QED BY <2>1 DEF State
<1>1. CASE UNCHANGED buffer BY <1>1 DEF buffer
<1>2. ASSUME NEW a \in Text, NEW b \in Text, contentChanges' = Append(contentChanges, Change(a, b))
      PROVE  contentChanges' \in Changes
  <2>1. Change(a, b) \in [from : Text, to : Text] BY DEF Change
  <2> QED BY <1>2, <2>1 DEF Changes
<1>3. ASSUME NEW t \in Text, history' = Append(history, [id |-> versions + 1, text |-> t])
      PROVE  history' \in Seq(State) /\ history' # <<>>
  <2>1. [id |-> versions + 1, text |-> t] \in State BY DEF State, RestOK
  <2> QED BY <1>3, <2>1
<1>4. CASE Edit
  <2>1. texts + 1 \in Text BY DEF RestOK, Text
  <2>2. contentChanges' \in Changes BY <1>0, <1>2, <1>4, <2>1 DEF Edit, Current
  <2>3. history' \in Seq(State) /\ history' # <<>> BY <1>3, <1>4, <2>1 DEF Edit
  <2> QED BY <1>4, <2>2, <2>3 DEF Edit
<1>5. ASSUME history' \in Seq(State), history' # <<>>
      PROVE  Last(history').id \in Nat /\ Last(history').text \in Text
  <2>1. Last(history') \in State BY <1>5, LastFront
  <2> QED BY <2>1 DEF State
<1>6. CASE Undo
  <2>1. history' \in Seq(State) /\ history' # <<>> BY <1>6, LastFront DEF Undo
  <2>2. contentChanges' \in Changes BY <1>0, <1>2, <1>5, <1>6, <2>1 DEF Undo, Current
  <2> QED BY <1>5, <1>6, <2>1, <2>2 DEF Undo, SetClean
<1>7. CASE Revert BY <1>7 DEF Revert
<1>8. ASSUME NEW x, EndSync(x), history' \in Seq(State), history' # <<>>, UNCHANGED contentChanges
      PROVE  BufferOK'
  BY <1>5, <1>8 DEF EndSync
<1>9. CASE SyncOpen
  <2>1. CASE op.cancelled BY <1>8, <1>9, <2>1 DEF SyncOpen
  <2> QED BY <1>9, <2>1 DEF SyncOpen
<1>10. CASE SyncRead
  <2>1. Last(written) \in Text BY LastFront DEF FileOK
  <2>2. history' \in Seq(State) /\ history' # <<>> BY <1>3, <1>10, <2>1 DEF SyncRead
  <2> QED BY <1>8, <1>10, <2>2 DEF SyncRead
<1>11. ASSUME NEW v, NEW x, EndResourceSave(v, x), op \in SaveTaken({"check", "ask", "write", "stat"})
       PROVE  BufferOK'
  <2>1. op.changes \in Changes /\ Len(op.changes) \in Nat BY <1>11 DEF SaveTaken, Changes
  <2>2. Len(contentChanges) \in Nat BY DEF Changes
  <2>3. SubSeq(contentChanges, Len(op.changes) + 1, Len(contentChanges)) \in Changes
    <3>1. PICK n \in Nat : n = Len(op.changes) BY <2>1
    <3>2. PICK S : S = [from : Text, to : Text] OBVIOUS
    <3>3. contentChanges \in Seq(S) BY <3>2 DEF Changes
    <3>4. \A i \in n + 1 .. Len(contentChanges) : contentChanges[i] \in S BY <2>2, <3>1, <3>3
    <3>5. SubSeq(contentChanges, n + 1, Len(contentChanges)) \in Seq(S) BY <2>2, <3>1, <3>4, SubSeqProperties
    <3> QED BY <3>1, <3>2, <3>5 DEF Changes
  <2>4. contentChanges' \in Changes BY <1>11, <2>3 DEF EndResourceSave
  <2> QED BY <1>5, <1>11, <2>4 DEF EndResourceSave, SetClean
<1>12. CASE Check
  <2>1. op \in SaveTaken({"check", "ask", "write", "stat"}) BY <1>12, OpAt DEF Check, At
  <2> QED BY <1>1, <1>11, <1>12, <2>1 DEF Check
<1>13. CASE SaveDone
  <2>1. op \in SaveTaken({"check", "ask", "write", "stat"}) BY <1>13, OpAt DEF SaveDone, At
  <2> QED BY <1>11, <1>13, <2>1 DEF SaveDone
<1> QED BY <1>1, <1>4, <1>6, <1>7, <1>9, <1>10, <1>12, <1>13
        DEF Next, vars, buffer, Save, ExternalWrite, StatFile, StatAnswered, Start, SaveStart, Snapshot, Ask, Write

LEMMA RestStep ==
  ASSUME RestOK, FileOK, QueueOK, [Next]_vars PROVE RestOK'
<1> USE DEF RestOK
<1>0. CASE UNCHANGED vars BY <1>0 DEF vars, ghosts
<1>1. CASE Edit BY <1>1 DEF Edit, CancelSync
<1>2. CASE Undo BY <1>2 DEF Undo, SetClean, CancelSync, Mark
<1>3. ASSUME UNCHANGED ghosts, texts' \in Nat, versions' \in Nat, calls' \in Nat PROVE RestOK'
  BY <1>3 DEF ghosts
<1>13. CASE Revert BY <1>3, <1>13 DEF Revert
<1>14. CASE ExternalWrite BY <1>3, <1>14 DEF ExternalWrite
<1>15. CASE StatFile \/ StatAnswered \/ Start BY <1>3, <1>15 DEF StatFile, StatAnswered, Start
<1>16. CASE SaveStart \/ Snapshot \/ Ask BY <1>3, <1>16 DEF SaveStart, Snapshot, Ask, Keep
<1>4. ASSUME NEW manual \in BOOLEAN, Save(manual) PROVE RestOK' BY <1>3, <1>4 DEF Save
<1>5. ASSUME NEW x \in SUBSET Mark, EndSync(x) PROVE synced' \in BOOLEAN /\ disturbed' \subseteq Mark
  BY <1>5 DEF EndSync, Kept, Mark
<1>6. CASE SyncOpen
  <2>1. CASE op.cancelled BY <1>5, <1>6, <2>1 DEF SyncOpen
  <2> QED BY <1>6, <2>1 DEF SyncOpen
<1>7. CASE SyncRead
  <2>1. PICK x \in SUBSET Mark : EndSync(x) BY <1>7 DEF SyncRead, Kept, Mark
  <2>2. version \in Nat BY DEF FileOK
  <2>3. seen' \subseteq Nat BY <1>7, <2>2 DEF SyncRead
  <2>4. versions' \in Nat BY <1>7 DEF SyncRead
  <2> QED BY <1>5, <1>7, <2>1, <2>3, <2>4 DEF SyncRead
<1>8. ASSUME NEW v, NEW x \in SUBSET Mark, EndResourceSave(v, x)
      PROVE  synced' \in BOOLEAN /\ disturbed' \subseteq Mark
  BY <1>8 DEF EndResourceSave, SetClean, Mark
<1>9. CASE Check
  <2>1. {"cancel"} \in SUBSET Mark BY DEF Mark
  <2> QED BY <1>8, <1>9, <2>1 DEF Check, Keep
<1>10. Overtaken \in SUBSET Mark BY DEF Overtaken, Mark
<1>11. CASE Write
  <2>1. Len(written) + 1 \in Nat BY DEF FileOK
  <2> QED BY <1>10, <1>11, <2>1 DEF Write, Keep
<1>12. CASE SaveDone BY <1>8, <1>10, <1>12 DEF SaveDone, Keep
<1> QED BY <1>0, <1>1, <1>2, <1>3, <1>4, <1>6, <1>7, <1>9, <1>11, <1>12, <1>13, <1>14, <1>15, <1>16 DEF Next

LEMMA SyncChained ==
  ASSUME NEW r \in BOOLEAN PROVE Sync(r) \in Operation /\ (OfRevert(Sync(r)) <=> r)
BY DEF Sync, Operation, Syncing, OfRevert

LEMMA SavingChained ==
  ASSUME NEW manual \in BOOLEAN PROVE Saving(manual) \in Operation /\ ~ OfRevert(Saving(manual))
BY DEF Saving, Operation, SaveBegun, OfRevert

(* RevertOK depends on which operations are of a revert.                   *)
LEMMA CancelSyncStep ==
  ASSUME QueueOK, RevertOK, CancelSync, UNCHANGED reverting PROVE QueueOK' /\ RevertOK'
<1>1. op' = Cancel(op, {"sync"}) BY DEF CancelSync
<1>2. queue' = [i \in DOMAIN queue |-> Cancel(queue[i], {"sync"})] BY DEF CancelSync
<1>3. /\ op' \in Running /\ queue' \in Seq(Operation) /\ DOMAIN queue' = DOMAIN queue
      /\ OfRevert(op') <=> OfRevert(op)
      /\ \A i \in DOMAIN queue : OfRevert(queue'[i]) <=> OfRevert(queue[i])
  <2>1. PICK q : q = queue' OBVIOUS
  <2> QED BY <1>1, <1>2, <2>1, QueueStep
<1>4. QueueOK' BY <1>3 DEF QueueOK
<1>5. RevertOK'
  <2>1. PICK w : w = OfRevert(op') OBVIOUS
  <2> QED BY <1>3 DEF RevertOK
<1> QED BY <1>4, <1>5

LEMMA CancelThenRunStep ==
  ASSUME QueueOK, RevertOK, NEW kinds \in SUBSET {"sync", "save"}, NEW o \in Operation, CancelThenRun(kinds, o),
         \/ UNCHANGED reverting /\ ~ OfRevert(o)
         \/ ~ reverting /\ reverting' = TRUE /\ OfRevert(o)
  PROVE  QueueOK' /\ RevertOK'
<1>1. PICK q : q = [i \in DOMAIN queue |-> Cancel(queue[i], kinds)] OBVIOUS
<1>2. op' = Cancel(op, kinds) /\ queue' = Append(q, o) BY <1>1 DEF CancelThenRun
<1>3. /\ op' \in Running /\ q \in Seq(Operation) /\ DOMAIN q = DOMAIN queue /\ Len(q) = Len(queue)
      /\ OfRevert(op') <=> OfRevert(op)
      /\ \A i \in DOMAIN queue : OfRevert(q[i]) <=> OfRevert(queue[i])
  BY <1>1, <1>2, QueueStep
<1>4. /\ queue' \in Seq(Operation) /\ DOMAIN queue' = DOMAIN queue \cup {Len(queue) + 1}
      /\ queue'[Len(queue) + 1] = o /\ \A i \in DOMAIN queue : queue'[i] = q[i] /\ i # Len(queue) + 1
  BY <1>2, <1>3
<1>5. QueueOK' BY <1>3, <1>4 DEF QueueOK
<1>6. \A i \in DOMAIN queue : OfRevert(queue'[i]) <=> OfRevert(queue[i]) BY <1>3, <1>4
<1>7. OfRevert(queue'[Len(queue) + 1]) <=> OfRevert(o) BY <1>4
<1>8. CASE UNCHANGED reverting /\ ~ OfRevert(o)
  <2>1. \A i \in DOMAIN queue' : OfRevert(queue'[i]) => i \in DOMAIN queue /\ OfRevert(queue[i])
    BY <1>4, <1>6, <1>7, <1>8
  <2>2. (\E i \in DOMAIN queue' : OfRevert(queue'[i])) <=> \E i \in DOMAIN queue : OfRevert(queue[i])
    BY <1>4, <1>6, <2>1
  <2>3. reverting' <=> (OfRevert(op') \/ \E i \in DOMAIN queue' : OfRevert(queue'[i]))
    BY <1>3, <1>8, <2>2 DEF RevertOK
  <2>4. OfRevert(op') => \A i \in DOMAIN queue' : ~ OfRevert(queue'[i]) BY <1>3, <2>1 DEF RevertOK
  <2>5. \A i, j \in DOMAIN queue' : OfRevert(queue'[i]) /\ OfRevert(queue'[j]) => i = j
    BY <2>1 DEF RevertOK
  <2>6. reverting' \in BOOLEAN BY <1>8 DEF RevertOK
  <2> QED BY <1>5, <2>3, <2>4, <2>5, <2>6 DEF RevertOK
<1>9. CASE ~ reverting /\ reverting' = TRUE /\ OfRevert(o)
  <2>1. ~ OfRevert(op') /\ \A i \in DOMAIN queue : ~ OfRevert(queue[i]) BY <1>3, <1>9 DEF RevertOK
  <2>2. \A i \in DOMAIN queue' : OfRevert(queue'[i]) => i = Len(queue) + 1 BY <1>4, <1>6, <2>1
  <2>3. \E i \in DOMAIN queue' : OfRevert(queue'[i]) BY <1>4, <1>7, <1>9
  <2>4. \A i, j \in DOMAIN queue' : OfRevert(queue'[i]) /\ OfRevert(queue'[j]) => i = j
    BY <2>2
  <2> QED BY <1>5, <1>9, <2>1, <2>3, <2>4 DEF RevertOK
<1> QED BY <1>5, <1>8, <1>9

(* An operation goes on, or one that is not of a revert ends.              *)
LEMMA OpStep ==
  ASSUME QueueOK, RevertOK, op' \in Running, OfRevert(op') <=> OfRevert(op), UNCHANGED <<queue, reverting>>
  PROVE  QueueOK' /\ RevertOK'
BY DEF QueueOK, RevertOK

LEMMA IdleRuns == Idle \in Running /\ ~ OfRevert(Idle)
BY DEF Running, Idle, OfRevert

LEMMA EndSyncStep ==
  ASSUME QueueOK, RevertOK, NEW x, op.kind = "sync", EndSync(x), UNCHANGED queue
  PROVE  QueueOK' /\ RevertOK'
<1>1. op' = Idle BY DEF EndSync
<1>2. op' \in Running /\ ~ OfRevert(op') BY <1>1, IdleRuns
<1>3. CASE op.revert
  <2>1. OfRevert(op) BY <1>3 DEF OfRevert
  <2>2. reverting' = FALSE BY <1>3 DEF EndSync
  <2> QED BY <1>2, <2>1, <2>2 DEF QueueOK, RevertOK
<1>4. CASE ~ op.revert
  <2>1. ~ OfRevert(op) BY <1>4 DEF OfRevert
  <2>2. UNCHANGED reverting BY <1>4 DEF EndSync
  <2> QED BY <1>2, <2>1, <2>2, OpStep
<1> QED BY <1>3, <1>4

LEMMA EndSaveStep ==
  ASSUME QueueOK, RevertOK, op.kind = "save", EndSave, UNCHANGED <<queue, reverting>>
  PROVE  QueueOK' /\ RevertOK'
<1>1. op' \in Running /\ ~ OfRevert(op') BY IdleRuns DEF EndSave
<1>2. ~ OfRevert(op) BY DEF OfRevert
<1> QED BY <1>1, <1>2, OpStep

(* The same for a save that goes on.                                       *)
LEMMA SaveGoesOn ==
  ASSUME QueueOK, RevertOK, op.kind = "save",
         op' \in SaveBegun({"start", "participants"}) \cup SaveTaken({"check", "ask", "write", "stat"}),
         UNCHANGED <<queue, reverting>>
  PROVE  QueueOK' /\ RevertOK'
<1>1. op' \in Running /\ ~ OfRevert(op') BY DEF Running, SaveBegun, SaveTaken, OfRevert
<1>2. ~ OfRevert(op) BY DEF OfRevert
<1> QED BY <1>1, <1>2, OpStep

LEMMA QueueRevertStep ==
  ASSUME IInv, [Next]_vars PROVE QueueOK' /\ RevertOK'
<1> USE DEF IInv
<1>0. CASE UNCHANGED <<queue, op, reverting>> BY <1>0 DEF QueueOK, RevertOK
<1>1. CASE Edit BY <1>1, CancelSyncStep DEF Edit
<1>2. CASE Undo BY <1>0, <1>2, CancelSyncStep DEF Undo
<1>3. ASSUME NEW manual \in BOOLEAN, Save(manual) PROVE QueueOK' /\ RevertOK'
  <2>1. CancelThenRun({"save"}, Saving(manual)) /\ UNCHANGED reverting BY <1>3 DEF Save
  <2> QED BY <2>1, SavingChained, CancelThenRunStep
<1>4. CASE Revert
  <2>1. CancelThenRun({"save", "sync"}, Sync(TRUE)) /\ ~ reverting /\ reverting' = TRUE BY <1>4 DEF Revert
  <2> QED BY <2>1, SyncChained, CancelThenRunStep
<1>5. CASE StatAnswered
  <2>1. CASE InSync BY <1>0, <1>5, <2>1 DEF StatAnswered
  <2>2. CASE ~ InSync
    <3>1. CancelThenRun({"sync"}, Sync(FALSE)) /\ UNCHANGED reverting BY <1>5, <2>2 DEF StatAnswered
    <3> QED BY <3>1, SyncChained, CancelThenRunStep
  <2> QED BY <2>1, <2>2
<1>6. CASE Start
  <2>1. queue # <<>> /\ queue' = Tail(queue) /\ op' = queue[1] /\ op = Idle /\ UNCHANGED reverting
    BY <1>6 DEF Start, QueueOK
  <2>2. queue \in Seq(Operation) /\ Len(queue) \in Nat /\ Len(queue) >= 1 BY <2>1 DEF QueueOK
  <2>3. op' \in Operation BY <2>1, <2>2
  <2>4. queue' \in Seq(Operation) /\ Len(queue') = Len(queue) - 1
        /\ \A i \in 1 .. Len(queue) - 1 : queue'[i] = queue[i + 1]
    BY <2>1, <2>2, HeadTailProperties
  <2>5. DOMAIN queue = 1 .. Len(queue) /\ DOMAIN queue' = 1 .. Len(queue) - 1 BY <2>2, <2>4
  <2>6. QueueOK' BY <2>3, <2>4, OperationRuns DEF QueueOK
  <2>7. ~ OfRevert(op) BY <2>1, IdleRuns
  <2>8. \A i \in DOMAIN queue' : i + 1 \in DOMAIN queue /\ i + 1 # 1 /\ queue'[i] = queue[i + 1]
    BY <2>2, <2>4, <2>5
  <2>9. \A i \in DOMAIN queue : i = 1 \/ (i - 1 \in DOMAIN queue' /\ queue'[i - 1] = queue[i])
    BY <2>2, <2>4, <2>5
  <2>10. reverting' <=> (OfRevert(op') \/ \E i \in DOMAIN queue' : OfRevert(queue'[i]))
    <3>1. 1 \in DOMAIN queue /\ op' = queue[1] BY <2>1, <2>2, <2>5
    <3>2. (\E i \in DOMAIN queue : OfRevert(queue[i]))
            <=> (OfRevert(op') \/ \E i \in DOMAIN queue' : OfRevert(queue'[i]))
      BY <2>8, <2>9, <3>1
    <3>3. reverting <=> \E i \in DOMAIN queue : OfRevert(queue[i]) BY <2>7 DEF RevertOK
    <3> QED BY <2>1, <3>2, <3>3
  <2>11. OfRevert(op') => \A i \in DOMAIN queue' : ~ OfRevert(queue'[i])
    BY <2>1, <2>2, <2>5, <2>8 DEF RevertOK
  <2>12. \A i, j \in DOMAIN queue' : OfRevert(queue'[i]) /\ OfRevert(queue'[j]) => i = j
    BY <2>2, <2>5, <2>8 DEF RevertOK
  <2> QED BY <2>1, <2>6, <2>10, <2>11, <2>12 DEF RevertOK
<1>7. CASE SyncOpen
  <2>1. CASE op.cancelled BY <1>7, <2>1, EndSyncStep DEF SyncOpen
  <2>2. CASE ~ op.cancelled
    <3>1. op \in Syncing({"start", "read"}) BY <1>7, OpAt DEF SyncOpen
    <3>2. op' = [op EXCEPT !.stage = "read"] /\ UNCHANGED <<queue, reverting>> BY <1>7, <2>2 DEF SyncOpen
    <3>3. op' \in Syncing({"start", "read"}) /\ op'.kind = op.kind /\ op'.revert = op.revert
      BY <3>1, <3>2 DEF Syncing
    <3>4. op' \in Running /\ (OfRevert(op') <=> OfRevert(op)) BY <3>3 DEF Running, OfRevert
    <3> QED BY <3>2, <3>4, OpStep
  <2> QED BY <2>1, <2>2
<1>8. CASE SyncRead BY <1>8, EndSyncStep DEF SyncRead
<1>9. CASE SaveStart
  <2>1. op \in SaveBegun({"start", "participants"}) BY <1>9, OpAt DEF SaveStart, At
  <2>2. CASE op.cancelled BY <1>9, <2>2, EndSaveStep DEF SaveStart
  <2>3. CASE ~ op.cancelled
    <3>1. op' = [op EXCEPT !.stage = "participants"] /\ UNCHANGED <<queue, reverting>> BY <1>9, <2>3 DEF SaveStart
    <3>2. op' \in SaveBegun({"start", "participants"}) BY <2>1, <3>1 DEF SaveBegun
    <3> QED BY <1>9, <3>1, <3>2, SaveGoesOn DEF SaveStart
  <2> QED BY <2>2, <2>3
<1>10. CASE Snapshot
  <2>1. CASE EndSave BY <1>10, <2>1, EndSaveStep DEF Snapshot
  <2>2. CASE ~ EndSave
    <3>1. PICK incremental \in BOOLEAN :
            op' = [kind |-> "save", stage |-> "check", cancelled |-> FALSE, incremental |-> incremental,
                   confirmed |-> FALSE, changes |-> contentChanges, id |-> Current.id, text |-> Current.text,
                   version |-> VersionToSave, mtime |-> 0]
      BY <1>10, <2>2 DEF Snapshot
    <3>2. Current \in State BY LastFront DEF Current, BufferOK
    <3>3. Current.id \in Nat /\ Current.text \in Text BY <3>2 DEF State
    <3>4. VersionToSave \in Nat BY DEF VersionToSave, FileOK
    <3>5. contentChanges \in Changes BY DEF BufferOK
    <3>6. op' \in SaveTaken({"check", "ask", "write", "stat"}) BY <3>1, <3>3, <3>4, <3>5 DEF SaveTaken
    <3> QED BY <1>10, <3>6, SaveGoesOn DEF Snapshot
  <2> QED BY <2>1, <2>2
<1>11. CASE Check \/ Ask \/ Write \/ SaveDone
  <2>1. op.kind = "save" /\ UNCHANGED <<queue, reverting>> BY <1>11 DEF Check, Ask, Write, SaveDone, Keep
  <2>2. op \in SaveTaken({"check", "ask", "write", "stat"})
    BY <1>11, OpAt DEF Check, Ask, Write, SaveDone, At
  <2>3. Len(written) \in Nat BY DEF FileOK
  <2>4. EndSave \/ op' \in SaveTaken({"check", "ask", "write", "stat"})
    <3>1. CASE Check BY <2>2, <2>3, <3>1 DEF Check, EndResourceSave, SaveTaken
    <3>2. CASE Ask BY <2>2, <2>3, <3>2 DEF Ask, SaveTaken
    <3>3. CASE Write
      <4>1. op' = [op EXCEPT !.stage = "stat", !.mtime = Len(written) + 1] BY <3>3 DEF Write
      <4>2. PICK n \in Nat : n = Len(written) + 1 BY <2>3
      <4>3. op' = [op EXCEPT !.stage = "stat", !.mtime = n] BY <4>1, <4>2
      <4> QED BY <2>2, <4>3 DEF SaveTaken
    <3>4. CASE SaveDone BY <3>4 DEF SaveDone, EndResourceSave
    <3> QED BY <1>11, <3>1, <3>2, <3>3, <3>4
  <2> QED BY <2>1, <2>4, EndSaveStep, SaveGoesOn
<1> QED BY <1>0, <1>1, <1>2, <1>3, <1>4, <1>5, <1>6, <1>7, <1>8, <1>9, <1>10, <1>11
        DEF Next, vars, ExternalWrite, StatFile

-----------------------------------------------------------------------------
(* What has been seen.                                                     *)
LEMMA SeenStep ==
  ASSUME IInv, [Next]_vars, FileOK' PROVE SeenOK'
<1> USE DEF IInv
<1>0. Len(written) \in Nat /\ version \in Nat BY DEF FileOK
<1>1. ASSUME NEW kinds \in SUBSET {"sync", "save"}, op' = Cancel(op, kinds),
             UNCHANGED <<written, resourceVersion, seen>>, (Undisturbed)' => Undisturbed
      PROVE  SeenOK'
  <2>1. op \in Running BY DEF QueueOK
  <2>2. op'.kind = op.kind /\ (op.kind = "save" => op'.stage = op.stage)
        /\ (At({"check", "ask", "write", "stat"}) =>
              op'.mtime = op.mtime /\ op'.version = op.version /\ op'.confirmed = op.confirmed)
    BY <1>1, <2>1, CancelKeeps DEF At
  <2> QED BY <1>1, <2>2 DEF SeenOK, At, NothingOverwritten, Undisturbed
<1>2. ASSUME ~ At({"check", "ask", "write", "stat"})', Undisturbed' => Undisturbed /\ resourceVersion' \in seen'
      PROVE  SeenOK'
  BY <1>2 DEF SeenOK, At, NothingOverwritten, Undisturbed
<1>3. ASSUME UNCHANGED <<op, resourceVersion, seen, disturbed>>, Len(written') \in Nat, Len(written) <= Len(written')
      PROVE  SeenOK'
  <2>1. At({"check", "ask", "write", "stat"}) => op.version \in Nat /\ op.mtime \in Nat
    BY OpAt DEF At, SaveTaken
  <2>2. (At({"check", "ask", "write"}) => op.version <= Len(written))' BY <1>0, <1>3, <2>1 DEF SeenOK, At
  <2>3. (At({"stat"}) => op.mtime \in seen /\ op.mtime <= Len(written))' BY <1>0, <1>3, <2>1 DEF SeenOK, At
  <2>4. (Undisturbed => /\ resourceVersion \in seen /\ (At({"check"}) => op.version \in seen)
                        /\ NothingOverwritten)'
    BY <1>3 DEF SeenOK, At, NothingOverwritten, Undisturbed
  <2> QED BY <2>2, <2>3, <2>4 DEF SeenOK
<1>4. CASE Edit BY <1>1, <1>4 DEF Edit, CancelSync, file, Undisturbed
<1>5. CASE Undo
  <2>1. (Undisturbed)' => Undisturbed BY <1>5 DEF Undo, Undisturbed
  <2>2. CASE UNCHANGED op
    <3>1. (Undisturbed)' => Undisturbed BY <2>1
    <3> QED BY <1>5, <2>1, <2>2 DEF Undo, file, SeenOK, At, NothingOverwritten, Undisturbed
  <2> QED BY <1>1, <1>5, <2>1, <2>2 DEF Undo, CancelSync, file
<1>6. ASSUME NEW manual \in BOOLEAN, Save(manual) PROVE SeenOK'
  BY <1>1, <1>6 DEF Save, CancelThenRun, file, ghosts, Undisturbed
<1>7. CASE Revert BY <1>1, <1>7 DEF Revert, CancelThenRun, file, ghosts, Undisturbed
<1>8. CASE ExternalWrite
  <2>1. Len(written') = Len(written) + 1 BY <1>8 DEF ExternalWrite, FileOK
  <2> QED BY <1>0, <1>3, <1>8, <2>1 DEF ExternalWrite, ghosts
<1>9. CASE StatFile BY <1>0, <1>3, <1>9 DEF StatFile, ghosts
<1>10. CASE StatAnswered
  <2>1. UNCHANGED <<written, resourceVersion, seen, disturbed>> BY <1>10 DEF StatAnswered, ghosts
  <2>2. CASE InSync BY <1>0, <1>3, <1>10, <2>1, <2>2 DEF StatAnswered
  <2>3. CASE ~ InSync BY <1>1, <1>10, <2>1, <2>3 DEF StatAnswered, CancelThenRun, Undisturbed
  <2> QED BY <2>2, <2>3
<1>11. CASE Start
  <2>1. queue[1] \in Operation /\ op' = queue[1] BY <1>11 DEF Start, QueueOK
  <2>2. ~ At({"check", "ask", "write", "stat"})' BY <2>1 DEF At, Operation, Syncing, SaveBegun
  <2> QED BY <1>2, <1>11, <2>2 DEF Start, ghosts, SeenOK, Undisturbed
<1>12. CASE SyncOpen
  <2>1. op'.kind # "save"
    <3>1. CASE op.cancelled BY <1>12, <3>1 DEF SyncOpen, EndSync, Idle
    <3>2. CASE ~ op.cancelled
      <4>1. op' = [op EXCEPT !.stage = "read"] BY <1>12, <3>2 DEF SyncOpen
      <4>2. op \in Syncing({"start", "read"}) BY <1>12, OpAt DEF SyncOpen
      <4> QED BY <4>1, <4>2 DEF Syncing
    <3> QED BY <3>1, <3>2
  <2>2. (Undisturbed)' => Undisturbed BY <1>12 DEF SyncOpen, EndSync, Undisturbed
  <2> QED BY <1>2, <1>12, <2>1, <2>2 DEF SyncOpen, At, SeenOK
<1>13. CASE SyncRead
  <2>1. op'.kind # "save" BY <1>13 DEF SyncRead, EndSync, Idle
  <2>2. (Undisturbed)' => Undisturbed BY <1>13 DEF SyncRead, EndSync, Undisturbed
  <2>3. (Undisturbed)' => resourceVersion' \in seen' BY <1>13, <2>2 DEF SyncRead, SeenOK
  <2> QED BY <1>2, <2>1, <2>2, <2>3 DEF At
<1>14. CASE SaveStart
  <2>1. op \in SaveBegun({"start", "participants"}) BY <1>14, OpAt DEF SaveStart, At
  <2>2. ~ At({"check", "ask", "write", "stat"})' BY <1>14, <2>1 DEF SaveStart, EndSave, Idle, At, SaveBegun
  <2> QED BY <1>2, <1>14, <2>2 DEF SaveStart, ghosts, SeenOK, Undisturbed
<1>15. ASSUME EndSave, (Undisturbed)' => Undisturbed /\ resourceVersion' \in seen' PROVE SeenOK'
  <2>1. ~ At({"check", "ask", "write", "stat"})' BY <1>15 DEF EndSave, Idle, At
  <2> QED BY <1>2, <1>15, <2>1
<1>16. CASE Snapshot
  <2>1. UNCHANGED <<written, resourceVersion, seen, disturbed>> BY <1>16 DEF Snapshot, file, ghosts
  <2>2. CASE EndSave BY <1>15, <2>1, <2>2 DEF SeenOK, Undisturbed
  <2>3. CASE ~ EndSave
    <3>1. op'.kind = "save" /\ op'.stage = "check" /\ op'.version = resourceVersion
      BY <1>16, <2>3 DEF Snapshot, VersionToSave
    <3>2. resourceVersion <= Len(written) BY DEF FileOK
    <3> QED BY <2>1, <3>1, <3>2 DEF SeenOK, At, NothingOverwritten, Undisturbed
  <2> QED BY <2>2, <2>3
<1>17. CASE Check
  <2>1. op \in SaveTaken({"check", "ask", "write", "stat"}) /\ op.version \in Nat /\ op.version <= Len(written)
    <3>1. At({"check"}) BY <1>17 DEF Check, At
    <3>2. op \in SaveTaken({"check", "ask", "write", "stat"}) BY <3>1, OpAt DEF At
    <3> QED BY <3>1, <3>2 DEF SaveTaken, SeenOK, At
  <2>2. UNCHANGED <<written, seen>> BY <1>17 DEF Check
  <2>3. CASE ~ ModifiedSince
    <3>1. op' = [op EXCEPT !.stage = "write", !.mtime = Len(written)] /\ UNCHANGED <<resourceVersion, disturbed>>
      BY <1>17, <2>3 DEF Check
    <3>2. op.version = Len(written) BY <1>0, <2>1, <2>3 DEF ModifiedSince
    <3>3. op'.kind = "save" /\ op'.stage = "write" /\ op'.mtime = Len(written) /\ op'.version = op.version
      BY <2>1, <3>1 DEF SaveTaken
    <3> QED BY <1>17, <2>2, <3>1, <3>2, <3>3 DEF Check, SeenOK, At, NothingOverwritten, Undisturbed
  <2>4. CASE EndResourceSave(version, {"cancel"})
    <3>1. EndSave /\ "cancel" \in disturbed' BY <2>4 DEF EndResourceSave
    <3> QED BY <1>15, <3>1 DEF Undisturbed
  <2>5. CASE op' = [op EXCEPT !.incremental = FALSE] /\ UNCHANGED <<resourceVersion, disturbed>>
    <3>1. op'.kind = "save" /\ op'.stage = "check" /\ op'.version = op.version
      BY <1>17, <2>1, <2>5 DEF Check, SaveTaken
    <3> QED BY <1>17, <2>1, <2>2, <2>5, <3>1 DEF Check, SeenOK, At, NothingOverwritten, Undisturbed
  <2>6. CASE op' = [op EXCEPT !.stage = "ask"] /\ UNCHANGED <<resourceVersion, disturbed>>
    <3>1. op'.stage = "ask" /\ op'.version = op.version BY <2>1, <2>6 DEF SaveTaken
    <3> QED BY <2>1, <2>2, <2>6, <3>1 DEF SeenOK, At, NothingOverwritten, Undisturbed
  <2> QED BY <1>17, <2>3, <2>4, <2>5, <2>6 DEF Check
<1>18. CASE Ask
  <2>1. UNCHANGED <<written, resourceVersion, seen, disturbed>> BY <1>18 DEF Ask, file, ghosts
  <2>2. CASE EndSave BY <1>15, <2>1, <2>2 DEF SeenOK, Undisturbed
  <2>3. CASE op' = [op EXCEPT !.stage = "write", !.confirmed = TRUE, !.mtime = Len(written)]
    <3>1. op \in SaveTaken({"check", "ask", "write", "stat"}) BY <1>18, OpAt DEF Ask, At
    <3>2. op'.stage = "write" /\ op'.confirmed /\ op'.version = op.version BY <2>3, <3>1 DEF SaveTaken
    <3>3. op.version <= Len(written) BY <1>18 DEF Ask, SeenOK, At
    <3> QED BY <2>1, <3>2, <3>3 DEF SeenOK, At, NothingOverwritten, Undisturbed
  <2> QED BY <1>18, <2>2, <2>3 DEF Ask
<1>19. CASE Write
  <2>1. op \in SaveTaken({"check", "ask", "write", "stat"}) BY <1>19, OpAt DEF Write, At
  <2>2. PICK n \in Nat : n = Len(written) + 1 BY <1>0
  <2>3. op' = [op EXCEPT !.stage = "stat", !.mtime = n] /\ seen' = seen \cup {n} /\ UNCHANGED resourceVersion
    BY <1>19, <2>2 DEF Write
  <2>4. op'.kind = "save" /\ op'.stage = "stat" /\ op'.mtime = n BY <1>19, <2>1, <2>3 DEF Write, SaveTaken
  <2>5. (Undisturbed)' => Undisturbed BY <1>19 DEF Write, Undisturbed
  <2>6. Len(written') = n BY <1>19, <2>2 DEF Write, FileOK
  <2> QED BY <2>3, <2>4, <2>5, <2>6 DEF SeenOK, At, NothingOverwritten, Undisturbed
<1>20. CASE SaveDone
  <2>1. EndResourceSave(Len(written), Overtaken) /\ UNCHANGED <<written, seen>> BY <1>20 DEF SaveDone
  <2>2. EndSave /\ resourceVersion' = Len(written) /\ disturbed \cup Overtaken \subseteq disturbed'
    BY <2>1 DEF EndResourceSave
  <2>3. op.mtime \in seen BY <1>20 DEF SaveDone, SeenOK, At
  <2>4. op.mtime <= Len(written) BY <1>20 DEF SaveDone, SeenOK, At
  <2>5. (Undisturbed)' => Undisturbed /\ op.mtime = Len(written)
    <3>1. (Undisturbed)' => Overtaken = {} BY <2>2 DEF Undisturbed, Overtaken
    <3>2. Overtaken = {} => ~ (op.mtime < Len(written)) BY DEF Overtaken
    <3>3. op.mtime \in Nat BY <2>3 DEF RestOK
    <3> QED BY <1>0, <2>2, <2>4, <3>1, <3>2, <3>3 DEF Undisturbed
  <2> QED BY <1>15, <2>1, <2>2, <2>3, <2>5
<1>21. CASE UNCHANGED vars BY <1>0, <1>3, <1>21 DEF vars, file, ghosts
<1> QED BY <1>4, <1>5, <1>6, <1>7, <1>8, <1>9, <1>10, <1>11, <1>12, <1>13, <1>14, <1>16, <1>17, <1>18, <1>19, <1>20, <1>21
        DEF Next

-----------------------------------------------------------------------------
LEMMA InitIInv == ASSUME Init PROVE IInv
<1> USE DEF Init
<1>1. FileOK
  <2>1. written \in Seq(Text) /\ Len(written) = 1 BY DEF Text
  <2>2. 1 \in 1 .. 1 /\ 0 \in 0 .. 1 OBVIOUS
  <2> QED BY <2>1, <2>2 DEF FileOK
<1>2. BufferOK
  <2>1. [id |-> 1, text |-> 1] \in State BY DEF State, Text
  <2>2. history \in Seq(State) /\ history # <<>> BY <2>1
  <2>3. contentChanges \in Changes BY DEF Changes
  <2> QED BY <2>2, <2>3 DEF BufferOK
<1>3. QueueOK BY IdleRuns DEF QueueOK
<1>4. RestOK
  <2>1. texts \in Nat /\ versions \in Nat /\ calls \in Nat /\ seen \subseteq Nat OBVIOUS
  <2> QED BY <2>1 DEF RestOK
<1>5. RevertOK
  <2>1. queue = <<>> /\ DOMAIN queue = {} OBVIOUS
  <2>2. ~ OfRevert(op) /\ reverting = FALSE BY IdleRuns
  <2> QED BY <2>1, <2>2 DEF RevertOK
<1>6. SeenOK BY DEF SeenOK, At, NothingOverwritten, Idle
<1> QED BY <1>1, <1>2, <1>3, <1>4, <1>5, <1>6 DEF IInv

LEMMA IInvStep == ASSUME IInv, [Next]_vars PROVE IInv'
<1>1. FileOK' BY FileStep DEF IInv
<1>2. BufferOK' BY BufferStep DEF IInv
<1>3. QueueOK' /\ RevertOK' BY QueueRevertStep
<1>4. RestOK' BY RestStep DEF IInv
<1>5. SeenOK' BY <1>1, SeenStep
<1> QED BY <1>1, <1>2, <1>3, <1>4, <1>5 DEF IInv

(* The variables have their types, operations of a revert are one at most, *)
(* and what a save compares with the file has been seen.                   *)
THEOREM AlwaysIInv == Spec => []IInv
<1>1. Init => IInv BY InitIInv
<1>2. IInv /\ [Next]_vars => IInv' BY IInvStep
<1> QED BY <1>1, <1>2, PTL DEF Spec

(* Every variable has its type, versions are mtimes the file has had, and  *)
(* a revert waits exactly as long as its sync is queued or runs.           *)
THEOREM TypeCorrect == Spec => []TypeOK
<1>1. IInv => TypeOK
  BY DEF IInv, TypeOK, FileOK, BufferOK, QueueOK, RestOK, RevertOK, State, Mark
<1> QED BY <1>1, AlwaysIInv, PTL

(* A save never replaces a text the model has not seen without asking, if  *)
(* no other program wrote between its steps and no cancelled save was      *)
(* refused.                                                                *)
THEOREM NeverOverwrites == Spec => []NothingOverwritten
<1>1. IInv => NothingOverwritten BY DEF IInv, SeenOK, NothingOverwritten, Undisturbed
<1> QED BY <1>1, AlwaysIInv, PTL

-----------------------------------------------------------------------------
(* What SettledIsSynced rests on, as long as nothing else happened: a      *)
(* buffer that is clean and differs from the file is still going to hear   *)
(* of the file, through a notice, a sync or a save.                        *)
File == Last(written)

Asking(o, kind) == o.kind = kind /\ ~ o.cancelled
WaitsIn(q, kind) == \E i \in DOMAIN q : Asking(q[i], kind)
Waits(kind) == WaitsIn(queue, kind)

Late == {"check", "ask", "write", "stat"}
Taken == At(Late)

SyncLeft == Waits("sync") \/ (Asking(op, "sync") /\ op.stage = "start")
Reading == Asking(op, "sync") /\ op.stage = "read"
SaveLeft == Waits("save") \/ Asking(op, "save")
Told == notice \/ stat > version

(* The changes after the first k lead from the text a to the text b.       *)
Leads(c, k, a, b) ==
  /\ k <= Len(c)
  /\ k = Len(c) => a = b
  /\ k < Len(c) => c[k + 1].from = a /\ c[Len(c)].to = b
  /\ \A i \in k + 1 .. Len(c) - 1 : c[i].to = c[i + 1].from

(* States and texts are numbered as they are made.                         *)
Ids ==
  /\ \A i \in DOMAIN history : history[i].id <= versions /\ history[i].text <= texts
  /\ \A i, j \in DOMAIN history : history[i].id = history[j].id => i = j
  /\ bufferSavedVersionId <= versions
  /\ Taken => op.id <= versions /\ op.text <= texts
  /\ Taken => \A i \in DOMAIN history : history[i].id = op.id => history[i].text = op.text

(* What comes before the sync of a revert is cancelled.                    *)
InOrder ==
  \A i \in DOMAIN queue : OfRevert(queue[i]) =>
     (op = Idle \/ op.cancelled) /\ \A j \in 1 .. i - 1 : queue[j].cancelled

(* What a save has taken fits the buffer, and at its write the file.       *)
TakenOK ==
  Taken =>
    /\ op.version = resourceVersion
    /\ Leads(contentChanges, Len(op.changes), op.text, Current.text)
    /\ Current.id # op.id => Len(op.changes) < Len(contentChanges)
    /\ op.cancelled => reverting \/ Waits("save")
    /\ At({"check"}) /\ op.version = Len(written) => Leads(op.changes, 0, File, op.text)
    /\ At({"ask"}) => op.version < Len(written) /\ ~ op.incremental
    /\ At({"write"}) => op.mtime <= Len(written)
    /\ At({"write"}) /\ op.incremental /\ op.mtime = Len(written) => Leads(op.changes, 0, File, op.text)
    /\ At({"stat"}) => version < Len(written) /\ notice /\ (op.mtime = Len(written) => File = op.text)

CleanOK ==
  /\ ~ dirty /\ ~ reverting /\ ~ synced => Current.id = bufferSavedVersionId
  /\ reverting /\ dirty => synced
  /\ dirty => contentChanges # <<>>

(* A buffer that has met the text of the file is led from it by the        *)
(* changes that are kept.                                                  *)
Met ==
  ~ At({"stat"}) /\ (resourceVersion = Len(written) \/ \E i \in DOMAIN history : history[i].text = File) =>
    Leads(contentChanges, 0, File, Current.text)

(* A sync reads the newest text, or will hear that it did not.             *)
Fresh == Reading => version = Len(written) \/ Told

(* A revert that is to keep no change still has its sync.                  *)
Awaited == reverting /\ Len(contentChanges) = (IF Taken THEN Len(op.changes) ELSE 0) => SyncLeft \/ Reading

(* The text is that of the file, or something is left that brings it.      *)
Sound(text) ==
  \/ SyncLeft \/ Reading
  \/ version < Len(written) /\ Told
  \/ version = Len(written) /\ (text = File \/ (SaveLeft /\ resourceVersion = Len(written)))

Sounds ==
  /\ ~ dirty /\ ~ reverting => Sound(Current.text)
  /\ dirty /\ ~ synced => \A i \in DOMAIN history : history[i].id = bufferSavedVersionId => Sound(history[i].text)

Faithful == Ids /\ InOrder /\ TakenOK /\ CleanOK /\ File <= texts /\ Met /\ Fresh /\ Awaited /\ Sounds

FInv == IInv /\ (disturbed = {} => Faithful)

-----------------------------------------------------------------------------
(* Changes.                                                                *)
LEMMA LeadsAppend ==
  ASSUME NEW c \in Changes, NEW k \in Nat, NEW a \in Text, NEW b \in Text, NEW d \in Text, Leads(c, k, a, b)
  PROVE  /\ Leads(Append(c, Change(b, d)), k, a, d) /\ k < Len(c) + 1
         /\ Len(Append(c, Change(b, d))) = Len(c) + 1
<1>1. PICK S : S = [from : Text, to : Text] OBVIOUS
<1>2. c \in Seq(S) /\ Change(b, d) \in S BY <1>1 DEF Changes, Change
<1>3. PICK e : e = Append(c, Change(b, d)) OBVIOUS
<1>4. Len(c) \in Nat /\ Len(e) = Len(c) + 1 /\ e[Len(c) + 1] = Change(b, d)
      /\ \A i \in 1 .. Len(c) : e[i] = c[i]
  BY <1>2, <1>3
<1>5. e[Len(c) + 1].from = b /\ e[Len(c) + 1].to = d BY <1>4 DEF Change
<1>6. \A i \in k + 1 .. Len(c) : e[i].to = e[i + 1].from
  <2>1. TAKE i \in k + 1 .. Len(c)
  <2>2. CASE i = Len(c) BY <1>4, <1>5, <2>2 DEF Leads
  <2>3. CASE i # Len(c) BY <1>4, <2>3 DEF Leads
  <2> QED BY <2>2, <2>3
<1>7. e[k + 1].from = a
  <2>1. CASE k = Len(c) BY <1>5, <2>1 DEF Leads
  <2>2. CASE k < Len(c) BY <1>4, <2>2 DEF Leads
  <2> QED BY <1>4, <2>1, <2>2 DEF Leads
<1> QED BY <1>3, <1>4, <1>5, <1>6, <1>7 DEF Leads

LEMMA LeadsRest ==
  ASSUME NEW c \in Changes, NEW k \in Nat, NEW a, NEW b, Leads(c, k, a, b)
  PROVE  /\ Leads(SubSeq(c, k + 1, Len(c)), 0, a, b)
         /\ Len(SubSeq(c, k + 1, Len(c))) = Len(c) - k
<1>1. PICK S : S = [from : Text, to : Text] OBVIOUS
<1>2. c \in Seq(S) /\ Len(c) \in Nat /\ k <= Len(c) BY <1>1 DEF Changes, Leads
<1>3. PICK e : e = SubSeq(c, k + 1, Len(c)) OBVIOUS
<1>4. \A i \in k + 1 .. Len(c) : c[i] \in S BY <1>2
<1>5. Len(e) = Len(c) - k /\ \A i \in 1 .. Len(c) - k : e[i] = c[k + i]
  <2>1. k + 1 \in Nat /\ k + 1 <= Len(c) + 1 BY <1>2
  <2>2. Len(e) = (IF k + 1 <= Len(c) THEN Len(c) - (k + 1) + 1 ELSE 0)
    BY <1>2, <1>3, <1>4, SubSeqProperties
  <2>3. \A i \in 1 .. Len(c) - (k + 1) + 1 : e[i] = c[k + 1 + i - 1]
    BY <1>2, <1>3, <1>4, SubSeqProperties
  <2> QED BY <1>2, <2>2, <2>3
<1>6. \A i \in 1 .. Len(e) - 1 : e[i].to = e[i + 1].from
  <2>1. TAKE i \in 1 .. Len(e) - 1
  <2>2. e[i] = c[k + i] /\ e[i + 1] = c[(k + i) + 1] BY <1>2, <1>5
  <2>3. k + i \in k + 1 .. Len(c) - 1 BY <1>2, <1>5
  <2> QED BY <2>2, <2>3 DEF Leads
<1>7. Len(e) > 0 => e[1].from = a /\ e[Len(e)].to = b BY <1>2, <1>5 DEF Leads
<1>8. Len(e) = 0 => a = b BY <1>2, <1>5 DEF Leads
<1> QED BY <1>2, <1>3, <1>5, <1>6, <1>7, <1>8 DEF Leads

LEMMA LeadsApply ==
  ASSUME NEW c \in Changes, NEW a, NEW b, Leads(c, 0, a, b) PROVE Apply(c, a) = b
<1>1. Len(c) \in Nat /\ (c = <<>> <=> Len(c) = 0) BY DEF Changes
<1>2. CASE c = <<>> BY <1>1, <1>2 DEF Apply, Leads
<1>3. CASE c # <<>>
  <2>1. Consecutive(c) /\ c[1].from = a /\ Last(c).to = b BY <1>1, <1>3 DEF Leads, Consecutive, Last
  <2> QED BY <1>3, <2>1 DEF Apply
<1> QED BY <1>2, <1>3

LEMMA LeadsNone ==
  ASSUME NEW a, NEW c \in Changes
  PROVE  /\ Leads(c, Len(c), a, a) /\ Leads(<<>>, 0, a, a)
         /\ \A b : Leads(<<>>, 0, a, b) => a = b
         /\ Len(c) \in Nat /\ (Len(c) = 0 <=> c = <<>>)
<1>1. Len(c) \in Nat /\ (Len(c) = 0 <=> c = <<>>) BY DEF Changes
<1>2. Leads(c, Len(c), a, a) BY <1>1 DEF Leads
<1>3. Len(<<>>) = 0 OBVIOUS
<1> QED BY <1>1, <1>2, <1>3 DEF Leads

(* The states of the buffer.                                               *)
LEMMA Grown ==
  ASSUME NEW S, NEW s \in Seq(S), NEW e \in S
  PROVE  /\ Append(s, e) \in Seq(S) /\ DOMAIN Append(s, e) = 1 .. Len(s) + 1 /\ DOMAIN s = 1 .. Len(s)
         /\ Len(s) \in Nat /\ Len(Append(s, e)) = Len(s) + 1
         /\ Append(s, e)[Len(s) + 1] = e /\ Last(Append(s, e)) = e
         /\ \A i \in 1 .. Len(s) : Append(s, e)[i] = s[i]
BY DEF Last

LEMMA Shrunk ==
  ASSUME NEW S, NEW s \in Seq(S), Len(s) > 1
  PROVE  /\ Front(s) \in Seq(S) /\ DOMAIN Front(s) = 1 .. Len(s) - 1 /\ DOMAIN s = 1 .. Len(s)
         /\ Len(s) \in Nat /\ Len(Front(s)) = Len(s) - 1
         /\ Last(Front(s)) = s[Len(s) - 1] /\ Last(s) = s[Len(s)]
         /\ \A i \in 1 .. Len(s) - 1 : Front(s)[i] = s[i]
<1>1. Front(s) = SubSeq(s, 1, Len(s) - 1) BY DEF Front
<1>2. Len(s) \in Nat /\ Len(s) - 1 \in Nat OBVIOUS
<1>3. Front(s) \in Seq(S) /\ Len(Front(s)) = Len(s) - 1 /\ \A i \in 1 .. Len(s) - 1 : Front(s)[i] = s[i]
  BY <1>1, <1>2
<1>4. Last(Front(s)) = s[Len(s) - 1] BY <1>2, <1>3 DEF Last
<1> QED BY <1>2, <1>3, <1>4 DEF Last

-----------------------------------------------------------------------------
(* Tokens are taken away.                                                  *)
LEMMA TokenOne ==
  ASSUME NEW o \in Running, NEW kinds \in SUBSET {"sync", "save"}
  PROVE  /\ o.kind \notin kinds => Cancel(o, kinds) = o
         /\ Cancel(o, kinds).kind = o.kind /\ (OfRevert(Cancel(o, kinds)) <=> OfRevert(o))
         /\ o # Idle => o.kind \in {"sync", "save"} /\ Cancel(o, kinds) # Idle
         /\ o # Idle /\ o.cancelled => Cancel(o, kinds).cancelled
         /\ o.kind \in kinds => Cancel(o, kinds).cancelled
         /\ o # Idle => Cancel(o, kinds).stage = o.stage
         /\ \A kind \in {"sync", "save"} \ kinds : Asking(Cancel(o, kinds), kind) <=> Asking(o, kind)
         /\ \A kind \in kinds : ~ Asking(Cancel(o, kinds), kind)
<1>1. o # Idle => o.kind \in {"sync", "save"} BY DEF Running, Syncing, SaveBegun, SaveTaken
<1>2. CASE o.kind \notin kinds
  <2>1. Cancel(o, kinds) = o BY <1>2 DEF Cancel
  <2> QED BY <1>1, <1>2, <2>1 DEF Asking
<1>3. CASE o.kind \in kinds
  <2>1. o # Idle BY <1>3 DEF Idle
  <2>2. Cancel(o, kinds) = [o EXCEPT !.cancelled = TRUE] BY <1>3 DEF Cancel
  <2>3. Cancel(o, kinds).kind = o.kind /\ Cancel(o, kinds).cancelled /\ Cancel(o, kinds).stage = o.stage
    <3>1. CASE o \in Syncing({"start", "read"}) BY <2>2, <3>1 DEF Syncing
    <3>2. CASE o \in SaveBegun({"start", "participants"}) BY <2>2, <3>2 DEF SaveBegun
    <3>3. CASE o \in SaveTaken({"check", "ask", "write", "stat"}) BY <2>2, <3>3 DEF SaveTaken
    <3> QED BY <2>1, <3>1, <3>2, <3>3 DEF Running
  <2>4. Cancel(o, kinds) # Idle BY <1>3, <2>3 DEF Idle
  <2>5. OfRevert(Cancel(o, kinds)) <=> OfRevert(o) BY CancelKeeps
  <2> QED BY <1>1, <1>3, <2>3, <2>4, <2>5 DEF Asking
<1> QED BY <1>2, <1>3

LEMMA TokenTaken ==
  ASSUME NEW o \in SaveTaken(Late), NEW kinds \in SUBSET {"sync", "save"}
  PROVE  LET p == Cancel(o, kinds)
         IN  /\ p.kind = "save" /\ p.stage = o.stage /\ p.incremental = o.incremental
             /\ p.changes = o.changes /\ p.id = o.id /\ p.text = o.text
             /\ p.version = o.version /\ p.mtime = o.mtime
<1>1. CASE o.kind \notin kinds BY <1>1 DEF Cancel, SaveTaken
<1>2. CASE o.kind \in kinds BY <1>2 DEF Cancel, SaveTaken
<1> QED BY <1>1, <1>2

LEMMA Tokens ==
  ASSUME QueueOK, NEW kinds \in SUBSET {"sync", "save"}, NEW q,
         q = [i \in DOMAIN queue |-> Cancel(queue[i], kinds)]
  PROVE  /\ q \in Seq(Operation) /\ DOMAIN q = 1 .. Len(queue) /\ DOMAIN queue = 1 .. Len(queue)
         /\ Len(queue) \in Nat /\ Len(q) = Len(queue)
         /\ \A i \in DOMAIN queue : /\ OfRevert(q[i]) <=> OfRevert(queue[i])
                                    /\ queue[i].cancelled => q[i].cancelled
                                    /\ kinds = {"sync", "save"} => q[i].cancelled
         /\ \A kind \in {"sync", "save"} \ kinds : WaitsIn(q, kind) <=> Waits(kind)
         /\ \A kind \in kinds : ~ WaitsIn(q, kind)
<1> USE DEF QueueOK
<1>1. DOMAIN queue = 1 .. Len(queue) /\ Len(queue) \in Nat /\ DOMAIN q = DOMAIN queue OBVIOUS
<1>2. ASSUME NEW i \in DOMAIN queue
      PROVE  /\ q[i] \in Operation
             /\ OfRevert(q[i]) <=> OfRevert(queue[i])
             /\ queue[i].cancelled => q[i].cancelled
             /\ kinds = {"sync", "save"} => q[i].cancelled
             /\ \A kind \in {"sync", "save"} \ kinds : Asking(q[i], kind) <=> Asking(queue[i], kind)
             /\ \A kind \in kinds : ~ Asking(q[i], kind)
  <2>1. queue[i] \in Operation /\ queue[i] \in Running BY OperationRuns
  <2>2. queue[i] # Idle BY <2>1 DEF Operation, Syncing, SaveBegun, Idle
  <2>3. q[i] = Cancel(queue[i], kinds) OBVIOUS
  <2> QED BY <2>1, <2>2, <2>3, CancelOne, TokenOne
<1>3. q \in [1 .. Len(queue) -> Operation] BY <1>1, <1>2
<1>4. q \in Seq(Operation) /\ Len(q) = Len(queue) BY <1>1, <1>3
<1>5. ASSUME NEW kind \in {"sync", "save"} \ kinds PROVE WaitsIn(q, kind) <=> Waits(kind)
  BY <1>1, <1>2 DEF WaitsIn, Waits
<1>6. ASSUME NEW kind \in kinds PROVE ~ WaitsIn(q, kind) BY <1>1, <1>2 DEF WaitsIn
<1> QED BY <1>1, <1>2, <1>4, <1>5, <1>6

(* What waits after an operation is chained.                               *)
LEMMA WaitsAppend ==
  ASSUME NEW q \in Seq(Operation), NEW o \in Operation, NEW kind
  PROVE  WaitsIn(Append(q, o), kind) <=> WaitsIn(q, kind) \/ Asking(o, kind)
<1>1. PICK r : r = Append(q, o) OBVIOUS
<1>2. /\ DOMAIN r = 1 .. Len(q) + 1 /\ DOMAIN q = 1 .. Len(q) /\ Len(q) \in Nat
      /\ r[Len(q) + 1] = o /\ \A i \in 1 .. Len(q) : r[i] = q[i]
  BY <1>1
<1>3. DOMAIN r = DOMAIN q \cup {Len(q) + 1} BY <1>2
<1>4. WaitsIn(r, kind) <=> WaitsIn(q, kind) \/ Asking(o, kind)
  <2>1. PICK n : n = Len(q) + 1 OBVIOUS
  <2>2. DOMAIN r = DOMAIN q \cup {n} /\ r[n] = o /\ \A i \in DOMAIN q : r[i] = q[i] BY <1>2, <1>3, <2>1
  <2> QED BY <2>2 DEF WaitsIn
<1> QED BY <1>1, <1>4

LEMMA OrderKept ==
  ASSUME QueueOK, RevertOK, InOrder, NEW kinds \in SUBSET {"sync", "save"}, op' = Cancel(op, kinds), NEW q,
         q = [i \in DOMAIN queue |-> Cancel(queue[i], kinds)],
         \/ queue' = q
         \/ \E o \in Operation : queue' = Append(q, o) /\ (OfRevert(o) => kinds = {"sync", "save"} /\ ~ reverting)
  PROVE  InOrder'
<1>0. op \in Running BY DEF QueueOK
<1>1. /\ op = Idle => op' = Idle
      /\ op # Idle /\ op.cancelled => op'.cancelled
      /\ kinds = {"sync", "save"} => op' = Idle \/ op'.cancelled
  <2>1. op = Idle => op' = Idle BY DEF Cancel, Idle
  <2> QED BY <1>0, <2>1, TokenOne
<1>2. /\ q \in Seq(Operation) /\ DOMAIN q = 1 .. Len(queue) /\ DOMAIN queue = 1 .. Len(queue)
      /\ Len(queue) \in Nat /\ Len(q) = Len(queue)
      /\ \A i \in DOMAIN queue : /\ OfRevert(q[i]) <=> OfRevert(queue[i])
                                 /\ queue[i].cancelled => q[i].cancelled
                                 /\ kinds = {"sync", "save"} => q[i].cancelled
  BY Tokens
<1>3. ASSUME NEW i \in 1 .. Len(queue), OfRevert(q[i])
      PROVE  (op' = Idle \/ op'.cancelled) /\ \A j \in 1 .. i - 1 : q[j].cancelled
  <2>1. OfRevert(queue[i]) BY <1>2, <1>3
  <2>2. \A j \in 1 .. i - 1 : queue[j].cancelled /\ j \in DOMAIN queue BY <1>2, <2>1 DEF InOrder
  <2>3. op = Idle \/ op.cancelled BY <1>2, <2>1 DEF InOrder
  <2> QED BY <1>1, <1>2, <2>2, <2>3
<1>4. CASE queue' = q BY <1>2, <1>3, <1>4 DEF InOrder
<1>5. ASSUME NEW o \in Operation, queue' = Append(q, o), OfRevert(o) => kinds = {"sync", "save"} /\ ~ reverting
      PROVE  InOrder'
  <2>1. /\ DOMAIN queue' = 1 .. Len(queue) + 1 /\ queue'[Len(queue) + 1] = o
        /\ \A i \in 1 .. Len(queue) : queue'[i] = q[i]
    <3>1. q \in Seq(Operation) /\ Len(q) = Len(queue) BY <1>2
    <3>2. /\ DOMAIN Append(q, o) = 1 .. Len(q) + 1 /\ Append(q, o)[Len(q) + 1] = o
          /\ \A i \in 1 .. Len(q) : Append(q, o)[i] = q[i]
      BY <3>1, Grown
    <3> QED BY <1>5, <3>1, <3>2
  <2>2. ASSUME NEW i \in DOMAIN queue', OfRevert(queue'[i])
        PROVE  (op' = Idle \/ op'.cancelled) /\ \A j \in 1 .. i - 1 : queue'[j].cancelled
    <3>1. CASE i = Len(queue) + 1
      <4>1. kinds = {"sync", "save"} BY <1>5, <2>1, <2>2, <3>1
      <4>2. \A j \in 1 .. Len(queue) : queue'[j].cancelled BY <1>2, <2>1, <4>1
      <4>3. \A j \in 1 .. i - 1 : j \in 1 .. Len(queue) BY <1>2, <3>1
      <4> QED BY <1>1, <4>1, <4>2, <4>3
    <3>2. CASE i # Len(queue) + 1
      <4>1. i \in 1 .. Len(queue)
        <5>1. i \in 1 .. Len(queue) + 1 BY <2>1, <2>2
        <5>2. PICK n \in Nat : n = Len(queue) BY <1>2
        <5> QED BY <3>2, <5>1, <5>2
      <4>2. \A j \in 1 .. i - 1 : j \in 1 .. Len(queue) BY <1>2, <4>1
      <4> QED BY <1>3, <2>1, <2>2, <4>1, <4>2
    <3> QED BY <3>1, <3>2
  <2> QED BY <2>2 DEF InOrder
<1> QED BY <1>4, <1>5

(* A save that is under way keeps what it has taken.                       *)
SameTaken ==
  /\ op'.kind = op.kind /\ (op.kind = "save" => op'.stage = op.stage)
  /\ Taken => /\ op'.incremental = op.incremental /\ op'.changes = op.changes /\ op'.id = op.id
              /\ op'.text = op.text /\ op'.version = op.version /\ op'.mtime = op.mtime

LEMMA TakenTokens ==
  ASSUME QueueOK, NEW kinds \in SUBSET {"sync", "save"}, op' = Cancel(op, kinds) PROVE SameTaken
<1>1. op \in Running BY DEF QueueOK
<1>2. op'.kind = op.kind /\ (op.kind = "save" => op'.stage = op.stage) BY <1>1, CancelKeeps
<1>3. Taken => op \in SaveTaken(Late) BY OpAt DEF Taken, Late
<1>4. Taken => /\ op'.incremental = op.incremental /\ op'.changes = op.changes /\ op'.id = op.id
               /\ op'.text = op.text /\ op'.version = op.version /\ op'.mtime = op.mtime
  BY <1>3, TokenTaken
<1> QED BY <1>2, <1>4 DEF SameTaken

LEMMA SameBuffer ==
  ASSUME IInv, Faithful, SameTaken,
         UNCHANGED <<written, version, history, contentChanges, bufferSavedVersionId, texts, versions, resourceVersion>>,
         At({"stat"}) => notice' = notice,
         Taken /\ op'.cancelled => reverting' \/ Waits("save")'
  PROVE  Ids' /\ TakenOK' /\ (File <= texts)' /\ Met'
<1>1. \A S : At(S)' <=> At(S) BY DEF SameTaken, At
<1>2. Taken' <=> Taken BY DEF SameTaken, At, Taken
<1>3. Ids' BY <1>2 DEF Faithful, Ids, SameTaken
<1>4. (File <= texts)' /\ Met' BY <1>1 DEF Faithful, File, Met, Current
<1>5. At({"stat"})' => At({"stat"}) BY DEF SameTaken, At
<1>6. TakenOK'
  <2>1. SUFFICES ASSUME Taken' PROVE TakenOK' BY DEF TakenOK
  <2>2. /\ op'.incremental = op.incremental /\ op'.changes = op.changes /\ op'.id = op.id
        /\ op'.text = op.text /\ op'.version = op.version /\ op'.mtime = op.mtime
    BY <1>2, <2>1 DEF SameTaken
  <2>3. /\ At({"check"})' <=> At({"check"}) 
        /\ At({"ask"})' <=> At({"ask"})
        /\ At({"write"})' <=> At({"write"})
        /\ At({"stat"})' <=> At({"stat"})
    BY DEF SameTaken, At
  <2> QED BY <1>2, <2>1, <2>2, <2>3 DEF Faithful, TakenOK, File, Current
<1> QED BY <1>3, <1>4, <1>6

-----------------------------------------------------------------------------
(* The user's steps.                                                       *)
LEMMA SyncsCancelled ==
  ASSUME IInv, InOrder, CancelSync
  PROVE  /\ SameTaken /\ InOrder'
         /\ ~ SyncLeft' /\ ~ Reading' /\ (SaveLeft' <=> SaveLeft) /\ (Waits("save")' <=> Waits("save"))
         /\ op.kind = "save" => op' = op
         /\ SyncLeft \/ Reading \/ reverting => synced'
         /\ synced => synced'
<1>1. {"sync"} \in SUBSET {"sync", "save"} /\ "sync" \in {"sync"} /\ "save" \in {"sync", "save"} \ {"sync"} OBVIOUS
<1>2. PICK q : q = [i \in DOMAIN queue |-> Cancel(queue[i], {"sync"})] OBVIOUS
<1>3. op' = Cancel(op, {"sync"}) /\ queue' = q BY <1>2 DEF CancelSync
<1>4. op \in Running /\ QueueOK /\ RevertOK BY DEF IInv, QueueOK
<1>5. SameTaken /\ InOrder' BY <1>1, <1>2, <1>3, <1>4, TakenTokens, OrderKept
<1>6. ~ WaitsIn(q, "sync") /\ (WaitsIn(q, "save") <=> Waits("save")) BY <1>1, <1>2, <1>4, Tokens
<1>7. ~ Asking(op', "sync") /\ (Asking(op', "save") <=> Asking(op, "save")) BY <1>1, <1>3, <1>4, TokenOne
<1>8. ~ SyncLeft' /\ ~ Reading' /\ (SaveLeft' <=> SaveLeft) /\ (Waits("save")' <=> Waits("save"))
  BY <1>3, <1>6, <1>7 DEF SyncLeft, Reading, SaveLeft, Waits
<1>9. op.kind = "save" => op' = op BY <1>3 DEF Cancel
<1>10. SyncLeft \/ Reading \/ reverting => synced'
  BY <1>4 DEF SyncLeft, Reading, Waits, WaitsIn, Asking, RevertOK, OfRevert, CancelSync
<1> QED BY <1>5, <1>8, <1>9, <1>10 DEF CancelSync

LEMMA ChangedClear ==
  ASSUME IInv, Faithful, NEW t \in Text, Last(history').text = t,
         contentChanges' = Append(contentChanges, Change(Current.text, t)),
         UNCHANGED <<written, notice, version, resourceVersion, reverting>>,
         SameTaken, Waits("save")' <=> Waits("save"), op.kind = "save" => op' = op,
         File <= texts', Reading' => Reading,
         \A i \in DOMAIN history' : history'[i].text = File => i \in DOMAIN history /\ history'[i] = history[i],
         stat' = stat
  PROVE  TakenOK' /\ (File <= texts)' /\ Met' /\ Fresh' /\ Awaited' /\ contentChanges' # <<>>
<1>1. contentChanges \in Changes /\ Len(contentChanges) \in Nat /\ Current.text \in Text
  <2>1. Current \in State BY LastFront DEF IInv, BufferOK, Current
  <2> QED BY <2>1 DEF IInv, BufferOK, Changes, State
<1>2. Taken => op \in SaveTaken(Late) BY OpAt DEF IInv, Taken, Late
<1>3. Taken => Len(op.changes) \in Nat BY <1>2 DEF SaveTaken, Changes
<1>4. Len(contentChanges') = Len(contentChanges) + 1
  BY <1>1 DEF Changes
<1>5. ASSUME NEW k \in Nat, NEW a \in Text, Leads(contentChanges, k, a, Current.text)
      PROVE  Leads(contentChanges', k, a, t) /\ k < Len(contentChanges')
  BY <1>1, <1>4, <1>5, LeadsAppend
<1>6. Taken' <=> Taken BY DEF SameTaken, At, Taken
<1>7. TakenOK'
  <2>1. SUFFICES ASSUME Taken' PROVE TakenOK' BY DEF TakenOK
  <2>2. op' = op /\ Taken BY <1>6, <2>1 DEF Taken, At
  <2>3. op.text \in Text BY <1>2, <2>2 DEF SaveTaken
  <2>4. Leads(contentChanges', Len(op.changes), op.text, t) /\ Len(op.changes) < Len(contentChanges')
    BY <1>3, <1>5, <2>2, <2>3 DEF Faithful, TakenOK
  <2>5. \A S : At(S)' <=> At(S) BY <2>2 DEF At
  <2> QED BY <2>2, <2>4, <2>5 DEF Faithful, TakenOK, File, Current, At
<1>8. (File <= texts)' BY DEF File
<1>9. Met'
  <2>1. SUFFICES ASSUME ~ At({"stat"})',
                        (resourceVersion = Len(written) \/ \E i \in DOMAIN history : history[i].text = File)'
                 PROVE  Leads(contentChanges', 0, File, t)
    BY DEF Met, File, Current
  <2>2. ~ At({"stat"}) BY <2>1 DEF SameTaken, At
  <2>3. resourceVersion = Len(written) \/ \E i \in DOMAIN history : history[i].text = File BY <2>1 DEF File
  <2>4. Leads(contentChanges, 0, File, Current.text) BY <2>2, <2>3 DEF Faithful, Met
  <2>5. File \in Text BY LastFront DEF IInv, FileOK, File
  <2> QED BY <1>5, <2>4, <2>5
<1>10. Fresh' BY DEF Faithful, Fresh, Told
<1>11. Awaited'
  <2>1. Taken => Len(op.changes) <= Len(contentChanges) /\ Len(op'.changes) = Len(op.changes)
    BY DEF Faithful, TakenOK, Leads, SameTaken
  <2> QED BY <1>1, <1>3, <1>4, <1>6, <2>1 DEF Awaited
<1>12. contentChanges' # <<>> BY <1>1, <1>4
<1> QED BY <1>7, <1>8, <1>9, <1>10, <1>11, <1>12

(* The buffer is dirty after an edit, and syncs are cancelled.             *)
LEMMA DirtiedClear ==
  ASSUME IInv, Faithful, CancelSync, dirty' = TRUE, Ids',
         NEW t \in Text, Last(history').text = t,
         contentChanges' = Append(contentChanges, Change(Current.text, t)),
         UNCHANGED <<file, resourceVersion, reverting, bufferSavedVersionId>>, File <= texts',
         \A i \in DOMAIN history' : history'[i].text = File => i \in DOMAIN history /\ history'[i] = history[i],
         \A i \in DOMAIN history' : history'[i].id = bufferSavedVersionId =>
                                      i \in DOMAIN history /\ history'[i] = history[i]
  PROVE  Faithful'
<1>1. UNCHANGED <<written, notice, stat, version>> BY DEF file
<1>2. /\ SameTaken /\ InOrder'
      /\ ~ SyncLeft' /\ ~ Reading' /\ (SaveLeft' <=> SaveLeft) /\ (Waits("save")' <=> Waits("save"))
      /\ op.kind = "save" => op' = op
      /\ SyncLeft \/ Reading \/ reverting => synced'
      /\ synced => synced'
  BY SyncsCancelled DEF Faithful
<1>3. TakenOK' /\ (File <= texts)' /\ Met' /\ Fresh' /\ Awaited' /\ contentChanges' # <<>>
  BY <1>1, <1>2, ChangedClear
<1>4. CleanOK' BY <1>2, <1>3 DEF CleanOK
<1>5. Sounds'
  <2>1. SUFFICES ASSUME ~ synced', NEW i \in DOMAIN history', history'[i].id = bufferSavedVersionId
                 PROVE  (Sound(history[i].text))'
    BY DEF Sounds
  <2>2. i \in DOMAIN history /\ history'[i] = history[i] BY <2>1
  <2>3. ~ synced /\ ~ reverting /\ ~ SyncLeft /\ ~ Reading BY <1>2, <2>1 DEF IInv, RevertOK
  <2>4. Sound(history[i].text)
    <3>1. CASE dirty BY <2>1, <2>2, <2>3, <3>1 DEF Faithful, Sounds
    <3>2. CASE ~ dirty
      <4>1. Current.id = bufferSavedVersionId BY <2>3, <3>2 DEF Faithful, CleanOK
      <4>2. Len(history) \in DOMAIN history /\ Current = history[Len(history)] BY DEF IInv, BufferOK, Current, Last
      <4>3. i = Len(history) BY <2>1, <2>2, <4>1, <4>2 DEF Faithful, Ids
      <4> QED BY <2>3, <3>2, <4>2, <4>3 DEF Faithful, Sounds
    <3> QED BY <3>1, <3>2
  <2> QED BY <1>1, <1>2, <2>2, <2>3, <2>4 DEF Sound, Told, File
<1> QED BY <1>2, <1>3, <1>4, <1>5 DEF Faithful

LEMMA EditClear == ASSUME IInv, Faithful, Edit PROVE Faithful'
<1>1. history \in Seq(State) /\ texts \in Nat /\ versions \in Nat BY DEF IInv, BufferOK, RestOK
<1>2. PICK e \in State : e = [id |-> versions + 1, text |-> texts + 1]
  <2>1. PICK v \in Nat, w \in Nat : v = versions + 1 /\ w = texts + 1 BY <1>1
  <2>2. [id |-> v, text |-> w] \in State BY DEF State, Text
  <2> QED BY <2>1, <2>2
<1>3. /\ e.id = versions + 1 /\ e.text = texts + 1 /\ history' = Append(history, e)
      /\ versions' = versions + 1 /\ texts' = texts + 1
  BY <1>2 DEF Edit
<1>4. /\ DOMAIN history' = 1 .. Len(history) + 1 /\ DOMAIN history = 1 .. Len(history) /\ Len(history) \in Nat
      /\ history'[Len(history) + 1] = e /\ Last(history') = e
      /\ \A i \in 1 .. Len(history) : history'[i] = history[i]
  BY <1>1, <1>3, Grown
<1>5. \A i \in DOMAIN history' : (i \in DOMAIN history /\ history'[i] = history[i]) \/ i = Len(history) + 1
  BY <1>4
<1>6. \A i \in DOMAIN history : history[i].id \in Nat /\ history[i].text \in Nat
  <2>1. \A i \in DOMAIN history : history[i] \in State BY <1>1
  <2> QED BY <2>1 DEF State, Text
<1>7. File \in Nat BY LastFront DEF IInv, FileOK, File, Text
<1>8. CancelSync /\ dirty' = TRUE /\ UNCHANGED <<file, resourceVersion, reverting, bufferSavedVersionId>>
      /\ contentChanges' = Append(contentChanges, Change(Current.text, texts + 1))
  BY DEF Edit
<1>9. \A i \in DOMAIN history : history[i].id <= versions /\ history[i].text <= texts BY DEF Faithful, Ids
<1>10. File <= texts /\ bufferSavedVersionId <= versions BY DEF Faithful, Ids
<1>11. \A i \in DOMAIN history' : history'[i].text = File => i \in DOMAIN history /\ history'[i] = history[i]
  BY <1>1, <1>3, <1>4, <1>5, <1>7, <1>10
<1>12. \A i \in DOMAIN history' : history'[i].id = bufferSavedVersionId =>
                                    i \in DOMAIN history /\ history'[i] = history[i]
  <2>1. bufferSavedVersionId \in Nat BY DEF IInv, BufferOK
  <2> QED BY <1>1, <1>3, <1>4, <1>5, <1>10, <2>1
<1>13. Ids'
  <2>1. Taken' <=> Taken BY <1>8, SyncsCancelled DEF Faithful, SameTaken, Taken, At
  <2>2. op.kind = "save" => op' = op BY <1>8, SyncsCancelled DEF Faithful
  <2>3. Taken => op' = op /\ op.id \in Nat /\ op.text \in Nat /\ op.id <= versions /\ op.text <= texts
    <3>1. Taken => op \in SaveTaken(Late) BY OpAt DEF IInv, Taken, Late
    <3> QED BY <2>2, <3>1 DEF Taken, At, SaveTaken, Text, Faithful, Ids
  <2>4. \A i \in DOMAIN history' : history'[i].id <= versions' /\ history'[i].text <= texts'
    BY <1>1, <1>3, <1>4, <1>5, <1>6, <1>9
  <2>5. \A i, j \in DOMAIN history' : history'[i].id = history'[j].id => i = j
    <3>1. TAKE i, j \in DOMAIN history'
    <3>2. CASE i \in DOMAIN history /\ j \in DOMAIN history BY <1>4, <3>2 DEF Faithful, Ids
    <3>3. CASE i \notin DOMAIN history \/ j \notin DOMAIN history
      BY <1>1, <1>3, <1>4, <1>5, <1>6, <1>9, <3>3
    <3> QED BY <3>2, <3>3
  <2>6. bufferSavedVersionId' <= versions' BY <1>1, <1>3, <1>8, <1>10 DEF IInv, BufferOK
  <2>7. Taken' => op'.id <= versions' /\ op'.text <= texts' BY <1>1, <1>3, <2>1, <2>3
  <2>8. Taken' => \A i \in DOMAIN history' : history'[i].id = op'.id => history'[i].text = op'.text
    BY <1>1, <1>3, <1>4, <1>5, <2>1, <2>3 DEF Faithful, Ids
  <2> QED BY <2>4, <2>5, <2>6, <2>7, <2>8 DEF Ids
<1>14. texts + 1 \in Text /\ Last(history').text = texts + 1 BY <1>1, <1>3, <1>4 DEF Text
<1>15. File <= texts' BY <1>1, <1>3, <1>7, <1>10
<1> QED BY <1>8, <1>11, <1>12, <1>13, <1>14, <1>15, DirtiedClear

LEMMA UndoClear == ASSUME IInv, Faithful, Undo, disturbed = {}, disturbed' = {} PROVE Faithful'
<1>1. history \in Seq(State) /\ Len(history) > 1 /\ history' = Front(history) BY DEF IInv, BufferOK, Undo
<1>2. /\ DOMAIN history' = 1 .. Len(history) - 1 /\ DOMAIN history = 1 .. Len(history) /\ Len(history) \in Nat
      /\ Last(history') = history[Len(history) - 1] /\ Last(history) = history[Len(history)]
      /\ \A i \in 1 .. Len(history) - 1 : history'[i] = history[i]
      /\ Len(history') = Len(history) - 1 /\ history' \in Seq(State)
  BY <1>1, Shrunk
<1>3. \A i \in DOMAIN history' : i \in DOMAIN history /\ history'[i] = history[i] /\ i # Len(history)
  BY <1>2
<1>4. Last(history') \in State /\ Last(history').id \in Nat /\ Last(history').text \in Text
      /\ Len(history') \in DOMAIN history' /\ Last(history') = history'[Len(history')]
      /\ Len(history) \in DOMAIN history
  <2>1. Last(history') \in State BY <1>1, LastFront
  <2>2. Last(history') = history'[Len(history')] /\ Len(history') \in DOMAIN history' BY <1>1, <1>2
  <2>3. Len(history) \in DOMAIN history BY <1>1, <1>2
  <2> QED BY <2>1, <2>2, <2>3 DEF State
<1>5. /\ contentChanges' = Append(contentChanges, Change(Current.text, Last(history').text))
      /\ UNCHANGED <<file, resourceVersion, reverting, texts, versions>>
  BY DEF Undo
<1>6. ASSUME SameTaken, bufferSavedVersionId' <= versions' PROVE Ids'
  <2>1. Taken' => Taken /\ op'.id = op.id /\ op'.text = op.text BY <1>6 DEF SameTaken, Taken, At
  <2> QED BY <1>3, <1>5, <1>6, <2>1 DEF Faithful, Ids
<1>7. CASE Last(history').id = bufferSavedVersionId
  <2>1. SetClean /\ UNCHANGED <<queue, op>> /\ ~ synced BY <1>7 DEF Undo
  <2>2. SameTaken /\ (Taken' <=> Taken) BY <2>1 DEF SameTaken, Taken, At
  <2>3. dirty' = FALSE /\ bufferSavedVersionId' = Last(history').id BY <1>7, <2>1 DEF SetClean
  <2>4. Ids' BY <1>3, <1>4, <1>5, <1>6, <2>2, <2>3 DEF Faithful, Ids
  <2>5. InOrder' BY <2>1 DEF Faithful, InOrder
  <2>6. /\ SyncLeft' <=> SyncLeft
        /\ Reading' <=> Reading
        /\ SaveLeft' <=> SaveLeft
        /\ Waits("save")' <=> Waits("save")
    BY <2>1 DEF SyncLeft, Reading, SaveLeft, Waits
  <2>7. TakenOK' /\ (File <= texts)' /\ Met' /\ Fresh' /\ Awaited' /\ contentChanges' # <<>>
    <3>1. File <= texts' BY <1>5 DEF Faithful
    <3>2. UNCHANGED <<written, notice, stat, version>> BY <1>5 DEF file
    <3>3. op.kind = "save" => op' = op BY <2>1
    <3> QED BY <1>3, <1>4, <1>5, <2>2, <2>6, <3>1, <3>2, <3>3, ChangedClear
  <2>8. CleanOK' BY <2>3, <2>7 DEF CleanOK, Current
  <2>9. Sounds'
    <3>1. SUFFICES ASSUME ~ reverting PROVE (Sound(Current.text))' BY <1>5, <2>3 DEF Sounds
    <3>2. PICK n : n = Len(history') OBVIOUS
    <3>3. n \in DOMAIN history /\ history[n] = Last(history') /\ n # Len(history) BY <1>3, <1>4, <3>2
    <3>4. dirty
      <4>1. SUFFICES ASSUME ~ dirty PROVE FALSE OBVIOUS
      <4>2. Current.id = bufferSavedVersionId BY <2>1, <3>1, <4>1 DEF Faithful, CleanOK
      <4>3. history[Len(history)].id = history[n].id BY <1>2, <1>7, <3>3, <4>2 DEF Current
      <4> QED BY <1>4, <3>3, <4>3 DEF Faithful, Ids
    <3>5. Sound(history[n].text) BY <1>7, <2>1, <3>3, <3>4 DEF Faithful, Sounds
    <3> QED BY <1>5, <2>6, <3>3, <3>5 DEF Sound, Told, File, file, Current
  <2> QED BY <2>4, <2>5, <2>7, <2>8, <2>9 DEF Faithful
<1>8. CASE Last(history').id # bufferSavedVersionId
  <2>1. CancelSync /\ dirty' = TRUE /\ UNCHANGED bufferSavedVersionId BY <1>8 DEF Undo
  <2>2. SameTaken BY <2>1, SyncsCancelled DEF Faithful
  <2>3. Ids' BY <1>5, <1>6, <2>1, <2>2 DEF Faithful, Ids
  <2>4. File <= texts' BY <1>5 DEF Faithful
  <2> QED BY <1>3, <1>4, <1>5, <2>1, <2>3, <2>4, DirtiedClear
<1> QED BY <1>7, <1>8

LEMMA SaveClear == ASSUME IInv, Faithful, NEW manual \in BOOLEAN, Save(manual) PROVE Faithful'
<1>1. {"save"} \in SUBSET {"sync", "save"} /\ "save" \in {"save"} /\ "sync" \in {"sync", "save"} \ {"save"} OBVIOUS
<1>2. PICK q : q = [i \in DOMAIN queue |-> Cancel(queue[i], {"save"})] OBVIOUS
<1>3. PICK o \in Operation : o = Saving(manual) BY SavingChained
<1>4. op' = Cancel(op, {"save"}) /\ queue' = Append(q, o) /\ ~ OfRevert(o)
  BY <1>2, <1>3, SavingChained DEF Save, CancelThenRun
<1>5. op \in Running /\ QueueOK /\ RevertOK BY DEF IInv, QueueOK
<1>6. UNCHANGED <<file, buffer, resourceVersion, reverting, texts, versions, ghosts>> BY DEF Save
<1>7. SameTaken /\ InOrder' BY <1>1, <1>2, <1>4, <1>5, TakenTokens, OrderKept DEF Faithful
<1>8. q \in Seq(Operation) /\ (WaitsIn(q, "sync") <=> Waits("sync")) BY <1>1, <1>2, <1>5, Tokens
<1>9. Asking(op', "sync") <=> Asking(op, "sync") BY <1>1, <1>4, <1>5, TokenOne
<1>10. Asking(o, "save") /\ ~ Asking(o, "sync") BY <1>3 DEF Saving, Asking
<1>11. Waits("save")' /\ (Waits("sync")' <=> Waits("sync"))
  <2>1. WaitsIn(queue', "save") /\ (WaitsIn(queue', "sync") <=> WaitsIn(q, "sync"))
    BY <1>4, <1>8, <1>10, WaitsAppend
  <2> QED BY <1>8, <2>1 DEF Waits
<1>12. op.kind = "sync" => op' = op BY <1>4 DEF Cancel
<1>13. /\ SaveLeft'
       /\ SyncLeft' <=> SyncLeft
       /\ Reading' <=> Reading
  BY <1>9, <1>11, <1>12 DEF SaveLeft, SyncLeft, Reading, Asking
<1>14. Ids' /\ TakenOK' /\ (File <= texts)' /\ Met'
  BY <1>6, <1>7, <1>11, SameBuffer DEF file, buffer
<1>15. CleanOK' BY <1>6 DEF Faithful, CleanOK, buffer, ghosts, Current
<1>16. Fresh' BY <1>6, <1>13 DEF Faithful, Fresh, Told, file
<1>17. Awaited'
  <2>1. (Taken' <=> Taken) /\ (Taken => op'.changes = op.changes) BY <1>7 DEF SameTaken, Taken, At
  <2> QED BY <1>6, <1>13, <2>1 DEF Faithful, Awaited, buffer
<1>18. Sounds' BY <1>6, <1>13 DEF Faithful, Sounds, Sound, Told, File, Current, file, buffer, ghosts
<1> QED BY <1>7, <1>14, <1>15, <1>16, <1>17, <1>18 DEF Faithful

LEMMA RevertClear == ASSUME IInv, Faithful, Revert PROVE Faithful'
<1>1. {"save", "sync"} \in SUBSET {"sync", "save"} /\ {"save", "sync"} = {"sync", "save"} OBVIOUS
<1>2. PICK q : q = [i \in DOMAIN queue |-> Cancel(queue[i], {"save", "sync"})] OBVIOUS
<1>3. PICK o \in Operation : o = Sync(TRUE) BY SyncChained
<1>4. op' = Cancel(op, {"save", "sync"}) /\ queue' = Append(q, o) BY <1>2, <1>3 DEF Revert, CancelThenRun
<1>5. op \in Running /\ QueueOK /\ RevertOK BY DEF IInv, QueueOK
<1>6. /\ UNCHANGED <<file, history, bufferSavedVersionId, contentChanges, resourceVersion, texts, versions>>
      /\ ~ reverting /\ reverting' = TRUE /\ dirty' = FALSE
  BY DEF Revert
<1>7. SameTaken /\ InOrder' BY <1>1, <1>2, <1>4, <1>5, <1>6, TakenTokens, OrderKept DEF Faithful
<1>8. Asking(o, "sync") BY <1>3 DEF Sync, Asking
<1>9. ~ Reading'
  <2>1. ~ Asking(op', "sync") BY <1>1, <1>4, <1>5, TokenOne
  <2> QED BY <2>1 DEF Reading
<1>10. SyncLeft'
  <2>1. q \in Seq(Operation) BY <1>1, <1>2, <1>5, Tokens
  <2>2. WaitsIn(queue', "sync") BY <1>4, <1>8, <2>1, WaitsAppend
  <2> QED BY <2>2 DEF SyncLeft, Waits
<1>11. Ids' /\ TakenOK' /\ (File <= texts)' /\ Met'
  BY <1>6, <1>7, SameBuffer DEF file
<1>12. CleanOK' /\ Fresh' /\ Awaited' /\ Sounds' BY <1>6, <1>9, <1>10 DEF CleanOK, Fresh, Awaited, Sounds
<1> QED BY <1>7, <1>11, <1>12 DEF Faithful

-----------------------------------------------------------------------------
(* The file and its notices.                                               *)
LEMMA ExternalWriteClear == ASSUME IInv, Faithful, ExternalWrite PROVE Faithful'
<1>1. written \in Seq(Text) /\ texts \in Nat /\ Len(written) \in Nat BY DEF IInv, FileOK, RestOK
<1>2. PICK t \in Text : t = texts + 1 BY <1>1 DEF Text
<1>3. Len(written') = Len(written) + 1 /\ File' = texts + 1 /\ texts' = texts + 1 /\ notice'
  <2>1. written' = Append(written, t) /\ texts' = texts + 1 /\ notice' BY <1>2 DEF ExternalWrite
  <2>2. Len(written') = Len(written) + 1 /\ Last(written') = t BY <1>1, <2>1, Grown
  <2> QED BY <1>2, <2>1, <2>2 DEF File
<1>4. UNCHANGED <<stat, version, buffer, resourceVersion, queue, op, reverting, versions, calls, ghosts>>
  BY DEF ExternalWrite
<1>5. UNCHANGED <<history, bufferSavedVersionId, dirty, contentChanges, synced>> BY <1>4 DEF buffer, ghosts
<1>6. /\ version \in Nat /\ version <= Len(written)
      /\ resourceVersion \in Nat /\ resourceVersion <= Len(written)
  BY DEF IInv, FileOK
<1>7. /\ SyncLeft' <=> SyncLeft
      /\ Reading' <=> Reading
      /\ SaveLeft' <=> SaveLeft
      /\ Waits("save")' <=> Waits("save")
      /\ Taken' <=> Taken
  BY <1>4 DEF SyncLeft, Reading, SaveLeft, Waits, Taken, At
<1>8. \A i \in DOMAIN history : history[i].id \in Nat /\ history[i].text \in Nat
  <2>1. \A i \in DOMAIN history : history[i] \in State BY DEF IInv, BufferOK
  <2> QED BY <2>1 DEF State, Text
<1>9. Taken => op \in SaveTaken(Late) BY OpAt DEF IInv, Taken, Late
<1>10. Taken => op.text \in Nat /\ op.mtime \in Nat /\ op.version \in Nat BY <1>9 DEF SaveTaken, Text
<1>11. Ids'
  <2>1. \A i \in DOMAIN history : history[i].text <= texts => history[i].text <= texts' BY <1>1, <1>3, <1>8
  <2>2. Taken => (op.text <= texts => op.text <= texts') BY <1>1, <1>3, <1>10
  <2> QED BY <1>4, <1>5, <1>7, <2>1, <2>2 DEF Faithful, Ids
<1>12. InOrder' /\ CleanOK' BY <1>4, <1>5 DEF Faithful, InOrder, CleanOK, Current
<1>13. TakenOK'
  <2>1. SUFFICES ASSUME Taken' PROVE TakenOK' BY DEF TakenOK
  <2>2. At({"check"})' \/ At({"ask"})' \/ At({"write"})' => op.version <= Len(written)
    BY <1>4 DEF IInv, SeenOK, At
  <2>3. At({"write"})' => op.mtime <= Len(written) BY <1>4, <1>7, <2>1 DEF Faithful, TakenOK, At
  <2>4. At({"stat"})' => op.mtime <= Len(written) BY <1>4 DEF IInv, SeenOK, At
  <2>5. op'.version = resourceVersion' BY <1>4, <1>7, <2>1 DEF Faithful, TakenOK
  <2>6. (Leads(contentChanges, Len(op.changes), op.text, Current.text))'
        /\ (Current.id # op.id => Len(op.changes) < Len(contentChanges))'
        /\ (op.cancelled => reverting \/ Waits("save"))'
    BY <1>4, <1>5, <1>7, <2>1 DEF Faithful, TakenOK, Current
  <2>7. (At({"check"}) => op.version # Len(written))' BY <1>1, <1>3, <1>4, <1>7, <1>10, <2>1, <2>2
  <2>8. (At({"ask"}) => op.version < Len(written) /\ ~ op.incremental)'
    <3>1. At({"ask"})' => ~ op.incremental BY <1>4, <1>7, <2>1 DEF Faithful, TakenOK, At
    <3> QED BY <1>1, <1>3, <1>4, <1>7, <1>10, <2>1, <2>2, <3>1
  <2>9. (At({"write"}) => op.mtime <= Len(written) /\ op.mtime # Len(written))'
    BY <1>1, <1>3, <1>4, <1>7, <1>10, <2>1, <2>3
  <2>10. (At({"stat"}) => version < Len(written) /\ notice /\ op.mtime # Len(written))'
    BY <1>1, <1>3, <1>4, <1>6, <1>7, <1>10, <2>1, <2>4
  <2> QED BY <2>5, <2>6, <2>7, <2>8, <2>9, <2>10 DEF TakenOK
<1>14. (File <= texts)' BY <1>1, <1>3
<1>15. Met'
  <2>1. resourceVersion' # Len(written') BY <1>1, <1>3, <1>4, <1>6
  <2>2. \A i \in DOMAIN history' : history'[i].text # File' BY <1>1, <1>3, <1>5, <1>8 DEF Faithful, Ids
  <2> QED BY <2>1, <2>2 DEF Met
<1>16. Fresh' BY <1>3 DEF Fresh, Told
<1>17. Awaited' BY <1>4, <1>5, <1>7 DEF Faithful, Awaited
<1>18. Sounds' BY <1>1, <1>3, <1>4, <1>6 DEF Sounds, Sound, Told
<1> QED BY <1>11, <1>12, <1>13, <1>14, <1>15, <1>16, <1>17, <1>18 DEF Faithful

LEMMA StatFileClear == ASSUME IInv, Faithful, StatFile PROVE Faithful'
<1>1. /\ notice /\ stat = 0 /\ stat' = Len(written) /\ ~ At({"stat"})
      /\ UNCHANGED <<written, version, buffer, resourceVersion, queue, op, reverting, texts, versions, calls, ghosts>>
  BY DEF StatFile, Locked, At
<1>2. UNCHANGED <<history, bufferSavedVersionId, dirty, contentChanges, synced>> BY <1>1 DEF buffer, ghosts
<1>3. version \in Nat /\ version <= Len(written) /\ Len(written) \in Nat BY DEF IInv, FileOK
<1>4. /\ SyncLeft' <=> SyncLeft
      /\ Reading' <=> Reading
      /\ SaveLeft' <=> SaveLeft
      /\ Taken' <=> Taken
  BY <1>1 DEF SyncLeft, Reading, SaveLeft, Waits, Taken, At
<1>5. Ids' /\ TakenOK' /\ (File <= texts)' /\ Met'
  <2>1. SameTaken BY <1>1 DEF SameTaken
  <2>2. Taken /\ op'.cancelled => reverting' \/ Waits("save")' BY <1>1 DEF Faithful, TakenOK, Waits
  <2> QED BY <1>1, <1>2, <2>1, <2>2, SameBuffer
<1>6. InOrder' /\ CleanOK' /\ Awaited' BY <1>1, <1>2, <1>4 DEF Faithful, InOrder, CleanOK, Awaited, Current
<1>7. version < Len(written) => Told' BY <1>1, <1>3 DEF Told
<1>8. Fresh' BY <1>1, <1>3, <1>7 DEF Fresh
<1>9. Sounds' BY <1>1, <1>2, <1>3, <1>4, <1>7 DEF Faithful, Sounds, Sound, File, Current
<1> QED BY <1>5, <1>6, <1>8, <1>9 DEF Faithful

LEMMA StatAnsweredClear == ASSUME IInv, Faithful, StatAnswered PROVE Faithful'
<1>1. UNCHANGED <<written, notice, version, buffer, resourceVersion, reverting, texts, versions, calls, ghosts>>
  BY DEF StatAnswered
<1>2. UNCHANGED <<history, bufferSavedVersionId, dirty, contentChanges, synced>> BY <1>1 DEF buffer, ghosts
<1>3. CleanOK' BY <1>1, <1>2 DEF Faithful, CleanOK, Current
<1>4. CASE InSync
  <2>1. UNCHANGED <<queue, op>> BY <1>4 DEF StatAnswered
  <2>2. /\ SyncLeft' <=> SyncLeft
        /\ Reading' <=> Reading
        /\ SaveLeft' <=> SaveLeft
        /\ Taken' <=> Taken
    BY <2>1 DEF SyncLeft, Reading, SaveLeft, Waits, Taken, At
  <2>3. Ids' /\ TakenOK' /\ (File <= texts)' /\ Met'
    <3>1. SameTaken BY <2>1 DEF SameTaken
    <3>2. Taken /\ op'.cancelled => reverting' \/ Waits("save")' BY <1>1, <2>1 DEF Faithful, TakenOK, Waits
    <3> QED BY <1>1, <1>2, <3>1, <3>2, SameBuffer
  <2>4. InOrder' /\ Awaited' BY <1>1, <1>2, <2>1, <2>2 DEF Faithful, InOrder, Awaited
  <2>5. Told => Told' BY <1>1, <1>4 DEF Told, InSync, IInv, FileOK
  <2>6. Fresh' BY <1>1, <2>2, <2>5 DEF Faithful, Fresh
  <2>7. Sounds' BY <1>1, <1>2, <2>2, <2>5 DEF Faithful, Sounds, Sound, File, Current
  <2> QED BY <1>3, <2>3, <2>4, <2>6, <2>7 DEF Faithful
<1>5. CASE ~ InSync
  <2>1. {"sync"} \in SUBSET {"sync", "save"} /\ "sync" \in {"sync"} /\ "save" \in {"sync", "save"} \ {"sync"} OBVIOUS
  <2>2. PICK q : q = [i \in DOMAIN queue |-> Cancel(queue[i], {"sync"})] OBVIOUS
  <2>3. PICK o \in Operation : o = Sync(FALSE) BY SyncChained
  <2>4. op' = Cancel(op, {"sync"}) /\ queue' = Append(q, o) /\ ~ OfRevert(o)
    BY <1>5, <2>2, <2>3, SyncChained DEF StatAnswered, CancelThenRun
  <2>5. op \in Running /\ QueueOK /\ RevertOK BY DEF IInv, QueueOK
  <2>6. SameTaken /\ InOrder' BY <2>1, <2>2, <2>4, <2>5, TakenTokens, OrderKept DEF Faithful
  <2>7. q \in Seq(Operation) /\ (WaitsIn(q, "save") <=> Waits("save")) BY <2>1, <2>2, <2>5, Tokens
  <2>8. Asking(o, "sync") /\ ~ Asking(o, "save") BY <2>3 DEF Sync, Asking
  <2>9. Waits("sync")' /\ (Waits("save")' <=> Waits("save"))
    <3>1. WaitsIn(queue', "sync") /\ (WaitsIn(queue', "save") <=> WaitsIn(q, "save"))
      BY <2>4, <2>7, <2>8, WaitsAppend
    <3> QED BY <2>7, <3>1 DEF Waits
  <2>10. ~ Asking(op', "sync") BY <2>1, <2>4, <2>5, TokenOne
  <2>11. SyncLeft' /\ ~ Reading' BY <2>9, <2>10 DEF SyncLeft, Reading
  <2>12. Ids' /\ TakenOK' /\ (File <= texts)' /\ Met'
    <3>1. op.kind = "save" => op' = op BY <2>4 DEF Cancel
    <3>2. Taken /\ op'.cancelled => reverting' \/ Waits("save")'
      BY <1>1, <2>9, <3>1 DEF Faithful, TakenOK, Taken, At
    <3> QED BY <1>1, <1>2, <2>6, <3>2, SameBuffer
  <2>13. Fresh' /\ Awaited' /\ Sounds' BY <2>11 DEF Fresh, Awaited, Sounds, Sound
  <2> QED BY <1>3, <2>6, <2>12, <2>13 DEF Faithful
<1> QED BY <1>4, <1>5

-----------------------------------------------------------------------------
(* Operations start, and syncs end.                                        *)
LEMMA StartClear == ASSUME IInv, Faithful, Start PROVE Faithful'
<1>1. queue \in Seq(Operation) /\ queue # <<>> /\ queue' = Tail(queue) /\ op' = Head(queue) /\ op = Idle
  BY DEF Start, IInv, QueueOK
<1>2. UNCHANGED <<file, buffer, resourceVersion, reverting, texts, versions, calls, ghosts>> BY DEF Start
<1>3. UNCHANGED <<written, notice, stat, version, history, bufferSavedVersionId, dirty, contentChanges, synced>>
  BY <1>2 DEF file, buffer, ghosts
<1>4. /\ DOMAIN queue = 1 .. Len(queue) /\ Len(queue) \in Nat /\ Len(queue) >= 1
      /\ DOMAIN queue' = 1 .. Len(queue) - 1 /\ op' = queue[1] /\ op' \in Operation
      /\ \A i \in 1 .. Len(queue) - 1 : queue'[i] = queue[i + 1]
  <2>1. Len(queue) \in Nat /\ Len(queue) >= 1 /\ DOMAIN queue = 1 .. Len(queue) BY <1>1
  <2>2. queue' \in Seq(Operation) /\ Len(queue') = Len(queue) - 1
        /\ \A i \in 1 .. Len(queue) - 1 : queue'[i] = queue[i + 1]
    BY <1>1, <2>1, HeadTailProperties
  <2>3. op' = queue[1] /\ op' \in Operation BY <1>1, <2>1
  <2> QED BY <2>1, <2>2, <2>3
<1>5. op'.kind \in {"sync", "save"} /\ op'.stage = "start" BY <1>4 DEF Operation, Syncing, SaveBegun
<1>6. ~ Taken /\ ~ Taken' /\ \A S : ~ At(S) BY <1>1, <1>5 DEF Taken, At, Late, Idle
<1>7. ~ At({"stat"})' BY <1>5 DEF At
<1>8. ASSUME NEW kind \in {"sync", "save"}
      PROVE  Waits(kind) <=> Waits(kind)' \/ Asking(op', kind)
  <2>1. \A i \in DOMAIN queue : i = 1 \/ (i - 1 \in DOMAIN queue' /\ queue'[i - 1] = queue[i]) BY <1>4
  <2>2. \A i \in DOMAIN queue' : i + 1 \in DOMAIN queue /\ queue'[i] = queue[i + 1] BY <1>4
  <2>3. 1 \in DOMAIN queue BY <1>4
  <2>4. WaitsIn(queue, kind) <=> WaitsIn(queue', kind) \/ Asking(op', kind)
    BY <1>4, <2>1, <2>2, <2>3 DEF WaitsIn
  <2> QED BY <2>4 DEF Waits
<1>9. ~ Asking(op, "sync") /\ ~ Asking(op, "save") BY <1>1 DEF Asking, Idle
<1>10. /\ SyncLeft' <=> SyncLeft
       /\ Reading' <=> Reading
       /\ SaveLeft' <=> SaveLeft
  BY <1>5, <1>8, <1>9 DEF SyncLeft, Reading, SaveLeft
<1>11. Ids' BY <1>2, <1>3, <1>6 DEF Faithful, Ids
<1>12. InOrder'
  <2>1. SUFFICES ASSUME NEW i \in DOMAIN queue', OfRevert(queue'[i])
                 PROVE  op'.cancelled /\ \A j \in 1 .. i - 1 : queue'[j].cancelled
    BY DEF InOrder
  <2>2. PICK n : n = i + 1 OBVIOUS
  <2>3. n \in DOMAIN queue /\ OfRevert(queue[n]) BY <1>4, <2>1, <2>2
  <2>4. \A j \in 1 .. n - 1 : queue[j].cancelled BY <2>3 DEF Faithful, InOrder
  <2>5. \A j \in 1 .. i - 1 : j + 1 \in 1 .. n - 1 /\ queue'[j] = queue[j + 1] BY <1>4, <2>1, <2>2
  <2>6. 1 \in 1 .. n - 1 BY <1>4, <2>1, <2>2
  <2> QED BY <1>4, <2>4, <2>5, <2>6
<1>13. TakenOK' BY <1>6 DEF TakenOK
<1>14. CleanOK' /\ (File <= texts)' BY <1>2, <1>3 DEF Faithful, CleanOK, File, Current
<1>15. Met' BY <1>2, <1>3, <1>6 DEF Faithful, Met, File, Current
<1>16. Fresh' BY <1>3, <1>10 DEF Faithful, Fresh, Told
<1>17. Awaited' BY <1>2, <1>3, <1>6, <1>10 DEF Faithful, Awaited
<1>18. Sounds' BY <1>2, <1>3, <1>10 DEF Faithful, Sounds, Sound, Told, File, Current
<1> QED BY <1>11, <1>12, <1>13, <1>14, <1>15, <1>16, <1>17, <1>18 DEF Faithful

(* An operation that ends leaves the queue as it was.                      *)
LEMMA Ended ==
  ASSUME op' = Idle, UNCHANGED queue
  PROVE  /\ Waits("sync")' <=> Waits("sync")
         /\ Waits("save")' <=> Waits("save")
         /\ SyncLeft' <=> Waits("sync")
         /\ SaveLeft' <=> Waits("save")
         /\ ~ Reading' /\ ~ Taken' /\ ~ At({"stat"})' /\ TakenOK'
         /\ InOrder => InOrder'
BY DEF Waits, SyncLeft, SaveLeft, Reading, Taken, At, Idle, Asking, TakenOK, InOrder

(* A sync that does not load: the one of a revert has another behind it.   *)
LEMMA SyncGivenUp ==
  ASSUME IInv, Faithful, disturbed = {}, disturbed' = {}, op.kind = "sync", EndSync({}),
         op.cancelled \/ (dirty /\ op.stage = "read"),
         UNCHANGED <<written, notice, stat, version, history, contentChanges, resourceVersion, queue, texts, versions>>
  PROVE  Faithful'
<1>1. op' = Idle /\ synced' BY DEF EndSync
<1>2. ~ Taken /\ ~ At({"stat"}) BY DEF Taken, At
<1>3. /\ Waits("sync")' <=> Waits("sync")
      /\ Waits("save")' <=> Waits("save")
      /\ SyncLeft' <=> Waits("sync")
      /\ SaveLeft' <=> Waits("save")
      /\ ~ Reading' /\ ~ Taken' /\ ~ At({"stat"})' /\ TakenOK' /\ InOrder'
  BY <1>1, Ended DEF Faithful
<1>4. SaveLeft => SaveLeft' BY <1>3 DEF SaveLeft, Asking
<1>5. op.cancelled => (SyncLeft => SyncLeft') /\ ~ Reading BY <1>3 DEF SyncLeft, Reading, Asking
<1>6. op.stage = "read" => (SyncLeft => SyncLeft') BY <1>3 DEF SyncLeft
<1>7. Last(history).id <= versions
  <2>1. Len(history) \in DOMAIN history /\ Last(history) = history[Len(history)] BY DEF IInv, BufferOK, Last
  <2> QED BY <2>1 DEF Faithful, Ids
<1>8. Ids' BY <1>2, <1>3, <1>7 DEF Faithful, Ids, EndSync
<1>9. Met' BY <1>2, <1>3 DEF Faithful, Met, File, Current
<1>10. (File <= texts)' /\ Fresh' BY <1>3 DEF Faithful, File, Fresh
<1>11. CASE op.revert
  <2>1. contentChanges = <<>> /\ ~ dirty /\ op.cancelled /\ reverting' = FALSE /\ dirty' = FALSE
    BY <1>11 DEF EndSync, Kept
  <2>2. reverting BY <1>11 DEF IInv, RevertOK, OfRevert
  <2>3. SyncLeft \/ Reading BY <1>2, <2>1, <2>2 DEF Faithful, Awaited
  <2>4. SyncLeft' BY <1>5, <2>1, <2>3
  <2>5. CleanOK' /\ Awaited' /\ Sounds' BY <1>1, <2>1, <2>4 DEF CleanOK, Awaited, Sounds, Sound
  <2> QED BY <1>3, <1>8, <1>9, <1>10, <2>5 DEF Faithful
<1>12. CASE ~ op.revert
  <2>1. UNCHANGED <<reverting, dirty, bufferSavedVersionId>> BY <1>12 DEF EndSync
  <2>2. reverting => op.cancelled
    <3>1. op # Idle BY DEF Idle
    <3> QED BY <1>12, <3>1 DEF IInv, RevertOK, OfRevert, Faithful, InOrder
  <2>3. CleanOK' BY <1>1, <2>1 DEF Faithful, CleanOK
  <2>4. Awaited' BY <1>2, <1>3, <1>5, <2>1, <2>2 DEF Faithful, Awaited
  <2>5. Sounds'
    <3>1. SUFFICES ASSUME ~ dirty, ~ reverting PROVE (Sound(Current.text))' BY <1>1, <2>1 DEF Sounds
    <3>2. Sound(Current.text) /\ op.cancelled BY <3>1 DEF Faithful, Sounds
    <3> QED BY <1>4, <1>5, <3>2 DEF Sound, Told, File, Current
  <2> QED BY <1>3, <1>8, <1>9, <1>10, <2>3, <2>4, <2>5 DEF Faithful
<1> QED BY <1>11, <1>12

LEMMA SyncOpenClear == ASSUME IInv, Faithful, SyncOpen, disturbed = {}, disturbed' = {} PROVE Faithful'
<1>1. op.kind = "sync" /\ op.stage = "start" /\ UNCHANGED history
      /\ UNCHANGED <<written, notice, stat, contentChanges, resourceVersion, queue, texts, versions>>
  BY DEF SyncOpen
<1>2. CASE op.cancelled
  <2>1. EndSync({}) /\ UNCHANGED version BY <1>2 DEF SyncOpen
  <2> QED BY <1>1, <1>2, <2>1, SyncGivenUp
<1>3. CASE ~ op.cancelled
  <2>1. version' = Len(written) /\ op' = [op EXCEPT !.stage = "read"]
        /\ UNCHANGED <<dirty, bufferSavedVersionId, reverting, synced>>
    BY <1>3 DEF SyncOpen
  <2>2. op \in Syncing({"start", "read"}) BY <1>1, OpAt DEF IInv
  <2>3. op'.kind = "sync" /\ op'.stage = "read" /\ ~ op'.cancelled BY <1>1, <1>3, <2>1, <2>2 DEF Syncing
  <2>4. Reading' BY <2>3 DEF Reading, Asking
  <2>5. ~ Taken /\ ~ Taken' /\ ~ At({"stat"}) BY <1>1, <2>3 DEF Taken, At
  <2>6. InOrder'
    <3>1. op # Idle BY <1>1 DEF Idle
    <3>2. \A i \in DOMAIN queue : ~ OfRevert(queue[i]) BY <1>3, <3>1 DEF Faithful, InOrder
    <3> QED BY <1>1, <3>2 DEF InOrder
  <2>7. Ids' BY <1>1, <2>1, <2>5 DEF Faithful, Ids
  <2>8. TakenOK' BY <2>5 DEF TakenOK
  <2>9. CleanOK' /\ (File <= texts)' BY <1>1, <2>1 DEF Faithful, CleanOK, File, Current
  <2>10. Met' BY <1>1, <2>5 DEF Faithful, Met, File, Current
  <2>11. Fresh' /\ Awaited' /\ Sounds' BY <1>1, <2>1, <2>4 DEF Fresh, Awaited, Sounds, Sound
  <2> QED BY <2>6, <2>7, <2>8, <2>9, <2>10, <2>11 DEF Faithful
<1> QED BY <1>2, <1>3

(* The text that is loaded is the newest, or a notice tells of that.       *)
LEMMA SyncReadClear == ASSUME IInv, Faithful, SyncRead, disturbed = {}, disturbed' = {} PROVE Faithful'
<1>1. op.kind = "sync" /\ op.stage = "read" /\ EndSync(IF history' = history THEN {} ELSE Kept("load"))
      /\ UNCHANGED <<file, contentChanges, queue, texts, calls>>
  BY DEF SyncRead
<1>2. UNCHANGED <<written, notice, stat, version>> BY <1>1 DEF file
<1>3. CASE ~ Loads
  <2>1. UNCHANGED <<resourceVersion, seen, history, versions>> BY <1>3 DEF SyncRead
  <2>2. EndSync({}) BY <1>1, <2>1
  <2>3. op.cancelled \/ dirty BY <1>3 DEF Loads
  <2> QED BY <1>1, <1>2, <2>1, <2>2, <2>3, SyncGivenUp
<1>4. CASE Loads
  <2>1. ~ op.cancelled /\ ~ dirty /\ Reading BY <1>1, <1>4 DEF Loads, Reading, Asking
  <2>2. op' = Idle /\ synced' BY <1>1 DEF EndSync
  <2>3. /\ Waits("sync")' <=> Waits("sync")
        /\ ~ Reading' /\ ~ Taken' /\ ~ At({"stat"})' /\ TakenOK' /\ InOrder'
    BY <1>1, <2>2, Ended DEF Faithful
  <2>4. ~ Taken /\ ~ At({"stat"}) BY <1>1 DEF Taken, At
  <2>5. ~ dirty' /\ ~ reverting'
    <3>1. op # Idle BY <1>1 DEF Idle
    <3>2. \A i \in DOMAIN queue : ~ OfRevert(queue[i]) BY <2>1, <3>1 DEF Faithful, InOrder
    <3>3. reverting => op.revert BY <3>2 DEF IInv, RevertOK, OfRevert
    <3> QED BY <1>1, <2>1, <3>3 DEF EndSync
  <2>6. /\ written \in Seq(Text) /\ written # <<>> /\ history \in Seq(State) /\ history # <<>>
        /\ versions \in Nat /\ texts \in Nat
    BY DEF IInv, FileOK, BufferOK, RestOK
  <2>7. /\ \/ UNCHANGED <<history, versions>> /\ File = Current.text
           \/ /\ versions' = versions + 1 /\ contentChanges = <<>>
              /\ history' = Append(history, [id |-> versions + 1, text |-> File])
    <3>1. CASE File = Current.text BY <1>4, <3>1 DEF SyncRead, File
    <3>2. CASE File # Current.text
      <4>1. versions' = versions + 1 /\ history' = Append(history, [id |-> versions + 1, text |-> File])
        BY <1>4, <3>2 DEF SyncRead, File
      <4>2. Len(history') # Len(history) BY <2>6, <4>1
      <4>3. EndSync(Kept("load")) BY <1>1, <4>2
      <4>4. contentChanges = <<>> BY <4>3 DEF EndSync, Kept
      <4> QED BY <4>1, <4>4
    <3> QED BY <3>1, <3>2
  <2>8. bufferSavedVersionId' = Last(history').id \/ UNCHANGED bufferSavedVersionId BY <1>1 DEF EndSync
  <2>9. File' = File /\ texts' = texts /\ File \in Text BY <1>1, <1>2, <2>6, LastFront DEF File
  <2>10. Ids' /\ Current'.text = File
    <3>1. CASE UNCHANGED <<history, versions>> /\ File = Current.text
      <4>1. Last(history).id <= versions
        <5>1. Len(history) \in DOMAIN history /\ Last(history) = history[Len(history)] BY <2>6 DEF Last
        <5> QED BY <5>1 DEF Faithful, Ids
      <4> QED BY <2>3, <2>8, <2>9, <3>1, <4>1 DEF Faithful, Ids, Current
    <3>2. CASE versions' = versions + 1 /\ history' = Append(history, [id |-> versions + 1, text |-> File])
      <4>1. PICK v \in Nat : v = versions + 1 BY <2>6
      <4>2. PICK e \in State : e = [id |-> v, text |-> File] BY <2>9 DEF State
      <4>3. history' = Append(history, e) /\ e.id = v /\ e.text = File BY <3>2, <4>1, <4>2
      <4>4. /\ DOMAIN history' = 1 .. Len(history) + 1 /\ DOMAIN history = 1 .. Len(history)
            /\ Len(history) \in Nat
            /\ history'[Len(history) + 1] = e /\ Last(history') = e
            /\ \A i \in 1 .. Len(history) : history'[i] = history[i]
        BY <2>6, <4>3, Grown
      <4>5. \A i \in DOMAIN history : history[i].id \in Nat /\ history[i].text \in Nat
        <5>1. \A i \in DOMAIN history : history[i] \in State BY <2>6
        <5> QED BY <5>1 DEF State, Text
      <4>6. \A i \in DOMAIN history' : (i \in DOMAIN history /\ history'[i] = history[i])
                                         \/ (i = Len(history) + 1 /\ history'[i] = e)
        BY <4>4
      <4>7. \A i \in DOMAIN history : history[i].id <= versions /\ history[i].text <= texts BY DEF Faithful, Ids
      <4>8. File <= texts BY DEF Faithful
      <4>9. \A i \in DOMAIN history' : history'[i].id <= versions' /\ history'[i].text <= texts'
        BY <2>6, <2>9, <3>2, <4>1, <4>3, <4>5, <4>6, <4>7, <4>8
      <4>10. \A i, j \in DOMAIN history' : history'[i].id = history'[j].id => i = j
        <5>1. TAKE i, j \in DOMAIN history'
        <5>2. CASE i \in DOMAIN history /\ j \in DOMAIN history BY <4>4, <5>2 DEF Faithful, Ids
        <5>3. CASE i \notin DOMAIN history \/ j \notin DOMAIN history
          BY <2>6, <4>1, <4>3, <4>5, <4>6, <4>7, <5>3
        <5> QED BY <5>2, <5>3
      <4>11. bufferSavedVersionId' <= versions'
        <5>1. bufferSavedVersionId \in Nat /\ bufferSavedVersionId <= versions
          BY DEF Faithful, Ids, IInv, BufferOK
        <5>2. Last(history').id = versions' BY <3>2, <4>1, <4>3, <4>4
        <5> QED BY <2>6, <2>8, <3>2, <5>1, <5>2
      <4> QED BY <2>3, <4>3, <4>4, <4>9, <4>10, <4>11 DEF Ids, Current
    <3> QED BY <2>7, <3>1, <3>2
  <2>11. CleanOK' /\ Fresh' /\ Awaited' BY <2>2, <2>3, <2>5 DEF CleanOK, Fresh, Awaited
  <2>12. (File <= texts)' BY <2>9 DEF Faithful
  <2>13. Leads(contentChanges, 0, File, File)
    <3>1. CASE contentChanges = <<>> BY <3>1, LeadsNone DEF IInv, BufferOK
    <3>2. CASE File = Current.text
      <4>1. Len(history) \in DOMAIN history /\ Current = history[Len(history)] BY <2>6 DEF Current, Last
      <4>2. \E i \in DOMAIN history : history[i].text = File BY <3>2, <4>1
      <4> QED BY <2>4, <3>2, <4>2 DEF Faithful, Met
    <3> QED BY <2>7, <3>1, <3>2
  <2>14. Met' BY <1>1, <2>9, <2>10, <2>13 DEF Met
  <2>15. Sounds'
    <3>1. version = Len(written) \/ Told BY <2>1 DEF Faithful, Fresh
    <3>2. version \in Nat /\ Len(written) \in Nat /\ version <= Len(written) BY DEF IInv, FileOK
    <3>3. (Sound(Current.text))' BY <1>2, <2>9, <2>10, <3>1, <3>2 DEF Sound, Told
    <3> QED BY <2>2, <3>3 DEF Sounds
  <2> QED BY <2>3, <2>10, <2>11, <2>12, <2>14, <2>15 DEF Faithful
<1> QED BY <1>3, <1>4

-----------------------------------------------------------------------------
(* Saves.                                                                  *)
LEMMA EndSaveClear ==
  ASSUME IInv, Faithful, op.kind = "save", EndSave, ~ At({"stat"}),
         UNCHANGED <<file, buffer, resourceVersion, queue, reverting, texts, versions, calls, ghosts>>,
         \/ op.cancelled /\ ~ Taken
         \/ contentChanges = <<>> /\ ~ Taken
         \/ Taken /\ op.version < Len(written)
  PROVE  Faithful'
<1>1. op' = Idle /\ UNCHANGED queue BY DEF EndSave
<1>2. UNCHANGED <<written, notice, stat, version, history, bufferSavedVersionId, dirty, contentChanges, synced>>
  BY DEF file, buffer, ghosts
<1>3. /\ Waits("sync")' <=> Waits("sync")
      /\ Waits("save")' <=> Waits("save")
      /\ SyncLeft' <=> Waits("sync")
      /\ SaveLeft' <=> Waits("save")
      /\ ~ Reading' /\ ~ Taken' /\ ~ At({"stat"})' /\ TakenOK' /\ InOrder'
  BY <1>1, Ended DEF Faithful
<1>4. ~ Reading /\ (SyncLeft <=> SyncLeft') BY <1>3 DEF Reading, SyncLeft, Asking
<1>5. Ids' BY <1>2, <1>3 DEF Faithful, Ids
<1>6. CleanOK' /\ (File <= texts)' /\ Met' BY <1>2 DEF Faithful, CleanOK, File, Met, Current
<1>7. Fresh' BY <1>3 DEF Fresh
<1>8. Awaited'
  <2>1. SUFFICES ASSUME reverting, Len(contentChanges) = 0 PROVE SyncLeft \/ Reading
    BY <1>2, <1>3, <1>4 DEF Awaited
  <2>2. CASE ~ Taken BY <2>1, <2>2 DEF Faithful, Awaited
  <2>3. CASE Taken
    <3>1. op \in SaveTaken(Late) BY <2>3, OpAt DEF IInv, Taken, Late
    <3>2. Len(op.changes) \in Nat BY <3>1 DEF SaveTaken, Changes
    <3>3. Len(op.changes) <= Len(contentChanges) BY <2>3 DEF Faithful, TakenOK, Leads
    <3> QED BY <2>1, <2>3, <3>2, <3>3 DEF Faithful, Awaited
  <2> QED BY <2>2, <2>3
<1>9. Sounds'
  <2>1. ASSUME NEW text, Sound(text), text = File \/ Taken \/ op.cancelled PROVE (Sound(text))'
    <3>1. CASE SaveLeft' <=> SaveLeft BY <1>2, <1>4, <2>1, <3>1 DEF Sound, Told, File
    <3>2. CASE text = File BY <1>2, <1>4, <2>1, <3>2 DEF Sound, Told, File
    <3>3. CASE op.cancelled /\ ~ Taken
      <4>1. SaveLeft' <=> SaveLeft BY <1>3, <3>3 DEF SaveLeft, Asking
      <4> QED BY <3>1, <4>1
    <3>4. CASE Taken /\ op.version < Len(written)
      <4>1. op.version = resourceVersion BY <3>4 DEF Faithful, TakenOK
      <4>2. resourceVersion # Len(written) BY <3>4, <4>1 DEF IInv, FileOK
      <4> QED BY <1>2, <1>4, <2>1, <4>2 DEF Sound, Told, File
    <3> QED BY <2>1, <3>2, <3>3, <3>4
  <2>2. CASE Taken \/ op.cancelled
    <3>1. ~ dirty /\ ~ reverting => (Sound(Current.text))'
      BY <1>2, <2>1, <2>2 DEF Faithful, Sounds, Sound, Told, File, Current
    <3>2. ASSUME dirty, ~ synced, NEW i \in DOMAIN history, history[i].id = bufferSavedVersionId
          PROVE  (Sound(history[i].text))'
      <4>1. Sound(history[i].text) BY <3>2 DEF Faithful, Sounds
      <4>2. PICK text : text = history[i].text OBVIOUS
      <4>3. (Sound(text))' BY <2>1, <2>2, <4>1, <4>2
      <4> QED BY <1>2, <4>2, <4>3 DEF Sound
    <3> QED BY <1>2, <3>1, <3>2 DEF Sounds
  <2>3. CASE contentChanges = <<>> /\ ~ Taken
    <3>1. ~ dirty BY <2>3 DEF Faithful, CleanOK
    <3>2. SUFFICES ASSUME ~ reverting PROVE (Sound(Current.text))' BY <1>2, <3>1 DEF Sounds
    <3>3. Sound(Current.text) BY <3>1, <3>2 DEF Faithful, Sounds
    <3>4. resourceVersion = Len(written) => Current.text = File
      <4>1. resourceVersion = Len(written) => Leads(<<>>, 0, File, Current.text)
        BY <2>3 DEF Faithful, Met
      <4> QED BY <2>3, <4>1, LeadsNone DEF IInv, BufferOK
    <3> QED BY <1>2, <1>4, <3>3, <3>4 DEF Sound, Told, File, Current
  <2> QED BY <2>2, <2>3
<1> QED BY <1>3, <1>5, <1>6, <1>7, <1>8, <1>9 DEF Faithful

(* A save that goes on, of the same token.                                 *)
LEMMA SaveOn ==
  ASSUME IInv, Faithful, op.kind = "save", op'.kind = "save", op'.cancelled = op.cancelled,
         UNCHANGED <<file, buffer, resourceVersion, queue, reverting, texts, versions, calls, ghosts>>,
         Ids', TakenOK', Met', Awaited'
  PROVE  Faithful'
<1>1. UNCHANGED <<written, notice, stat, version, history, bufferSavedVersionId, dirty, contentChanges, synced>>
  BY DEF file, buffer, ghosts
<1>2. /\ SyncLeft' <=> SyncLeft
      /\ ~ Reading /\ ~ Reading'
      /\ SaveLeft' <=> SaveLeft
  BY DEF SyncLeft, Reading, SaveLeft, Waits, Asking
<1>3. InOrder' BY DEF Faithful, InOrder, Idle
<1>4. CleanOK' /\ (File <= texts)' BY <1>1 DEF Faithful, CleanOK, File, Current
<1>5. Fresh' BY <1>2 DEF Fresh
<1>6. Sounds' BY <1>1, <1>2 DEF Faithful, Sounds, Sound, Told, File, Current
<1> QED BY <1>3, <1>4, <1>5, <1>6 DEF Faithful

LEMMA SaveStartClear == ASSUME IInv, Faithful, SaveStart PROVE Faithful'
<1>1. op.kind = "save" /\ op.stage = "start"
      /\ UNCHANGED <<file, buffer, resourceVersion, queue, reverting, texts, versions, calls, ghosts>>
  BY DEF SaveStart
<1>2. op \in SaveBegun({"start", "participants"}) /\ ~ Taken /\ ~ At({"stat"})
  BY <1>1, OpAt DEF IInv, At, Taken, Late
<1>3. CASE op.cancelled
  <2>1. EndSave BY <1>3 DEF SaveStart
  <2> QED BY <1>1, <1>2, <1>3, <2>1, EndSaveClear
<1>4. CASE ~ op.cancelled
  <2>1. op' = [op EXCEPT !.stage = "participants"] BY <1>4 DEF SaveStart
  <2>2. op'.kind = "save" /\ op'.stage = "participants" /\ op'.cancelled = op.cancelled BY <1>1, <1>2, <2>1 DEF SaveBegun
  <2>3. ~ Taken' /\ ~ At({"stat"})' BY <2>2 DEF Taken, At, Late
  <2>4. Ids' /\ TakenOK' BY <1>1, <2>3 DEF Faithful, Ids, TakenOK, buffer
  <2>5. Met' BY <1>1, <1>2, <2>3 DEF Faithful, Met, file, buffer, File, Current
  <2>6. SyncLeft' <=> SyncLeft BY <1>1, <2>2 DEF SyncLeft, Asking, Waits
  <2>7. ~ Reading BY <1>1 DEF Reading, Asking
  <2>8. Awaited' BY <1>1, <1>2, <2>3, <2>6, <2>7 DEF Faithful, Awaited, buffer
  <2> QED BY <1>1, <2>2, <2>4, <2>5, <2>8, SaveOn
<1> QED BY <1>3, <1>4

LEMMA SnapshotClear == ASSUME IInv, Faithful, Snapshot PROVE Faithful'
<1>1. op.kind = "save" /\ op.stage = "participants"
      /\ UNCHANGED <<file, buffer, resourceVersion, queue, reverting, texts, versions, calls, ghosts>>
  BY DEF Snapshot
<1>2. ~ Taken /\ ~ At({"stat"}) BY <1>1 DEF At, Taken, Late
<1>3. CASE op.cancelled \/ (contentChanges = <<>> /\ ~ op.manual)
  <2>1. EndSave BY <1>3 DEF Snapshot
  <2> QED BY <1>1, <1>2, <1>3, <2>1, EndSaveClear
<1>4. CASE ~ (op.cancelled \/ (contentChanges = <<>> /\ ~ op.manual))
  <2>1. PICK incremental \in BOOLEAN :
          op' = [kind |-> "save", stage |-> "check", cancelled |-> FALSE, incremental |-> incremental,
                 confirmed |-> FALSE, changes |-> contentChanges, id |-> Current.id, text |-> Current.text,
                 version |-> VersionToSave, mtime |-> 0]
    BY <1>4 DEF Snapshot
  <2>2. /\ op'.kind = "save" /\ op'.stage = "check" /\ op'.cancelled = FALSE /\ op'.changes = contentChanges
        /\ op'.id = Current.id /\ op'.text = Current.text /\ op'.version = resourceVersion
    BY <2>1 DEF VersionToSave
  <2>3. op.cancelled = FALSE
    <3>1. op \in SaveBegun({"start", "participants"}) BY <1>1, OpAt DEF IInv, At
    <3> QED BY <1>4, <3>1 DEF SaveBegun
  <2>4. Taken' /\ At({"check"})' /\ ~ At({"ask"})' /\ ~ At({"write"})' /\ ~ At({"stat"})'
    BY <2>2 DEF Taken, At, Late
  <2>5. Len(history) \in DOMAIN history /\ Current = history[Len(history)] BY DEF IInv, BufferOK, Current, Last
  <2>6. UNCHANGED <<written, version, history, bufferSavedVersionId, contentChanges, texts, versions, resourceVersion>>
    BY <1>1 DEF file, buffer
  <2>7. Ids' BY <2>2, <2>5, <2>6 DEF Faithful, Ids
  <2>8. resourceVersion = Len(written) => Leads(contentChanges, 0, File, Current.text)
    BY <1>2 DEF Faithful, Met
  <2>9. Leads(contentChanges, Len(contentChanges), Current.text, Current.text) BY LeadsNone DEF IInv, BufferOK
  <2>10. TakenOK' BY <2>2, <2>4, <2>6, <2>8, <2>9 DEF TakenOK, File, Current
  <2>11. Met' BY <1>2, <2>6 DEF Faithful, Met, File, Current
  <2>12. ~ reverting
    <3>1. op # Idle BY <1>1 DEF Idle
    <3>2. \A i \in DOMAIN queue : ~ OfRevert(queue[i]) BY <2>3, <3>1 DEF Faithful, InOrder
    <3> QED BY <1>1, <3>2 DEF IInv, RevertOK, OfRevert
  <2>13. Awaited' BY <1>1, <2>12 DEF Awaited
  <2> QED BY <1>1, <2>2, <2>3, <2>7, <2>10, <2>11, <2>13, SaveOn
<1> QED BY <1>3, <1>4

(* What a step of a save that has taken the text leaves alone.             *)
LEMMA TakenOn ==
  ASSUME IInv, Faithful, Taken, Taken', ~ At({"stat"}),
         UNCHANGED <<file, buffer, resourceVersion, queue, reverting, texts, versions, calls, ghosts>>,
         op'.cancelled = op.cancelled, op'.id = op.id, op'.text = op.text, op'.changes = op.changes, TakenOK'
  PROVE  Faithful'
<1>1. op.kind = "save" /\ op'.kind = "save" BY DEF Taken, At
<1>2. UNCHANGED <<written, version, history, bufferSavedVersionId, contentChanges>> BY DEF file, buffer
<1>3. Ids' BY <1>2 DEF Faithful, Ids
<1>4. Met' BY <1>2 DEF Faithful, Met, File, Current
<1>5. SyncLeft' <=> SyncLeft BY <1>1 DEF SyncLeft, Asking, Waits
<1>6. ~ Reading BY <1>1 DEF Reading, Asking
<1>7. Awaited' BY <1>2, <1>5, <1>6 DEF Faithful, Awaited
<1> QED BY <1>1, <1>3, <1>4, <1>7, SaveOn

LEMMA TakenFields ==
  ASSUME IInv, Taken
  PROVE  /\ op \in SaveTaken(Late) /\ Len(op.changes) \in Nat /\ op.changes \in Changes /\ op.text \in Text
         /\ op.mtime \in Nat /\ op.version \in Nat /\ op.incremental \in BOOLEAN
<1>1. op \in SaveTaken(Late) BY OpAt DEF IInv, Taken, Late
<1> QED BY <1>1 DEF SaveTaken, Changes

LEMMA CheckClear == ASSUME IInv, Faithful, Check, disturbed' = {} PROVE Faithful'
<1>1. op.kind = "save" /\ op.stage = "check" /\ UNCHANGED <<written, notice, stat, Keep, seen>> BY DEF Check
<1>2. Taken /\ At({"check"}) /\ ~ At({"stat"}) BY <1>1 DEF Taken, At, Late
<1>3. op \in SaveTaken(Late) /\ op.version \in Nat BY <1>2, TakenFields
<1>4. ~ EndResourceSave(version, {"cancel"}) BY DEF EndResourceSave
<1>5. UNCHANGED <<version, buffer, resourceVersion, synced, disturbed>>
  <2>1. UNCHANGED <<version, buffer, synced, disturbed>> /\ UNCHANGED resourceVersion BY <1>4 DEF Check, buffer
  <2> QED BY <2>1
<1>6. UNCHANGED <<file, buffer, resourceVersion, queue, reverting, texts, versions, calls, ghosts>>
  BY <1>1, <1>5 DEF file, Keep, ghosts
<1>7. UNCHANGED <<written, notice, version, history, contentChanges>> BY <1>6 DEF file, buffer
<1>8. op.version <= Len(written) /\ Len(written) \in Nat BY <1>2 DEF IInv, SeenOK, FileOK, At
<1>9. /\ op.version = resourceVersion
      /\ Leads(contentChanges, Len(op.changes), op.text, Current.text)
      /\ Current.id # op.id => Len(op.changes) < Len(contentChanges)
      /\ op.cancelled => reverting \/ Waits("save")
      /\ op.version = Len(written) => Leads(op.changes, 0, File, op.text)
  BY <1>2 DEF Faithful, TakenOK
<1>10. Waits("save")' <=> Waits("save") BY <1>6 DEF Waits
<1>11. CASE ~ ModifiedSince /\ op' = [op EXCEPT !.stage = "write", !.mtime = Len(written)]
  <2>1. /\ op'.kind = "save" /\ op'.stage = "write" /\ op'.mtime = Len(written) /\ op'.cancelled = op.cancelled
        /\ op'.id = op.id /\ op'.text = op.text /\ op'.changes = op.changes /\ op'.version = op.version
    BY <1>3, <1>11 DEF SaveTaken
  <2>2. op.version = Len(written) BY <1>3, <1>8, <1>11 DEF ModifiedSince
  <2>3. Taken' /\ ~ At({"check"})' /\ ~ At({"ask"})' /\ ~ At({"stat"})' BY <2>1 DEF Taken, At, Late
  <2>4. TakenOK' BY <1>6, <1>7, <1>8, <1>9, <1>10, <2>1, <2>2, <2>3 DEF TakenOK, File, Current
  <2> QED BY <1>2, <1>6, <2>1, <2>3, <2>4, TakenOn
<1>12. CASE op' = [op EXCEPT !.incremental = FALSE]
  <2>1. /\ op'.kind = "save" /\ op'.stage = "check" /\ op'.cancelled = op.cancelled
        /\ op'.id = op.id /\ op'.text = op.text /\ op'.changes = op.changes /\ op'.version = op.version
    BY <1>1, <1>3, <1>12 DEF SaveTaken
  <2>3. Taken' /\ At({"check"})' /\ ~ At({"ask"})' /\ ~ At({"write"})' /\ ~ At({"stat"})' BY <2>1 DEF Taken, At, Late
  <2>4. TakenOK' BY <1>6, <1>7, <1>9, <1>10, <2>1, <2>3 DEF TakenOK, File, Current
  <2> QED BY <1>2, <1>6, <2>1, <2>3, <2>4, TakenOn
<1>13. CASE ModifiedSince /\ ~ op.incremental /\ op' = [op EXCEPT !.stage = "ask"]
  <2>1. /\ op'.kind = "save" /\ op'.stage = "ask" /\ op'.cancelled = op.cancelled /\ op'.incremental = op.incremental
        /\ op'.id = op.id /\ op'.text = op.text /\ op'.changes = op.changes /\ op'.version = op.version
    BY <1>1, <1>3, <1>13 DEF SaveTaken
  <2>3. Taken' /\ ~ At({"check"})' /\ ~ At({"write"})' /\ ~ At({"stat"})' BY <2>1 DEF Taken, At, Late
  <2>4. TakenOK' BY <1>6, <1>7, <1>9, <1>10, <1>13, <2>1, <2>3 DEF TakenOK, File, Current, ModifiedSince
  <2> QED BY <1>2, <1>6, <2>1, <2>3, <2>4, TakenOn
<1> QED BY <1>4, <1>11, <1>12, <1>13 DEF Check

LEMMA AskClear == ASSUME IInv, Faithful, Ask PROVE Faithful'
<1>1. op.kind = "save" /\ op.stage = "ask"
      /\ UNCHANGED <<file, buffer, resourceVersion, queue, reverting, texts, versions, calls, ghosts>>
  BY DEF Ask, Keep
<1>2. Taken /\ At({"ask"}) /\ ~ At({"stat"}) BY <1>1 DEF Taken, At, Late
<1>3. op.version < Len(written) /\ ~ op.incremental BY <1>2 DEF Faithful, TakenOK
<1>4. CASE EndSave BY <1>1, <1>2, <1>3, <1>4, EndSaveClear
<1>5. CASE op' = [op EXCEPT !.stage = "write", !.confirmed = TRUE, !.mtime = Len(written)]
  <2>1. op \in SaveTaken(Late) BY <1>2, TakenFields
  <2>2. /\ op'.kind = "save" /\ op'.stage = "write" /\ op'.mtime = Len(written) /\ op'.cancelled = op.cancelled
        /\ op'.id = op.id /\ op'.text = op.text /\ op'.changes = op.changes /\ op'.version = op.version
        /\ op'.incremental = op.incremental
    BY <1>1, <1>5, <2>1 DEF SaveTaken
  <2>3. Taken' /\ ~ At({"check"})' /\ ~ At({"ask"})' /\ ~ At({"stat"})' BY <2>2 DEF Taken, At, Late
  <2>4. UNCHANGED <<written, notice, version, history, contentChanges>> BY <1>1 DEF file, buffer
  <2>5. Waits("save")' <=> Waits("save") BY <1>1 DEF Waits
  <2>6. Len(written) \in Nat BY DEF IInv, FileOK
  <2>7. TakenOK' BY <1>1, <1>2, <1>3, <2>2, <2>3, <2>4, <2>5, <2>6 DEF Faithful, TakenOK, File, Current
  <2> QED BY <1>1, <1>2, <2>2, <2>3, <2>7, TakenOn
<1> QED BY <1>4, <1>5 DEF Ask

LEMMA WriteClear == ASSUME IInv, Faithful, Write, disturbed' = {} PROVE Faithful'
<1>1. /\ op.kind = "save" /\ op.stage = "write" /\ notice' = TRUE
      /\ UNCHANGED <<stat, version, buffer, resourceVersion, Keep, synced>>
      /\ op' = [op EXCEPT !.stage = "stat", !.mtime = Len(written) + 1]
      /\ written' = Append(written, IF op.incremental THEN Apply(op.changes, Last(written)) ELSE op.text)
      /\ Overtaken = {}
  BY DEF Write
<1>2. Taken /\ At({"write"}) BY <1>1 DEF Taken, At, Late
<1>3. op \in SaveTaken(Late) /\ op.text \in Text /\ op.mtime \in Nat BY <1>2, TakenFields
<1>4. UNCHANGED <<history, bufferSavedVersionId, dirty, contentChanges, queue, reverting, texts, versions>>
  BY <1>1 DEF buffer, Keep
<1>5. written \in Seq(Text) /\ Len(written) \in Nat BY DEF IInv, FileOK
<1>6. op.mtime = Len(written)
  <2>1. op.mtime <= Len(written) BY <1>2 DEF Faithful, TakenOK
  <2>2. ~ (op.mtime < Len(written)) BY <1>1 DEF Overtaken
  <2> QED BY <1>3, <1>5, <2>1, <2>2
<1>7. op.incremental => Apply(op.changes, Last(written)) = op.text
  <2>1. op.incremental => Leads(op.changes, 0, File, op.text) BY <1>2, <1>6 DEF Faithful, TakenOK
  <2>2. op.changes \in Changes BY <1>2, TakenFields
  <2> QED BY <2>1, <2>2, LeadsApply DEF File
<1>8. Len(written') = Len(written) + 1 /\ File' = op.text
  <2>1. written' = Append(written, op.text) BY <1>1, <1>7
  <2> QED BY <1>3, <1>5, <2>1, Grown DEF File
<1>9. /\ op'.kind = "save" /\ op'.stage = "stat" /\ op'.mtime = Len(written) + 1 /\ op'.cancelled = op.cancelled
      /\ op'.id = op.id /\ op'.text = op.text /\ op'.changes = op.changes /\ op'.version = op.version
  <2>1. PICK n : n = Len(written) + 1 OBVIOUS
  <2>2. op' = [op EXCEPT !.stage = "stat", !.mtime = n] BY <1>1, <2>1
  <2> QED BY <1>1, <1>3, <2>1, <2>2 DEF SaveTaken
<1>10. Taken' /\ At({"stat"})' /\ ~ At({"check"})' /\ ~ At({"ask"})' /\ ~ At({"write"})' BY <1>9 DEF Taken, At, Late
<1>11. /\ Waits("save")' <=> Waits("save")
       /\ SyncLeft' <=> SyncLeft
       /\ ~ Reading /\ ~ Reading'
  BY <1>1, <1>4, <1>9 DEF Waits, SyncLeft, Reading, Asking
<1>12. version \in Nat /\ version < Len(written') /\ version' = version
  BY <1>1, <1>5, <1>8 DEF IInv, FileOK
<1>13. Ids' BY <1>2, <1>4, <1>9 DEF Faithful, Ids
<1>14. InOrder' BY <1>1, <1>4, <1>9 DEF Faithful, InOrder, Idle
<1>15. TakenOK' BY <1>1, <1>2, <1>4, <1>8, <1>9, <1>10, <1>11, <1>12 DEF Faithful, TakenOK, Current
<1>16. CleanOK' BY <1>1, <1>4 DEF Faithful, CleanOK, Current
<1>17. (File <= texts)' BY <1>2, <1>4, <1>8 DEF Faithful, Ids
<1>18. Met' BY <1>10 DEF Met
<1>19. Fresh' BY <1>11 DEF Fresh
<1>20. Awaited' BY <1>2, <1>4, <1>9, <1>10, <1>11 DEF Faithful, Awaited
<1>21. Sounds' BY <1>1, <1>12 DEF Sounds, Sound, Told
<1> QED BY <1>13, <1>14, <1>15, <1>16, <1>17, <1>18, <1>19, <1>20, <1>21 DEF Faithful

(* The save that ends leaves the changes made since its start, which lead  *)
(* from what it wrote.                                                     *)
LEMMA SaveDoneClear == ASSUME IInv, Faithful, SaveDone, disturbed = {}, disturbed' = {} PROVE Faithful'
<1>1. /\ op.kind = "save" /\ op.stage = "stat" /\ EndResourceSave(Len(written), Overtaken)
      /\ UNCHANGED <<written, notice, stat, Keep, seen>>
  BY DEF SaveDone
<1>2. Taken /\ At({"stat"}) BY <1>1 DEF Taken, At, Late
<1>3. /\ version' = Len(written) /\ resourceVersion' = Len(written) /\ UNCHANGED history /\ op' = Idle
      /\ contentChanges' = SubSeq(contentChanges, Len(op.changes) + 1, Len(contentChanges))
      /\ UNCHANGED <<queue, reverting, texts, versions>>
      /\ disturbed \cup Overtaken \subseteq disturbed'
  BY <1>1 DEF EndResourceSave, EndSave, Keep
<1>4. op.mtime = Len(written)
  <2>1. op.mtime <= Len(written) BY <1>2 DEF IInv, SeenOK
  <2>2. ~ (op.mtime < Len(written)) BY <1>3 DEF Overtaken
  <2>3. op.mtime \in Nat /\ Len(written) \in Nat BY <1>2, TakenFields DEF IInv, FileOK
  <2> QED BY <2>1, <2>2, <2>3
<1>5. File = op.text BY <1>2, <1>4 DEF Faithful, TakenOK
<1>6. /\ Leads(contentChanges', 0, File, Current.text)
      /\ Len(contentChanges') = Len(contentChanges) - Len(op.changes)
      /\ Len(op.changes) \in Nat /\ Len(contentChanges) \in Nat
  <2>1. contentChanges \in Changes /\ Len(op.changes) \in Nat BY <1>2, TakenFields DEF IInv, BufferOK
  <2>2. Leads(contentChanges, Len(op.changes), File, Current.text) BY <1>2, <1>5 DEF Faithful, TakenOK
  <2>3. Len(contentChanges) \in Nat BY <2>1, LeadsNone
  <2> QED BY <1>3, <2>1, <2>2, <2>3, LeadsRest
<1>7. /\ Waits("sync")' <=> Waits("sync")
      /\ Waits("save")' <=> Waits("save")
      /\ SyncLeft' <=> Waits("sync")
      /\ SaveLeft' <=> Waits("save")
      /\ ~ Reading' /\ ~ Taken' /\ ~ At({"stat"})' /\ TakenOK' /\ InOrder'
  BY <1>3, Ended DEF Faithful
<1>8. (SyncLeft <=> SyncLeft') /\ ~ Reading BY <1>1, <1>7 DEF SyncLeft, Reading, Asking
<1>9. Met' /\ Fresh' /\ (File <= texts)' /\ File' = File BY <1>1, <1>3, <1>6, <1>7 DEF Faithful, Met, Fresh, File, Current
<1>10. Awaited'
  <2>1. SUFFICES ASSUME reverting, Len(contentChanges') = 0 PROVE SyncLeft' BY <1>3, <1>7 DEF Awaited
  <2>2. Len(contentChanges) = Len(op.changes) BY <1>6, <2>1
  <2> QED BY <1>2, <1>8, <2>1, <2>2 DEF Faithful, Awaited
<1>11. Len(history) \in DOMAIN history /\ Last(history) = history[Len(history)] BY DEF IInv, BufferOK, Last
<1>12. CASE op.cancelled /\ Current.id # op.id
  <2>1. UNCHANGED <<dirty, bufferSavedVersionId, synced>> BY <1>1, <1>12 DEF EndResourceSave
  <2>2. Ids' BY <1>3, <1>7, <2>1 DEF Faithful, Ids
  <2>3. Len(contentChanges') # 0
    <3>1. Len(op.changes) < Len(contentChanges) BY <1>2, <1>12 DEF Faithful, TakenOK
    <3> QED BY <1>6, <3>1
  <2>4. contentChanges' # <<>> BY <2>3
  <2>5. CleanOK' BY <1>3, <2>1, <2>4 DEF Faithful, CleanOK, Current
  <2>6. reverting \/ Waits("save") BY <1>2, <1>12 DEF Faithful, TakenOK
  <2>7. Sounds'
    <3>1. ~ reverting => SaveLeft' BY <1>7, <2>6
    <3>2. reverting /\ dirty => synced BY DEF Faithful, CleanOK
    <3> QED BY <1>1, <1>3, <2>1, <3>1, <3>2 DEF Sounds, Sound
  <2> QED BY <1>7, <1>9, <1>10, <2>2, <2>5, <2>7 DEF Faithful
<1>13. CASE ~ (op.cancelled /\ Current.id # op.id)
  <2>1. SetClean /\ Current.id = op.id BY <1>1, <1>13 DEF EndResourceSave
  <2>2. dirty' = FALSE /\ synced' = (synced /\ ~ dirty)
        /\ bufferSavedVersionId' = IF dirty THEN Current.id ELSE bufferSavedVersionId
    BY <1>3, <2>1 DEF SetClean, Current
  <2>3. Ids' BY <1>3, <1>7, <1>11, <2>2 DEF Faithful, Ids, Current
  <2>4. Current.text = File BY <1>2, <1>5, <1>11, <2>1 DEF Faithful, Ids, Current
  <2>5. CleanOK' BY <1>3, <2>2 DEF Faithful, CleanOK, Current
  <2>6. Sounds' BY <1>1, <1>3, <1>9, <2>2, <2>4 DEF Sounds, Sound, Current
  <2> QED BY <1>7, <1>9, <1>10, <2>3, <2>5, <2>6 DEF Faithful
<1> QED BY <1>12, <1>13

-----------------------------------------------------------------------------
LEMMA FaithfulStep == ASSUME IInv, Faithful, [Next]_vars, disturbed = {}, disturbed' = {} PROVE Faithful'
<1>1. CASE UNCHANGED vars
  <2>1. /\ UNCHANGED <<written, notice, stat, version, history, bufferSavedVersionId, dirty, contentChanges, synced>>
        /\ UNCHANGED <<resourceVersion, queue, op, reverting, texts, versions>>
    BY <1>1 DEF vars, file, buffer, ghosts
  <2>2. Ids' /\ InOrder' BY <2>1 DEF Faithful, Ids, InOrder, Taken, At
  <2>3. TakenOK' /\ CleanOK' /\ (File <= texts)' /\ Met'
    BY <2>1 DEF Faithful, TakenOK, CleanOK, Met, File, Current, Taken, At, Waits
  <2>4. Fresh' /\ Awaited' /\ Sounds'
    BY <2>1 DEF Faithful, Fresh, Awaited, Sounds, Sound, Told, SyncLeft, SaveLeft, Reading, File, Current, Taken, At, Waits
  <2> QED BY <2>2, <2>3, <2>4 DEF Faithful
<1>2. ASSUME NEW manual \in BOOLEAN, Save(manual) PROVE Faithful' BY <1>2, SaveClear
<1>3. CASE Edit BY <1>3, EditClear
<1>4. CASE Undo BY <1>4, UndoClear
<1>5. CASE Revert BY <1>5, RevertClear
<1>6. CASE ExternalWrite BY <1>6, ExternalWriteClear
<1>7. CASE StatFile BY <1>7, StatFileClear
<1>8. CASE StatAnswered BY <1>8, StatAnsweredClear
<1>9. CASE Start BY <1>9, StartClear
<1>10. CASE SyncOpen BY <1>10, SyncOpenClear
<1>11. CASE SyncRead BY <1>11, SyncReadClear
<1>12. CASE SaveStart BY <1>12, SaveStartClear
<1>13. CASE Snapshot BY <1>13, SnapshotClear
<1>14. CASE Check BY <1>14, CheckClear
<1>15. CASE Ask BY <1>15, AskClear
<1>16. CASE Write BY <1>16, WriteClear
<1>17. CASE SaveDone BY <1>17, SaveDoneClear
<1> QED BY <1>1, <1>2, <1>3, <1>4, <1>5, <1>6, <1>7, <1>8, <1>9, <1>10, <1>11, <1>12, <1>13, <1>14, <1>15, <1>16, <1>17
        DEF Next

(* What happened is not forgotten.                                         *)
LEMMA DisturbedGrows == ASSUME [Next]_vars PROVE disturbed \subseteq disturbed'
<1>1. ASSUME NEW x, EndSync(x) PROVE disturbed \subseteq disturbed' BY <1>1 DEF EndSync
<1>2. ASSUME NEW v, NEW x, EndResourceSave(v, x) PROVE disturbed \subseteq disturbed' BY <1>2 DEF EndResourceSave
<1>3. CASE UNCHANGED ghosts \/ UNCHANGED disturbed BY <1>3 DEF ghosts
<1>4. CASE Undo \/ Write BY <1>4 DEF Undo, Write
<1>5. CASE SyncOpen
  <2>1. CASE op.cancelled BY <1>1, <1>5, <2>1 DEF SyncOpen
  <2> QED BY <1>5, <2>1 DEF SyncOpen
<1>6. CASE SyncRead BY <1>1, <1>6 DEF SyncRead
<1>7. CASE Check BY <1>2, <1>7 DEF Check
<1>8. CASE SaveDone BY <1>2, <1>8 DEF SaveDone
<1> QED BY <1>3, <1>4, <1>5, <1>6, <1>7, <1>8
        DEF Next, vars, Edit, Save, Revert, ExternalWrite, StatFile, StatAnswered, Start, SaveStart, Snapshot, Ask

(* As long as nothing happened that the code does not cope with, the       *)
(* changes that are kept lead from the file to the buffer, and what is     *)
(* clean shows the file or is still going to hear of it.                   *)
THEOREM StaysFaithful == Spec => []FInv
<1>1. Init => FInv
  <2> SUFFICES ASSUME Init PROVE FInv OBVIOUS
  <2>1. IInv BY InitIInv
  <2>2. /\ history = <<[id |-> 1, text |-> 1]>> /\ DOMAIN history = {1} /\ history[1].id = 1 /\ history[1].text = 1
        /\ Last(history) = history[1] /\ written = <<1>> /\ Len(written) = 1 /\ Last(written) = 1
    BY DEF Init, Last
  <2>3. op = Idle /\ op.kind = "none" /\ queue = <<>> /\ DOMAIN queue = {} BY DEF Init, Idle
  <2>4. ~ Taken /\ ~ Reading BY <2>3 DEF Taken, At, Reading, Asking
  <2>5. File = 1 /\ Current.text = 1 /\ Current.id = 1 BY <2>2 DEF File, Current
  <2>6. Ids BY <2>2, <2>4 DEF Init, Ids
  <2>7. InOrder /\ TakenOK /\ CleanOK /\ Fresh /\ Awaited
    BY <2>3, <2>4, <2>5 DEF Init, InOrder, TakenOK, CleanOK, Fresh, Awaited
  <2>8. File <= texts BY <2>5 DEF Init
  <2>9. Leads(<<>>, 0, 1, 1)
    <3>1. <<>> \in Changes BY DEF Changes
    <3> QED BY <3>1, LeadsNone
  <2>10. Met BY <2>5, <2>9 DEF Init, Met
  <2>11. Sounds BY <2>2, <2>5 DEF Init, Sounds, Sound
  <2> QED BY <2>1, <2>6, <2>7, <2>8, <2>10, <2>11 DEF FInv, Faithful
<1>2. FInv /\ [Next]_vars => FInv'
  <2> SUFFICES ASSUME FInv, [Next]_vars PROVE FInv' OBVIOUS
  <2>1. IInv' BY IInvStep DEF FInv
  <2>2. ASSUME disturbed' = {} PROVE Faithful'
    <3>1. disturbed = {} BY <2>2, DisturbedGrows
    <3> QED BY <2>2, <3>1, FaithfulStep DEF FInv
  <2> QED BY <2>1, <2>2 DEF FInv
<1> QED BY <1>1, <1>2, PTL DEF Spec

(* A clean model at rest shows what the file has, if nothing happened that *)
(* the code does not cope with.                                            *)
THEOREM SettledShowsFile == Spec => []SettledIsSynced
<1>1. FInv => SettledIsSynced
  <2>1. SUFFICES ASSUME FInv, Settled, disturbed = {} PROVE Current.text = Last(written) BY DEF SettledIsSynced
  <2>2. Faithful /\ FileOK BY <2>1 DEF FInv, IInv
  <2>3. queue = <<>> /\ DOMAIN queue = {} /\ op.kind = "none" BY <2>1 DEF Settled, Idle
  <2>4. ~ SyncLeft /\ ~ Reading /\ ~ SaveLeft BY <2>3 DEF SyncLeft, Reading, SaveLeft, Waits, WaitsIn, Asking
  <2>5. ~ Told BY <2>1, <2>2 DEF Told, Settled, FileOK
  <2>6. Sound(Current.text) BY <2>1, <2>2 DEF Faithful, Sounds, Settled
  <2> QED BY <2>4, <2>5, <2>6 DEF Sound, File
<1> QED BY <1>1, StaysFaithful, PTL
==============================================================================
