-------------------------- MODULE FileWatching_proofs --------------------------
(***************************************************************************)
(* Theorems about FileWatching, for any front ends, watches and numbers of *)
(* connections, errors and exits of the process.                           *)
(***************************************************************************)
EXTENDS FileWatching, FiniteSetTheorems, TLAPS

(* Some order of a finite set is a sequence of its members.                *)
LEMMA OrderIsSeq ==
  ASSUME NEW S, IsFiniteSet(S), NEW s \in SetToSeqs(S)
  PROVE  s \in Seq(S) /\ DOMAIN s = 1 .. Len(s)
<1>1. Cardinality(S) \in Nat BY FS_CardinalityType
<1>2. s \in [1 .. Cardinality(S) -> S] BY DEF SetToSeqs
<1> QED BY <1>1, <1>2

-----------------------------------------------------------------------------
(* The type invariant, in parts.                                           *)
CallType == [op : {"watch", "unwatch"}, id : Id]
RequestType == [op : {"watch", "unwatch"}, handle : Handle, watcherId : Nat]
MessageType == [kind : {"answer"}, handle : Handle, watcherId : Nat, clients : {{}}]
          \cup [kind : {"error"}, handle : {<<>>}, watcherId : {0}, clients : SUBSET Client]
WatcherType == [stage : {"waiting", "creating", "started", "ended"}, disposed : BOOLEAN,
                native : BOOLEAN, timer : BOOLEAN, refs : [Client -> Nat]]

FrontendOK ==
  /\ asked \subseteq Id /\ watchOptions \subseteq asked
  /\ calls \in [FrontEnd -> Seq(CallType)]
  /\ connection \in [FrontEnd -> 0 .. MaxConnections] /\ connected \subseteq FrontEnd

HandleOK == handle \in [Handle -> [stage : Stage, watcherId : Nat]]
RequestsOK == requests \in Seq(RequestType)
MessagesOK == messages \in Seq(MessageType)
RestOK ==
  /\ serving \subseteq Client /\ told \subseteq Client
  /\ reachable \in BOOLEAN /\ errors \in Nat /\ crashes \in Nat

(* What RefsMatch rests on: handles are of the watcher in the map, and no  *)
(* two have one id.                                                        *)
ServiceOK ==
  /\ watcherId \in Nat /\ watchers \in Seq(WatcherType) /\ current \in 0 .. Len(watchers)
  /\ IsFiniteSet(watcherHandles)
  /\ watcherHandles \subseteq [id : Nat, client : Client, watcher : DOMAIN watchers]
  /\ \A e \in watcherHandles : e.watcher = current /\ e.id < watcherId
  /\ \A d, e \in watcherHandles : d.id = e.id => d = e
  /\ RefsMatch

IInv == FrontendOK /\ HandleOK /\ RequestsOK /\ MessagesOK /\ RestOK /\ ServiceOK

LEMMA HandleFinite == IsFiniteSet(Handle)
<1>1. MaxConnections \in Nat /\ IsFiniteSet(Id) BY WatchingAssumption
<1>2. IsFiniteSet(1 .. MaxConnections) BY <1>1, FS_Interval
<1> QED BY <1>1, <1>2, FS_Product DEF Handle

LEMMA ClientOfType == ASSUME NEW h \in Handle PROVE ClientOf(h) \in Client
BY WatchingAssumption DEF Handle, Client, ClientOf

-----------------------------------------------------------------------------
(* Front ends and the back end: one lemma for each part.                   *)
LEMMA FrontendStep ==
  ASSUME FrontendOK, [Next]_vars PROVE FrontendOK'
<1> USE DEF FrontendOK
<1>0. CASE UNCHANGED frontend BY <1>0 DEF frontend
<1>1. ASSUME NEW i \in Id, Watch(i) PROVE FrontendOK'
  <2>1. Call("watch", i) \in CallType BY DEF Call, CallType
  <2>2. Owner[i] \in FrontEnd BY WatchingAssumption
  <2>3. Append(calls[Owner[i]], Call("watch", i)) \in Seq(CallType) BY <2>1, <2>2
  <2> QED BY <1>1, <2>3 DEF Watch
<1>2. ASSUME NEW i \in Id, Unwatch(i) PROVE FrontendOK'
  <2>1. Call("unwatch", i) \in CallType BY DEF Call, CallType
  <2>2. Owner[i] \in FrontEnd BY WatchingAssumption
  <2>3. Append(calls[Owner[i]], Call("unwatch", i)) \in Seq(CallType) BY <2>1, <2>2
  <2> QED BY <1>2, <2>3 DEF Unwatch
<1>3. ASSUME NEW f \in FrontEnd, Open(f) PROVE FrontendOK'
  <2>1. Rewatched(f) \subseteq Id BY DEF Rewatched
  <2>2. IsFiniteSet(Rewatched(f)) BY <2>1, WatchingAssumption, FS_Subset
  <2>3. PICK s \in SetToSeqs(Rewatched(f)) :
          calls' = [calls EXCEPT ![f] = @ \o [j \in DOMAIN s |-> Call("watch", s[j])]]
    BY <1>3 DEF Open
  <2>4. s \in Seq(Rewatched(f)) /\ DOMAIN s = 1 .. Len(s) BY <2>2, OrderIsSeq
  <2>5. \A j \in DOMAIN s : Call("watch", s[j]) \in CallType BY <2>1, <2>4 DEF Call, CallType
  <2>6. [j \in DOMAIN s |-> Call("watch", s[j])] \in Seq(CallType)
    <3>1. Len(s) \in Nat BY <2>4
    <3> QED BY <2>4, <2>5, <3>1
  <2>7. calls[f] \o [j \in DOMAIN s |-> Call("watch", s[j])] \in Seq(CallType) BY <2>6
  <2>8. connection[f] + 1 \in 0 .. MaxConnections BY <1>3, WatchingAssumption DEF Open
  <2> QED BY <1>3, <2>3, <2>7, <2>8 DEF Open
<1>4. ASSUME NEW f \in FrontEnd, Close(f) PROVE FrontendOK'
  <2>1. <<>> \in Seq(CallType) OBVIOUS
  <2> QED BY <1>4, <2>1 DEF Close
<1>5. ASSUME NEW f \in FrontEnd, ServeCall(f) PROVE FrontendOK'
  <2>1. Tail(calls[f]) \in Seq(CallType) BY <1>5 DEF ServeCall
  <2> QED BY <1>5, <2>1 DEF ServeCall
<1> QED BY <1>0, <1>1, <1>2, <1>3, <1>4, <1>5 DEF Next, vars, frontend, Unaffected, DisposeServer, ServeRequest,
      Receive, TimerFires, CheckPath, Created, Fails, Crash

LEMMA DisposedType ==
  ASSUME HandleOK, NEW h \in Handle PROVE Disposed(h) \in [stage : Stage, watcherId : Nat]
<1>1. handle[h] \in [stage : Stage, watcherId : Nat] BY DEF HandleOK
<1> QED BY <1>1 DEF Disposed, Stage

LEMMA UnwatchingType ==
  ASSUME HandleOK, NEW h \in Handle PROVE Unwatching(h) \in RequestType
<1>1. handle[h].watcherId \in Nat BY DEF HandleOK
<1> QED BY <1>1 DEF Unwatching, Request, RequestType

LEMMA CallHandle ==
  ASSUME FrontendOK, RestOK, NEW f \in FrontEnd, ServeCall(f)
  PROVE  <<Head(calls[f]).id, connection[f]>> \in Handle
<1>0. calls[f] \in Seq(CallType) /\ calls[f] # <<>> BY DEF ServeCall, FrontendOK
<1>1. Head(calls[f]).id \in Id
  <2>1. Head(calls[f]) \in CallType BY <1>0
  <2> QED BY <2>1 DEF CallType
<1>2. connection[f] \in 1 .. MaxConnections BY DEF ServeCall, RestOK, Client
<1> QED BY <1>1, <1>2 DEF Handle

LEMMA RestStep ==
  ASSUME FrontendOK, RestOK, MessagesOK, [Next]_vars PROVE RestOK'
<1> USE DEF RestOK
<1>1. ASSUME NEW f \in FrontEnd, Open(f) PROVE RestOK'
  <2>1. <<f, connection[f] + 1>> \in Client BY <1>1, WatchingAssumption DEF Open, FrontendOK, Client
  <2> QED BY <1>1, <2>1 DEF Open
<1>2. ASSUME NEW c \in Client, DisposeServer(c) PROVE RestOK' BY <1>2 DEF DisposeServer
<1>3. CASE Receive BY <1>3 DEF Receive
<1>4. CASE Crash BY <1>4 DEF Crash
<1>5. ASSUME NEW w \in DOMAIN watchers, Fails(w) PROVE RestOK' BY <1>5 DEF Fails, Unaffected
<1> QED BY <1>1, <1>2, <1>3, <1>4, <1>5 DEF Next, vars, Unaffected, Watch, Unwatch, Close, ServeCall, ServeRequest,
      TimerFires, CheckPath, Created

(* What arrives is of its type.                                            *)
LEMMA MessageHead ==
  ASSUME MessagesOK, messages # <<>>
  PROVE  Head(messages) \in MessageType /\ Tail(messages) \in Seq(MessageType)
BY DEF MessagesOK

LEMMA AnswerType ==
  ASSUME NEW m \in MessageType, m.kind # "error" PROVE m.handle \in Handle /\ m.watcherId \in Nat
BY DEF MessageType

LEMMA HandleStep ==
  ASSUME FrontendOK, RestOK, HandleOK, MessagesOK, [Next]_vars PROVE HandleOK'
<1>1. ASSUME NEW f \in FrontEnd, ServeCall(f) PROVE HandleOK'
  <2> DEFINE h == <<Head(calls[f]).id, connection[f]>>
  <2>1. h \in Handle BY <1>1, CallHandle
  <2>2. Disposed(h) \in [stage : Stage, watcherId : Nat] BY <2>1, DisposedType
  <2>3. handle' \in {handle, [handle EXCEPT ![h].stage = "requested"], [handle EXCEPT ![h] = Disposed(h)]}
    BY <1>1 DEF ServeCall
  <2> HIDE DEF h
  <2> QED BY <2>1, <2>2, <2>3 DEF HandleOK, Stage
<1>2. ASSUME NEW c \in Client, DisposeServer(c) PROVE HandleOK'
  <2>1. handle' = [h \in Handle |-> IF ClientOf(h) = c THEN Disposed(h) ELSE handle[h]] BY <1>2 DEF DisposeServer
  <2>2. \A h \in Handle : Disposed(h) \in [stage : Stage, watcherId : Nat] BY DisposedType
  <2> QED BY <2>1, <2>2 DEF HandleOK
<1>3. CASE Receive
  <2>1. Head(messages) \in MessageType BY <1>3, MessageHead DEF Receive
  <2>2. CASE Head(messages).kind = "error" BY <1>3, <2>2 DEF Receive, HandleOK
  <2>3. CASE Head(messages).kind # "error"
    <3>1. Head(messages).handle \in Handle /\ Head(messages).watcherId \in Nat BY <2>1, <2>3, AnswerType
    <3>2. PICK r \in [stage : Stage, watcherId : Nat] : handle' = [handle EXCEPT ![Head(messages).handle] = r]
      <4>1. \E t \in Stage : handle' = [handle EXCEPT ![Head(messages).handle] =
                                          [stage |-> t, watcherId |-> Head(messages).watcherId]]
        <5>1. CASE handle[Head(messages).handle].stage = "released" BY <1>3, <2>3, <5>1 DEF Receive, Stage
        <5>2. CASE handle[Head(messages).handle].stage # "released" BY <1>3, <2>3, <5>2 DEF Receive, Stage
        <5> QED BY <5>1, <5>2
      <4> QED BY <3>1, <4>1
    <3> QED BY <3>1, <3>2 DEF HandleOK
  <2> QED BY <2>2, <2>3
<1>4. CASE Crash
  <2>1. \A h \in Handle : [handle[h] EXCEPT !.stage = "failed"] \in [stage : Stage, watcherId : Nat]
    BY DEF HandleOK, Stage
  <2>2. handle' \in [Handle -> {handle[h] : h \in Handle} \cup {[handle[h] EXCEPT !.stage = "failed"] : h \in Handle}]
    BY <1>4 DEF Crash
  <2> QED BY <2>1, <2>2 DEF HandleOK
<1>5. CASE UNCHANGED handle BY <1>5 DEF HandleOK
<1> QED BY <1>1, <1>2, <1>3, <1>4, <1>5 DEF Next, vars, Unaffected, Watch, Unwatch, Open, Close, ServeRequest,
      TimerFires, CheckPath, Created, Fails

LEMMA WatchRequestType == ASSUME NEW h \in Handle PROVE Request("watch", h, 0) \in RequestType
BY DEF Request, RequestType

LEMMA RequestsStep ==
  ASSUME FrontendOK, RestOK, HandleOK, RequestsOK, MessagesOK, [Next]_vars PROVE RequestsOK'
<1> USE DEF RequestsOK
<1>1. ASSUME NEW f \in FrontEnd, ServeCall(f) PROVE RequestsOK'
  <2> DEFINE h == <<Head(calls[f]).id, connection[f]>>
  <2>1. h \in Handle BY <1>1, CallHandle
  <2>2. Unwatching(h) \in RequestType BY <2>1, UnwatchingType
  <2>3. Request("watch", h, 0) \in RequestType BY <2>1, WatchRequestType
  <2>4. requests' \in {requests, Append(requests, Request("watch", h, 0)), Append(requests, Unwatching(h))}
    BY <1>1 DEF ServeCall
  <2> HIDE DEF h
  <2> QED BY <2>2, <2>3, <2>4
<1>2. ASSUME NEW c \in Client, DisposeServer(c) PROVE RequestsOK'
  <2> DEFINE H == {h \in Handle : ClientOf(h) = c /\ handle[h].stage = "allocated"}
  <2>1. PICK s \in SetToSeqs(H) : requests' = requests \o [j \in DOMAIN s |-> Unwatching(s[j])]
    BY <1>2 DEF DisposeServer
  <2>2. IsFiniteSet(H) BY HandleFinite, FS_Subset
  <2>3. s \in Seq(H) /\ DOMAIN s = 1 .. Len(s) BY <2>2, OrderIsSeq
  <2>4. \A j \in DOMAIN s : s[j] \in Handle BY <2>3
  <2>5. \A j \in DOMAIN s : Unwatching(s[j]) \in RequestType BY <2>4, UnwatchingType
  <2>6. Len(s) \in Nat BY <2>3
  <2> HIDE DEF H
  <2>7. [j \in DOMAIN s |-> Unwatching(s[j])] \in Seq(RequestType) BY <2>3, <2>5, <2>6
  <2> QED BY <2>1, <2>7
<1>3. CASE Receive
  <2>1. Head(messages) \in MessageType BY <1>3, MessageHead DEF Receive
  <2>2. CASE Head(messages).kind = "error" BY <1>3, <2>2 DEF Receive
  <2>3. CASE Head(messages).kind # "error"
    <3>1. Head(messages).handle \in Handle /\ Head(messages).watcherId \in Nat BY <2>1, <2>3, AnswerType
    <3>2. Request("unwatch", Head(messages).handle, Head(messages).watcherId) \in RequestType
      BY <3>1 DEF Request, RequestType
    <3>3. requests' \in {requests, Append(requests, Request("unwatch", Head(messages).handle, Head(messages).watcherId))}
      BY <1>3, <2>3 DEF Receive
    <3> QED BY <3>2, <3>3
  <2> QED BY <2>2, <2>3
<1>4. CASE ServeRequest BY <1>4 DEF ServeRequest
<1>5. CASE Crash BY <1>5 DEF Crash
<1>6. CASE UNCHANGED requests BY <1>6
<1> QED BY <1>1, <1>2, <1>3, <1>4, <1>5, <1>6 DEF Next, vars, Unaffected, Watch, Unwatch, Open, Close,
      TimerFires, CheckPath, Created, Fails

LEMMA MessagesStep ==
  ASSUME RequestsOK, MessagesOK, ServiceOK, [Next]_vars PROVE MessagesOK'
<1> USE DEF MessagesOK
<1>1. CASE Receive BY <1>1 DEF Receive
<1>2. CASE ServeRequest
  <2>1. Head(requests) \in RequestType BY <1>2 DEF ServeRequest, RequestsOK
  <2>2. Answer(Head(requests).handle) \in MessageType BY <2>1 DEF RequestType, Answer, MessageType, ServiceOK
  <2>3. messages' \in {messages, Append(messages, Answer(Head(requests).handle))}
    BY <1>2 DEF ServeRequest, WatchFileChanges, UnwatchFileChanges
  <2> QED BY <2>2, <2>3
<1>3. ASSUME NEW w \in DOMAIN watchers, Fails(w) PROVE MessagesOK'
  <2>1. Failed(GetClientIds(w)) \in MessageType BY DEF Failed, GetClientIds, MessageType
  <2> QED BY <1>3, <2>1 DEF Fails, FireError
<1>4. CASE Crash BY <1>4 DEF Crash
<1>5. CASE UNCHANGED messages BY <1>5
<1> QED BY <1>1, <1>2, <1>3, <1>4, <1>5 DEF Next, vars, Unaffected, Watch, Unwatch, Open, Close, ServeCall,
      DisposeServer, TimerFires, CheckPath, Created

-----------------------------------------------------------------------------
(* The service: watchFileChanges, unwatchFileChanges and dispose keep      *)
(* references and handles matched.                                         *)
LEMMA HandlesFinite ==
  ASSUME ServiceOK, NEW w, NEW c PROVE IsFiniteSet(HandlesOf(w, c)) /\ Cardinality(HandlesOf(w, c)) \in Nat
<1>1. HandlesOf(w, c) \subseteq watcherHandles BY DEF HandlesOf
<1> QED BY <1>1, FS_Subset, FS_CardinalityType DEF ServiceOK

LEMMA WatchKeeps ==
  ASSUME ServiceOK, NEW h \in Handle, WatchFileChanges(h) PROVE ServiceOK'
<1>c. PICK c \in Client : c = ClientOf(h) BY ClientOfType
<1>w. PICK w : w = IF current = 0 THEN Len(watchers) + 1 ELSE current OBVIOUS
<1>n. PICK new : new = [id |-> watcherId, client |-> c, watcher |-> w] OBVIOUS
<1>1. /\ watchers' = IF current = 0 THEN Append(watchers, NewWatcher(c)) ELSE [watchers EXCEPT ![current] = AddRef(c)]
      /\ current' = w /\ watcherHandles' = watcherHandles \cup {new} /\ watcherId' = watcherId + 1
  BY <1>c, <1>w, <1>n DEF WatchFileChanges
<1>2. new \notin watcherHandles BY <1>n DEF ServiceOK
<1>3. IsFiniteSet(watcherHandles') BY <1>1, FS_AddElement DEF ServiceOK
<1>4. \A d \in Client : HandlesOf(w, d)' = IF d = c THEN HandlesOf(w, d) \cup {new} ELSE HandlesOf(w, d)
  BY <1>1, <1>n DEF HandlesOf
<1>5. \A d \in Client : Cardinality(HandlesOf(w, d)') =
                          IF d = c THEN Cardinality(HandlesOf(w, d)) + 1 ELSE Cardinality(HandlesOf(w, d))
  <2>1. TAKE d \in Client
  <2>2. new \notin HandlesOf(w, d) BY <1>2 DEF HandlesOf
  <2>3. IsFiniteSet(HandlesOf(w, d)) BY HandlesFinite
  <2> QED BY <1>4, <2>2, <2>3, FS_AddElement
<1>6. CASE current = 0
  <2>1. NewWatcher(c) \in WatcherType BY <1>c DEF NewWatcher, WatcherType
  <2>2. watchers' \in Seq(WatcherType) /\ Len(watchers') = Len(watchers) + 1 /\ w = Len(watchers) + 1
    BY <1>1, <1>w, <1>6, <2>1 DEF ServiceOK
  <2>3. watcherHandles = {} BY <1>6 DEF ServiceOK
  <2>4. \A d \in Client : Cardinality(HandlesOf(w, d)) = 0
    <3>1. \A d \in Client : HandlesOf(w, d) = {} BY <2>3 DEF HandlesOf
    <3> QED BY <3>1, FS_EmptySet
  <2>5. watchers'[w] = NewWatcher(c) BY <1>1, <1>6, <2>2 DEF ServiceOK
  <2>6. \A v \in DOMAIN watchers : watchers'[v] = watchers[v] /\ v # w BY <1>1, <1>6, <2>2 DEF ServiceOK
  <2>7. DOMAIN watchers' = DOMAIN watchers \cup {w} BY <1>1, <1>6, <2>2 DEF ServiceOK
  <2>8. GetClientIds(w)' = {c} BY <1>c, <2>5 DEF GetClientIds, NewWatcher
  <2>9. \A d \in Client : watchers'[w].refs[d] = Cardinality(HandlesOf(w, d)')
    BY <1>5, <2>4, <2>5 DEF NewWatcher
  <2>10. \A v \in DOMAIN watchers : watchers[v].disposed BY <1>6 DEF ServiceOK, RefsMatch
  <2>11. ~ watchers'[w].disposed /\ ~ watchers'[w].timer BY <2>5 DEF NewWatcher
  <2>12. RefsMatch' BY <1>1, <2>6, <2>7, <2>8, <2>9, <2>10, <2>11 DEF RefsMatch
  <2>13. watcherHandles' = {new} /\ new \in [id : Nat, client : Client, watcher : DOMAIN watchers']
    BY <1>1, <1>n, <2>3, <2>7 DEF ServiceOK
  <2>14. current' \in 0 .. Len(watchers') BY <1>1, <2>2 DEF ServiceOK
  <2>15. new.watcher = current' /\ new.id < watcherId' BY <1>1, <1>n DEF ServiceOK
  <2>16. watcherId' \in Nat BY <1>1 DEF ServiceOK
  <2> QED BY <1>3, <2>2, <2>12, <2>13, <2>14, <2>15, <2>16 DEF ServiceOK
<1>7. CASE current # 0
  <2>0. w = current /\ current \in DOMAIN watchers BY <1>w, <1>7 DEF ServiceOK
  <2>1. watchers[current] \in WatcherType BY <2>0 DEF ServiceOK
  <2>2. AddRef(c) \in WatcherType
    <3>1. [watchers[current].refs EXCEPT ![c] = @ + 1] \in [Client -> Nat] BY <1>c, <2>1 DEF WatcherType
    <3>2. (watchers[current].timer /\ GetClientIds(current) # {}) \in BOOLEAN OBVIOUS
    <3>3. AddRef(c) = [watchers[current] EXCEPT !.refs = [watchers[current].refs EXCEPT ![c] = @ + 1],
                         !.timer = (watchers[current].timer /\ GetClientIds(current) # {})]
      BY DEF AddRef
    <3> HIDE DEF GetClientIds
    <3> QED BY <2>1, <3>1, <3>2, <3>3, Zenon DEF WatcherType
  <2>3. watchers' = [watchers EXCEPT ![current] = AddRef(c)] BY <1>1, <1>7
  <2>4. watchers' \in Seq(WatcherType) /\ Len(watchers') = Len(watchers) BY <2>0, <2>2, <2>3 DEF ServiceOK
  <2>5. DOMAIN watchers' = DOMAIN watchers BY <2>3
  <2>6. watchers'[current] = AddRef(c) BY <2>0, <2>3 DEF ServiceOK
  <2>7. \A d \in Client : watchers'[current].refs[d] =
                            IF d = c THEN watchers[current].refs[d] + 1 ELSE watchers[current].refs[d]
    BY <1>c, <2>1, <2>6 DEF AddRef, WatcherType
  <2>8. \A d \in Client : watchers'[current].refs[d] = Cardinality(HandlesOf(w, d)')
    BY <1>5, <2>0, <2>7 DEF ServiceOK, RefsMatch
  <2>9. watchers'[current].timer = (watchers[current].timer /\ GetClientIds(current) # {}) BY <2>1, <2>6 DEF AddRef, WatcherType
  <2>10. watchers'[current].disposed = watchers[current].disposed BY <2>1, <2>6 DEF AddRef, WatcherType
  <2>11. watchers[current].timer <=> GetClientIds(current) = {} BY <2>0 DEF ServiceOK, RefsMatch
  <2>12. c \in GetClientIds(w)'
    <3>1. watchers[current].refs[c] \in Nat BY <1>c, <2>1 DEF WatcherType
    <3> QED BY <1>c, <2>0, <2>7, <3>1 DEF GetClientIds
  <2>13. \A v \in DOMAIN watchers : v # current => watchers'[v] = watchers[v] BY <2>3
  <2>14. RefsMatch'
    <3>1. SUFFICES ASSUME NEW v \in DOMAIN watchers
                   PROVE  /\ watchers'[v].disposed <=> v # current
                          /\ v = current =>
                               /\ \A d \in Client : watchers'[v].refs[d] = Cardinality(HandlesOf(v, d)')
                               /\ watchers'[v].timer <=> GetClientIds(v)' = {}
      BY <1>1, <2>0, <2>5 DEF RefsMatch
    <3>2. CASE v = current
      <4>1. ~ watchers'[v].timer BY <3>2, <2>9, <2>11
      <4> QED BY <2>0, <2>8, <2>10, <2>12, <3>2, <4>1 DEF ServiceOK, RefsMatch
    <3>3. CASE v # current BY <2>13, <3>3 DEF ServiceOK, RefsMatch
    <3> QED BY <3>2, <3>3
  <2>15. new \in [id : Nat, client : Client, watcher : DOMAIN watchers'] BY <1>n, <2>0, <2>5 DEF ServiceOK
  <2>16. current' \in 0 .. Len(watchers') /\ current' = current BY <1>1, <2>0, <2>4 DEF ServiceOK
  <2>17. watcherHandles' \subseteq [id : Nat, client : Client, watcher : DOMAIN watchers']
    BY <1>1, <2>5, <2>15 DEF ServiceOK
  <2>18. /\ \A e \in watcherHandles' : e.watcher = current' /\ e.id < watcherId'
         /\ \A d, e \in watcherHandles' : d.id = e.id => d = e
    BY <1>1, <1>n, <2>0, <2>16 DEF ServiceOK
  <2> QED BY <1>1, <1>3, <2>4, <2>14, <2>16, <2>17, <2>18 DEF ServiceOK
<1> QED BY <1>6, <1>7

LEMMA UnwatchKeeps ==
  ASSUME ServiceOK, NEW n, UnwatchFileChanges(n) PROVE ServiceOK'
<1>1. CASE UNCHANGED <<watchers, watcherHandles>>
  BY <1>1 DEF UnwatchFileChanges, ServiceOK, RefsMatch, HandlesOf, GetClientIds
<1>2. CASE ~ UNCHANGED <<watchers, watcherHandles>>
  <2>1. PICK e \in watcherHandles : watcherHandles' = watcherHandles \ {e} /\ watchers' = [watchers EXCEPT ![e.watcher] = RemoveRef(e)]
    BY <1>2 DEF UnwatchFileChanges
  <2>2. PICK c \in Client, w \in DOMAIN watchers : e.client = c /\ e.watcher = w /\ w = current
    BY <2>1 DEF ServiceOK
  <2>3. watchers[w] \in WatcherType BY <2>2 DEF ServiceOK
  <2>4. UNCHANGED <<watcherId, current>> BY DEF UnwatchFileChanges
  <2>5. IsFiniteSet(watcherHandles') BY <2>1, FS_RemoveElement DEF ServiceOK
  <2>6. \A d \in Client : HandlesOf(w, d)' = IF d = c THEN HandlesOf(w, d) \ {e} ELSE HandlesOf(w, d)
    BY <2>1, <2>2 DEF HandlesOf
  <2>7. e \in HandlesOf(w, c) BY <2>1, <2>2 DEF HandlesOf
  <2>8. \A d \in Client : IsFiniteSet(HandlesOf(w, d)) /\ Cardinality(HandlesOf(w, d)) \in Nat BY HandlesFinite
  <2>9. \A d \in Client : Cardinality(HandlesOf(w, d)') =
                            IF d = c THEN Cardinality(HandlesOf(w, d)) - 1 ELSE Cardinality(HandlesOf(w, d))
    BY <2>6, <2>7, <2>8, FS_RemoveElement
  <2>10. Cardinality(HandlesOf(w, c)) # 0 BY <2>7, <2>8, FS_EmptySet
  <2>11. \A d \in Client : watchers[w].refs[d] = Cardinality(HandlesOf(w, d)) BY <2>2 DEF ServiceOK, RefsMatch
  <2>12. watchers[w].timer <=> GetClientIds(w) = {} BY <2>2 DEF ServiceOK, RefsMatch
  <2>13. watchers[w].refs[c] \in Nat \ {0} BY <2>8, <2>10, <2>11
  <2>14. c \in GetClientIds(w) BY <2>13 DEF GetClientIds
  <2>15. ~ watchers[w].timer BY <2>12, <2>14
  <2>16. watchers' = [watchers EXCEPT ![w] = RemoveRef(e)] BY <2>1, <2>2
  <2>17. RemoveRef(e) = [watchers[w] EXCEPT !.refs = [watchers[w].refs EXCEPT ![c] = @ - 1],
             !.timer = (watchers[w].timer \/ (GetClientIds(w) = {c} /\ watchers[w].refs[c] = 1))]
    BY <2>2 DEF RemoveRef
  <2>18. RemoveRef(e) \in WatcherType
    <3>1. [watchers[w].refs EXCEPT ![c] = @ - 1] \in [Client -> Nat] BY <2>3, <2>13 DEF WatcherType
    <3>2. (watchers[w].timer \/ (GetClientIds(w) = {c} /\ watchers[w].refs[c] = 1)) \in BOOLEAN BY <2>15
    <3> QED BY <2>3, <2>17, <3>1, <3>2, Zenon DEF WatcherType
  <2>19. watchers' \in Seq(WatcherType) /\ Len(watchers') = Len(watchers) /\ DOMAIN watchers' = DOMAIN watchers
    BY <2>2, <2>16, <2>18 DEF ServiceOK
  <2>20. watchers'[w] = RemoveRef(e) /\ \A v \in DOMAIN watchers : v # w => watchers'[v] = watchers[v]
    BY <2>2, <2>16 DEF ServiceOK
  <2>21. \A d \in Client : watchers'[w].refs[d] = IF d = c THEN watchers[w].refs[d] - 1 ELSE watchers[w].refs[d]
    BY <2>3, <2>17, <2>20 DEF WatcherType
  <2>22. watchers'[w].disposed = watchers[w].disposed BY <2>3, <2>17, <2>20 DEF WatcherType
  <2>23. watchers'[w].timer <=> GetClientIds(w) = {c} /\ watchers[w].refs[c] = 1
    BY <2>3, <2>15, <2>17, <2>20 DEF WatcherType
  <2>24. GetClientIds(w)' = {} <=> GetClientIds(w) = {c} /\ watchers[w].refs[c] = 1
    <3>1. \A d \in Client : watchers[w].refs[d] \in Nat BY <2>3 DEF WatcherType
    <3>2. GetClientIds(w)' = {} <=> \A d \in Client : ~ (watchers'[w].refs[d] > 0) BY DEF GetClientIds
    <3>3. GetClientIds(w) = {c} <=> \A d \in Client : d # c => ~ (watchers[w].refs[d] > 0) BY <2>14 DEF GetClientIds
    <3> QED BY <2>13, <2>21, <3>1, <3>2, <3>3
  <2>25. RefsMatch'
    <3>1. SUFFICES ASSUME NEW v \in DOMAIN watchers
                   PROVE  /\ watchers'[v].disposed <=> v # current
                          /\ v = current =>
                               /\ \A d \in Client : watchers'[v].refs[d] = Cardinality(HandlesOf(v, d)')
                               /\ watchers'[v].timer <=> GetClientIds(v)' = {}
      BY <2>4, <2>19 DEF RefsMatch
    <3>2. CASE v = w
      <4>1. \A d \in Client : watchers'[v].refs[d] = Cardinality(HandlesOf(v, d)') BY <2>9, <2>11, <2>21, <3>2
      <4> QED BY <2>2, <2>22, <2>23, <2>24, <3>2, <4>1 DEF ServiceOK, RefsMatch
    <3>3. CASE v # w BY <2>2, <2>20, <3>3 DEF ServiceOK, RefsMatch
    <3> QED BY <3>2, <3>3
  <2> QED BY <2>1, <2>4, <2>5, <2>19, <2>25 DEF ServiceOK
<1> QED BY <1>1, <1>2

(* A step of a watcher that leaves its references, its timer and whether   *)
(* it is disposed.                                                         *)
LEMMA StageKeeps ==
  ASSUME ServiceOK, NEW w \in DOMAIN watchers, NEW r \in WatcherType,
         r.refs = watchers[w].refs, r.timer = watchers[w].timer, r.disposed = watchers[w].disposed,
         watchers' = [watchers EXCEPT ![w] = r], UNCHANGED <<watcherId, watcherHandles, current>>
  PROVE  ServiceOK'
<1>1. watchers' \in Seq(WatcherType) /\ Len(watchers') = Len(watchers) /\ DOMAIN watchers' = DOMAIN watchers BY DEF ServiceOK
<1>2. \A v \in DOMAIN watchers : /\ watchers'[v].refs = watchers[v].refs /\ watchers'[v].timer = watchers[v].timer
                                 /\ watchers'[v].disposed = watchers[v].disposed
  BY DEF ServiceOK
<1>3. \A v \in DOMAIN watchers : GetClientIds(v)' = GetClientIds(v) BY <1>2 DEF GetClientIds
<1>4. \A v, d : HandlesOf(v, d)' = HandlesOf(v, d) BY DEF HandlesOf
<1>5. RefsMatch' BY <1>1, <1>2, <1>3, <1>4 DEF RefsMatch, ServiceOK
<1> QED BY <1>1, <1>5 DEF ServiceOK

LEMMA DisposeKeeps ==
  ASSUME ServiceOK, NEW w \in DOMAIN watchers, ~ watchers[w].disposed, UNCHANGED watcherId,
         NEW s \in {"waiting", "creating", "started", "ended"}, Dispose(w, s)
  PROVE  ServiceOK'
<1>1. w = current BY DEF ServiceOK, RefsMatch
<1>2. watcherHandles' = {} BY <1>1 DEF Dispose, ServiceOK
<1>3. current' = 0 BY <1>1 DEF Dispose
<1>4. watchers[w] \in WatcherType BY DEF ServiceOK
<1>5. [watchers[w] EXCEPT !.stage = s, !.disposed = TRUE, !.native = @ /\ watchers[w].stage # "started"] \in WatcherType
  <2>1. (watchers[w].native /\ watchers[w].stage # "started") \in BOOLEAN OBVIOUS
  <2> QED BY <1>4, <2>1, Zenon DEF WatcherType
<1>6. PICK r \in WatcherType : r.disposed = TRUE /\ watchers' = [watchers EXCEPT ![w] = r]
  <2>1. watchers' = [watchers EXCEPT ![w] = [watchers[w] EXCEPT !.stage = s, !.disposed = TRUE,
                                                !.native = @ /\ watchers[w].stage # "started"]]
    BY <1>4 DEF Dispose, ServiceOK
  <2> QED BY <1>4, <1>5, <2>1 DEF WatcherType
<1>7. watchers' \in Seq(WatcherType) /\ Len(watchers') = Len(watchers) /\ DOMAIN watchers' = DOMAIN watchers
  BY <1>6 DEF ServiceOK
<1>8. \A v \in DOMAIN watchers : watchers'[v].disposed /\ v # 0 BY <1>1, <1>6 DEF ServiceOK, RefsMatch
<1>9. RefsMatch' BY <1>3, <1>7, <1>8 DEF RefsMatch
<1>10. IsFiniteSet(watcherHandles') BY <1>2, FS_EmptySet
<1> QED BY <1>2, <1>3, <1>7, <1>9, <1>10 DEF ServiceOK

LEMMA ServiceStep ==
  ASSUME RequestsOK, ServiceOK, [Next]_vars PROVE ServiceOK'
<1>1. CASE ServeRequest
  <2>1. Head(requests) \in RequestType BY <1>1 DEF ServeRequest, RequestsOK
  <2>2. Head(requests).handle \in Handle BY <2>1 DEF RequestType
  <2> QED BY <1>1, <2>2, WatchKeeps, UnwatchKeeps DEF ServeRequest
<1>2. ASSUME NEW w \in DOMAIN watchers, TimerFires(w) PROVE ServiceOK'
  <2>0. watchers[w] \in WatcherType BY DEF ServiceOK
  <2>1. watchers[w].stage \in {"waiting", "creating", "started", "ended"} BY <2>0 DEF WatcherType
  <2> QED BY <1>2, <2>1, DisposeKeeps DEF TimerFires, Unaffected
<1>3. ASSUME NEW w \in DOMAIN watchers, CheckPath(w) \/ Created(w) \/ (Fails(w) /\ watchers[w].disposed) PROVE ServiceOK'
  <2>1. watchers[w] \in WatcherType BY DEF ServiceOK
  <2>2. PICK s \in {"creating", "ended", "started"}, n \in BOOLEAN :
          watchers' = [watchers EXCEPT ![w] = [watchers[w] EXCEPT !.stage = s, !.native = n]]
    <3>1. watchers[w].native \in BOOLEAN BY <2>1 DEF WatcherType
    <3>2. CASE CheckPath(w)
      <4>1. PICK s \in {"creating", "ended"} : watchers' = [watchers EXCEPT ![w].stage = s]
        BY <3>2 DEF CheckPath
      <4>2. [watchers[w] EXCEPT !.stage = s] = [watchers[w] EXCEPT !.stage = s, !.native = watchers[w].native]
        BY <2>1 DEF WatcherType
      <4> QED BY <3>1, <4>1, <4>2
    <3>3. CASE Created(w)
      <4>1. PICK s \in {"started", "ended"} : watchers' = [watchers EXCEPT ![w].stage = s, ![w].native = TRUE]
        BY <3>3 DEF Created
      <4> QED BY <2>1, <4>1 DEF ServiceOK
    <3>4. CASE Fails(w) /\ watchers[w].disposed
      <4>1. watchers' = [watchers EXCEPT ![w].stage = "ended"] BY <3>4 DEF Fails
      <4>2. [watchers[w] EXCEPT !.stage = "ended"] = [watchers[w] EXCEPT !.stage = "ended", !.native = watchers[w].native]
        BY <2>1 DEF WatcherType
      <4> QED BY <3>1, <4>1, <4>2
    <3> QED BY <1>3, <3>2, <3>3, <3>4
  <2>3. [watchers[w] EXCEPT !.stage = s, !.native = n] \in WatcherType BY <2>1 DEF WatcherType
  <2>4. UNCHANGED <<watcherId, watcherHandles, current>> BY <1>3 DEF CheckPath, Created, Fails, Unaffected
  <2> QED BY <2>1, <2>2, <2>3, <2>4, StageKeeps DEF WatcherType
<1>4. ASSUME NEW w \in DOMAIN watchers, Fails(w), ~ watchers[w].disposed PROVE ServiceOK'
  BY <1>4, DisposeKeeps DEF Fails, Unaffected
<1>5. CASE Crash
  <2>1. watcherId' = 0 /\ watcherHandles' = {} /\ watchers' = <<>> /\ current' = 0 BY <1>5 DEF Crash
  <2>2. RefsMatch' BY <2>1 DEF RefsMatch
  <2> QED BY <2>1, <2>2, FS_EmptySet DEF ServiceOK
<1>6. CASE UNCHANGED service
  BY <1>6 DEF service, ServiceOK, RefsMatch, HandlesOf, GetClientIds
<1> QED BY <1>1, <1>2, <1>3, <1>4, <1>5, <1>6 DEF Next, vars, Watch, Unwatch, Open, Close, ServeCall, DisposeServer, Receive

-----------------------------------------------------------------------------
(* The inductive invariant: types, and the references of the service.      *)
THEOREM AlwaysIInv == Spec => []IInv
<1>1. Init => IInv
  <2> SUFFICES ASSUME Init PROVE IInv OBVIOUS
  <2>1. FrontendOK BY WatchingAssumption DEF Init, FrontendOK
  <2>2. HandleOK BY DEF Init, HandleOK, Stage
  <2>3. RequestsOK /\ MessagesOK /\ RestOK BY DEF Init, RequestsOK, MessagesOK, RestOK
  <2>4. RefsMatch BY DEF Init, RefsMatch
  <2>5. ServiceOK BY <2>4, FS_EmptySet DEF Init, ServiceOK
  <2> QED BY <2>1, <2>2, <2>3, <2>5 DEF IInv
<1>2. IInv /\ [Next]_vars => IInv'
  BY FrontendStep, HandleStep, RequestsStep, MessagesStep, RestStep, ServiceStep DEF IInv
<1> QED BY <1>1, <1>2, PTL DEF Spec

(* Every variable keeps its type.                                          *)
THEOREM TypeCorrect == Spec => []TypeOK
<1>1. IInv => TypeOK
  BY DEF IInv, TypeOK, FrontendOK, HandleOK, RequestsOK, MessagesOK, RestOK, ServiceOK, CallType, RequestType,
         MessageType, WatcherType
<1> QED BY <1>1, AlwaysIInv, PTL

(* The references of a watcher are the handles of its clients, and its     *)
(* timer runs exactly when there are none, for any interleaving of         *)
(* requests, timers, failures and exits: no watcher in use is discarded,   *)
(* and none out of use escapes.                                            *)
THEOREM RefsStayMatched == Spec => []RefsMatch
<1>1. IInv => RefsMatch BY DEF IInv, ServiceOK
<1> QED BY <1>1, AlwaysIInv, PTL

-----------------------------------------------------------------------------
(* What a queue holds of a set, and how a step changes it.                 *)
Holds(q, S) == \E n \in DOMAIN q : q[n] \in S
HoldsOnce(q, S) == \A m, n \in DOMAIN q : q[m] \in S /\ q[n] \in S => m = n

(* Taking the first off leaves the others.                                 *)
LEMMA TailHolds ==
  ASSUME NEW T, NEW S, NEW q \in Seq(T), q # <<>>
  PROVE  /\ Holds(Tail(q), S) => Holds(q, S)
         /\ Holds(q, S) => Head(q) \in S \/ Holds(Tail(q), S)
         /\ HoldsOnce(q, S) => HoldsOnce(Tail(q), S)
         /\ HoldsOnce(q, S) /\ Head(q) \in S => ~ Holds(Tail(q), S)
         /\ Head(q) \in S => Holds(q, S)
<1>1. \A n \in DOMAIN Tail(q) : n + 1 \in DOMAIN q /\ n + 1 # 1 /\ Tail(q)[n] = q[n + 1] OBVIOUS
<1>2. 1 \in DOMAIN q /\ q[1] = Head(q) OBVIOUS
<1>3. \A n \in DOMAIN q : n # 1 => n - 1 \in DOMAIN Tail(q) /\ Tail(q)[n - 1] = q[n] OBVIOUS
<1>4. \A m, n \in DOMAIN Tail(q) : m + 1 = n + 1 => m = n OBVIOUS
<1> QED BY <1>1, <1>2, <1>3, <1>4 DEF Holds, HoldsOnce

(* Appending adds what is appended.                                        *)
LEMMA AppendHolds ==
  ASSUME NEW T, NEW S, NEW q \in Seq(T), NEW x
  PROVE  /\ Holds(Append(q, x), S) <=> Holds(q, S) \/ x \in S
         /\ HoldsOnce(q, S) /\ (x \in S => ~ Holds(q, S)) => HoldsOnce(Append(q, x), S)
<1>1. /\ DOMAIN Append(q, x) = DOMAIN q \cup {Len(q) + 1} /\ Len(q) + 1 \notin DOMAIN q
      /\ Append(q, x)[Len(q) + 1] = x /\ \A n \in DOMAIN q : Append(q, x)[n] = q[n]
  OBVIOUS
<1> QED BY <1>1 DEF Holds, HoldsOnce

(* So does a concatenation.                                                *)
LEMMA ConcatHolds ==
  ASSUME NEW T, NEW S, NEW q \in Seq(T), NEW r \in Seq(T)
  PROVE  /\ Holds(q \o r, S) <=> Holds(q, S) \/ Holds(r, S)
         /\ HoldsOnce(q, S) /\ ~ Holds(r, S) => HoldsOnce(q \o r, S)
<1>1. \A n \in DOMAIN q : n \in DOMAIN (q \o r) /\ (q \o r)[n] = q[n] OBVIOUS
<1>2. \A n \in DOMAIN r : Len(q) + n \in DOMAIN (q \o r) /\ (q \o r)[Len(q) + n] = r[n] OBVIOUS
<1>3. \A n \in DOMAIN (q \o r) : \/ n \in DOMAIN q /\ (q \o r)[n] = q[n]
                                 \/ n - Len(q) \in DOMAIN r /\ (q \o r)[n] = r[n - Len(q)]
  OBVIOUS
<1> QED BY <1>1, <1>2, <1>3 DEF Holds, HoldsOnce

-----------------------------------------------------------------------------
(* Who owns what: a call of watchFileChanges is a request, then an answer,  *)
(* there once, and a handle waits for it; a handle that waits without being *)
(* disposed, or has its answer, is of a client that is there.              *)
AsksOf(h) == {r \in RequestType : r.op = "watch" /\ r.handle = h}
AnswersOf(h) == {m \in MessageType : m.kind = "answer" /\ m.handle = h}
OwnCall(f) == {c \in CallType : Owner[c.id] = f}

CallsOfOwner == \A f \in FrontEnd : calls[f] \in Seq(OwnCall(f))

ServedOK ==
  \A h \in Handle : handle[h].stage \in {"requested", "allocated"} => ClientOf(h) \in serving

WaitingOK ==
  \A h \in Handle :
    /\ Holds(requests, AsksOf(h)) \/ Holds(messages, AnswersOf(h)) => handle[h].stage \in {"requested", "released"}
    /\ HoldsOnce(requests, AsksOf(h)) /\ HoldsOnce(messages, AnswersOf(h))
    /\ ~ (Holds(requests, AsksOf(h)) /\ Holds(messages, AnswersOf(h)))

OwnersOK == CallsOfOwner /\ ServedOK /\ WaitingOK

(* A front end calls for its own watches.                                  *)
LEMMA CallsStep ==
  ASSUME FrontendOK, CallsOfOwner, [Next]_vars PROVE CallsOfOwner'
<1> USE DEF CallsOfOwner
<1>d. calls \in [FrontEnd -> Seq(CallType)] BY DEF FrontendOK
<1>1. ASSUME NEW i \in Id, NEW op \in {"watch", "unwatch"},
             calls' = [calls EXCEPT ![Owner[i]] = Append(@, Call(op, i))]
      PROVE  CallsOfOwner'
  <2>1. Owner[i] \in FrontEnd BY WatchingAssumption
  <2>2. Call(op, i) \in OwnCall(Owner[i]) BY DEF Call, CallType, OwnCall
  <2> QED BY <1>d, <1>1, <2>1, <2>2
<1>2. ASSUME NEW f \in FrontEnd, Open(f) PROVE CallsOfOwner'
  <2>1. Rewatched(f) \subseteq Id /\ \A i \in Rewatched(f) : Owner[i] = f BY DEF Rewatched, FrontendOK
  <2>2. IsFiniteSet(Rewatched(f)) BY <2>1, WatchingAssumption, FS_Subset
  <2>3. PICK s \in SetToSeqs(Rewatched(f)) :
          calls' = [calls EXCEPT ![f] = @ \o [n \in DOMAIN s |-> Call("watch", s[n])]]
    BY <1>2 DEF Open
  <2>4. s \in Seq(Rewatched(f)) /\ DOMAIN s = 1 .. Len(s) BY <2>2, OrderIsSeq
  <2>5. \A n \in DOMAIN s : Call("watch", s[n]) \in OwnCall(f) BY <2>1, <2>4 DEF Call, CallType, OwnCall
  <2>6. [n \in DOMAIN s |-> Call("watch", s[n])] \in Seq(OwnCall(f))
    <3>1. Len(s) \in Nat BY <2>4
    <3> QED BY <2>4, <2>5, <3>1
  <2>7. calls[f] \o [n \in DOMAIN s |-> Call("watch", s[n])] \in Seq(OwnCall(f)) BY <2>6
  <2> QED BY <1>d, <2>3, <2>7
<1>3. ASSUME NEW f \in FrontEnd, Close(f) PROVE CallsOfOwner'
  <2>1. <<>> \in Seq(OwnCall(f)) OBVIOUS
  <2> QED BY <1>d, <1>3, <2>1 DEF Close
<1>4. ASSUME NEW f \in FrontEnd, ServeCall(f) PROVE CallsOfOwner'
  <2>1. Tail(calls[f]) \in Seq(OwnCall(f)) BY <1>4 DEF ServeCall
  <2> QED BY <1>d, <1>4, <2>1 DEF ServeCall
<1>5. CASE UNCHANGED calls BY <1>5
<1> QED BY <1>1, <1>2, <1>3, <1>4, <1>5 DEF Next, vars, frontend, Watch, Unwatch, Unaffected, DisposeServer,
      ServeRequest, Receive, TimerFires, CheckPath, Created, Fails, Crash

(* The handle of a call is of the client that serves it.                   *)
LEMMA CallClient ==
  ASSUME FrontendOK, RestOK, CallsOfOwner, NEW f \in FrontEnd, ServeCall(f)
  PROVE  ClientOf(<<Head(calls[f]).id, connection[f]>>) \in serving
<1>1. Head(calls[f]) \in OwnCall(f) BY DEF ServeCall, CallsOfOwner
<1>2. <<f, connection[f]>> \in serving BY DEF ServeCall
<1> QED BY <1>1, <1>2 DEF OwnCall, ClientOf

(* What an unwatch is.                                                     *)
LEMMA NoAsk ==
  ASSUME NEW g, NEW w, NEW h PROVE Request("unwatch", g, w) \notin AsksOf(h)
BY DEF Request, AsksOf

(* The calls a server gets.                                                *)
LEMMA ServeCallOwners ==
  ASSUME IInv, OwnersOK, NEW f \in FrontEnd, ServeCall(f) PROVE (ServedOK /\ WaitingOK)'
<1> DEFINE h == <<Head(calls[f]).id, connection[f]>>
<1> USE DEF OwnersOK
<1>1. h \in Handle /\ ClientOf(h) \in serving BY CallHandle, CallClient DEF IInv
<1>2. serving' = serving /\ messages' = messages BY DEF ServeCall
<1>3. requests \in Seq(RequestType) /\ handle \in [Handle -> [stage : Stage, watcherId : Nat]] BY DEF IInv, RequestsOK, HandleOK
<1>4. \/ /\ handle[h].stage = "none" /\ handle' = [handle EXCEPT ![h].stage = "requested"]
         /\ requests' = Append(requests, Request("watch", h, 0))
      \/ /\ handle' = [handle EXCEPT ![h] = Disposed(h)]
         /\ requests' \in {requests, Append(requests, Unwatching(h))}
      \/ UNCHANGED <<handle, requests>>
  BY DEF ServeCall
<1> HIDE DEF h
<1>5. CASE UNCHANGED <<handle, requests>> BY <1>2, <1>5 DEF ServedOK, WaitingOK
<1>6. CASE /\ handle[h].stage = "none" /\ handle' = [handle EXCEPT ![h].stage = "requested"]
           /\ requests' = Append(requests, Request("watch", h, 0))
  <2>1. ServedOK' BY <1>1, <1>2, <1>3, <1>6 DEF ServedOK
  <2>2. ~ Holds(requests, AsksOf(h)) /\ ~ Holds(messages, AnswersOf(h)) BY <1>1, <1>6 DEF WaitingOK
  <2>3. \A g \in Handle : g # h => Request("watch", h, 0) \notin AsksOf(g) BY DEF Request, AsksOf
  <2>4. ASSUME NEW g \in Handle
        PROVE  /\ Holds(requests', AsksOf(g)) <=> Holds(requests, AsksOf(g)) \/ Request("watch", h, 0) \in AsksOf(g)
               /\ HoldsOnce(requests', AsksOf(g))
    BY <1>3, <1>6, <2>2, <2>3, AppendHolds DEF WaitingOK
  <2>5. \A g \in Handle : handle'[g].stage = IF g = h THEN "requested" ELSE handle[g].stage BY <1>1, <1>3, <1>6
  <2> QED BY <1>2, <2>1, <2>2, <2>3, <2>4, <2>5 DEF WaitingOK
<1>7. CASE /\ handle' = [handle EXCEPT ![h] = Disposed(h)]
           /\ requests' \in {requests, Append(requests, Unwatching(h))}
  <2>1. \A g \in Handle : /\ handle'[g].stage \in {"requested", "allocated"} => handle'[g].stage = handle[g].stage
                          /\ handle[g].stage \in {"requested", "released"} => handle'[g].stage \in {"requested", "released"}
    BY <1>1, <1>3, <1>7 DEF Disposed
  <2>2. ASSUME NEW g \in Handle
        PROVE  /\ Holds(requests', AsksOf(g)) <=> Holds(requests, AsksOf(g))
               /\ HoldsOnce(requests', AsksOf(g))
    <3>1. Unwatching(h) \notin AsksOf(g) BY NoAsk DEF Unwatching
    <3>2. HoldsOnce(requests, AsksOf(g)) BY DEF WaitingOK
    <3>3. /\ Holds(Append(requests, Unwatching(h)), AsksOf(g)) <=> Holds(requests, AsksOf(g))
          /\ HoldsOnce(Append(requests, Unwatching(h)), AsksOf(g))
      BY <1>3, <3>1, <3>2, AppendHolds
    <3> QED BY <1>7, <3>2, <3>3
  <2> QED BY <1>2, <2>1, <2>2 DEF ServedOK, WaitingOK
<1> QED BY <1>4, <1>5, <1>6, <1>7

(* Every member of a finite set is in an order of it.                      *)
LEMMA OrderCovers ==
  ASSUME NEW S, IsFiniteSet(S), NEW s \in SetToSeqs(S), NEW x \in S
  PROVE  \E n \in DOMAIN s : s[n] = x
<1> DEFINE D == 1 .. Cardinality(S)
<1>1. Cardinality(S) \in Nat BY FS_CardinalityType
<1>2. s \in [D -> S] /\ \A m, n \in D : s[m] = s[n] => m = n BY DEF SetToSeqs
<1>3. s \in Injection(D, S) BY <1>2 DEF Injection, IsInjective
<1>4. Cardinality(D) = Cardinality(S) BY <1>1, FS_Interval
<1>5. s \in Surjection(D, S) BY <1>3, <1>4, FS_Injection
<1> QED BY <1>2, <1>5 DEF Surjection

(* A connection that is closed.                                            *)
LEMMA DisposeServerRequests ==
  ASSUME HandleOK, RequestsOK, NEW c \in Client, DisposeServer(c)
  PROVE  \E r \in Seq(RequestType) :
           /\ requests' = requests \o r
           /\ \A n \in DOMAIN r : \E h \in Handle : /\ ClientOf(h) = c /\ handle[h].stage = "allocated"
                                                   /\ r[n] = Unwatching(h)
           /\ \A h \in Handle : ClientOf(h) = c /\ handle[h].stage = "allocated"
                => \E n \in DOMAIN r : r[n] = Unwatching(h)
<1> DEFINE H == {h \in Handle : ClientOf(h) = c /\ handle[h].stage = "allocated"}
<1>1. PICK s \in SetToSeqs(H) : requests' = requests \o [n \in DOMAIN s |-> Unwatching(s[n])]
  BY DEF DisposeServer
<1>2. IsFiniteSet(H) BY HandleFinite, FS_Subset
<1>3. s \in Seq(H) /\ DOMAIN s = 1 .. Len(s) BY <1>2, OrderIsSeq
<1>4. \A n \in DOMAIN s : s[n] \in H BY <1>3
<1>5. \A n \in DOMAIN s : Unwatching(s[n]) \in RequestType BY <1>4, UnwatchingType
<1>6. \A h \in H : \E n \in DOMAIN s : s[n] = h BY <1>2, <1>3, OrderCovers
<1> DEFINE r == [n \in DOMAIN s |-> Unwatching(s[n])]
<1>7. r \in Seq(RequestType)
  <2>1. Len(s) \in Nat BY <1>3
  <2> QED BY <1>3, <1>5, <2>1
<1> QED BY <1>1, <1>4, <1>6, <1>7

(* A handle of a client that is disposed is not in use.                    *)
LEMMA DisposedStage ==
  ASSUME HandleOK, NEW h \in Handle
  PROVE  /\ Disposed(h).stage \notin {"requested", "allocated"}
         /\ handle[h].stage \in {"requested", "released"} => Disposed(h).stage = "released"
         /\ Disposed(h).watcherId = handle[h].watcherId
BY DEF HandleOK, Disposed

LEMMA DisposeServerOwners ==
  ASSUME IInv, OwnersOK, NEW c \in Client, DisposeServer(c) PROVE (ServedOK /\ WaitingOK)'
<1> USE DEF OwnersOK
<1>1. requests \in Seq(RequestType) /\ HandleOK /\ RequestsOK BY DEF IInv, RequestsOK
<1>2. PICK r \in Seq(RequestType) :
        /\ requests' = requests \o r
        /\ \A n \in DOMAIN r : \E h \in Handle : r[n] = Unwatching(h)
  BY <1>1, DisposeServerRequests
<1>3. ASSUME NEW h \in Handle
      PROVE  /\ Holds(requests', AsksOf(h)) <=> Holds(requests, AsksOf(h))
             /\ HoldsOnce(requests', AsksOf(h))
  <2>1. ~ Holds(r, AsksOf(h)) BY <1>2, NoAsk DEF Holds, Unwatching
  <2> QED BY <1>1, <1>2, <2>1, ConcatHolds DEF WaitingOK
<1>4. serving' = serving \ {c} /\ messages' = messages BY DEF DisposeServer
<1>5. \A h \in Handle : handle'[h] = IF ClientOf(h) = c THEN Disposed(h) ELSE handle[h] BY DEF DisposeServer
<1>6. ServedOK' BY <1>1, <1>4, <1>5, DisposedStage DEF ServedOK
<1>7. \A h \in Handle : handle[h].stage \in {"requested", "released"} => handle'[h].stage \in {"requested", "released"}
  BY <1>1, <1>5, DisposedStage
<1> QED BY <1>3, <1>4, <1>6, <1>7 DEF WaitingOK

(* What arrives is taken off, with the answer a handle waits for.          *)
LEMMA ReceiveOwners ==
  ASSUME IInv, OwnersOK, Receive PROVE (ServedOK /\ WaitingOK)'
<1> USE DEF OwnersOK
<1> DEFINE m == Head(messages)
<1>1. /\ requests \in Seq(RequestType) /\ messages \in Seq(MessageType) /\ messages # <<>>
      /\ messages' = Tail(messages) /\ serving' = serving
      /\ handle \in [Handle -> [stage : Stage, watcherId : Nat]]
  BY DEF IInv, RequestsOK, MessagesOK, HandleOK, Receive
<1>2. m \in MessageType BY <1>1
<1>3. \A h \in Handle : Holds(messages', AnswersOf(h)) => Holds(messages, AnswersOf(h)) BY <1>1, TailHolds
<1>4. \A h \in Handle : HoldsOnce(messages', AnswersOf(h)) BY <1>1, TailHolds DEF WaitingOK
<1>5. CASE m.kind = "error"
  <2>1. UNCHANGED <<handle, requests>> BY <1>5 DEF Receive
  <2> QED BY <1>1, <1>3, <1>4, <2>1 DEF ServedOK, WaitingOK
<1>6. CASE m.kind # "error"
  <2>1. m.kind = "answer" /\ m.handle \in Handle /\ m \in AnswersOf(m.handle) BY <1>2, <1>6 DEF MessageType, AnswersOf
  <2> DEFINE g == m.handle
             u == Request("unwatch", g, m.watcherId)
  <2>2. Holds(messages, AnswersOf(g)) /\ ~ Holds(messages', AnswersOf(g)) BY <1>1, <2>1, TailHolds DEF WaitingOK
  <2>3. handle[g].stage \in {"requested", "released"} /\ ~ Holds(requests, AsksOf(g)) BY <2>1, <2>2 DEF WaitingOK
  <2>4. /\ handle' = [handle EXCEPT ![g] = [stage |-> IF @.stage = "released" THEN "gone" ELSE "allocated", watcherId |-> m.watcherId]]
        /\ requests' \in {requests, Append(requests, u)}
    BY <1>6 DEF Receive
  <2>5. ASSUME NEW h \in Handle
        PROVE  /\ Holds(requests', AsksOf(h)) <=> Holds(requests, AsksOf(h))
               /\ HoldsOnce(requests', AsksOf(h))
    <3>1. u \notin AsksOf(h) BY NoAsk
    <3>2. HoldsOnce(requests, AsksOf(h)) BY DEF WaitingOK
    <3> HIDE DEF u
    <3>3. /\ Holds(Append(requests, u), AsksOf(h)) <=> Holds(requests, AsksOf(h))
          /\ HoldsOnce(Append(requests, u), AsksOf(h))
      BY <1>1, <3>1, <3>2, AppendHolds
    <3> QED BY <2>4, <3>2, <3>3
  <2> HIDE DEF m
  <2>6. \A h \in Handle : h # g => handle'[h] = handle[h] BY <2>4
  <2>7. handle[g].stage = "requested" => ClientOf(g) \in serving BY <2>1 DEF ServedOK
  <2>8. handle'[g].stage = IF handle[g].stage = "released" THEN "gone" ELSE "allocated" BY <1>1, <2>1, <2>4
  <2>9. ServedOK' BY <1>1, <2>3, <2>6, <2>7, <2>8 DEF ServedOK
  <2> QED BY <1>3, <1>4, <2>2, <2>3, <2>5, <2>6, <2>9 DEF WaitingOK
<1> QED BY <1>5, <1>6

(* A request is served: the answer to a watch takes its place.             *)
LEMMA ServeRequestOwners ==
  ASSUME IInv, OwnersOK, ServeRequest PROVE (ServedOK /\ WaitingOK)'
<1> USE DEF OwnersOK
<1> DEFINE r == Head(requests)
<1>1. /\ requests \in Seq(RequestType) /\ messages \in Seq(MessageType) /\ requests # <<>>
      /\ requests' = Tail(requests) /\ UNCHANGED <<handle, serving>>
  BY DEF IInv, RequestsOK, MessagesOK, ServeRequest
<1>2. r \in RequestType /\ r.handle \in Handle
  <2>1. r \in RequestType BY <1>1
  <2> QED BY <2>1 DEF RequestType
<1>3. \A h \in Handle : /\ Holds(requests', AsksOf(h)) => Holds(requests, AsksOf(h))
                       /\ HoldsOnce(requests', AsksOf(h))
  BY <1>1, TailHolds DEF WaitingOK
<1>4. ServedOK' BY <1>1 DEF ServedOK
<1>5. CASE messages' = messages BY <1>1, <1>3, <1>4, <1>5 DEF WaitingOK
<1>6. CASE r.op = "watch" /\ messages' = Append(messages, Answer(r.handle))
  <2>1. r \in AsksOf(r.handle) BY <1>2, <1>6 DEF AsksOf
  <2>2. Holds(requests, AsksOf(r.handle)) /\ ~ Holds(requests', AsksOf(r.handle)) BY <1>1, <1>2, <2>1, TailHolds DEF WaitingOK
  <2>3. \A h \in Handle : h # r.handle => Answer(r.handle) \notin AnswersOf(h) BY DEF Answer, AnswersOf
  <2> HIDE DEF r
  <2>4. ASSUME NEW h \in Handle
        PROVE  /\ Holds(messages', AnswersOf(h)) => Holds(messages, AnswersOf(h)) \/ h = r.handle
               /\ HoldsOnce(messages', AnswersOf(h))
    <3>1. HoldsOnce(messages, AnswersOf(h)) BY DEF WaitingOK
    <3>2. h = r.handle => ~ Holds(messages, AnswersOf(h)) BY <1>2, <2>2 DEF WaitingOK
    <3> QED BY <1>1, <1>6, <2>3, <3>1, <3>2, AppendHolds
  <2>5. handle[r.handle].stage \in {"requested", "released"} BY <1>2, <2>2 DEF WaitingOK
  <2> QED BY <1>1, <1>3, <1>4, <2>2, <2>4, <2>5 DEF WaitingOK
<1> QED BY <1>5, <1>6 DEF ServeRequest, WatchFileChanges, UnwatchFileChanges

(* An error concerns no call; the exit of the process ends them.           *)
LEMMA FailsOwners ==
  ASSUME IInv, OwnersOK, NEW w \in DOMAIN watchers, Fails(w) PROVE (ServedOK /\ WaitingOK)'
<1> USE DEF OwnersOK
<1>1. messages \in Seq(MessageType) /\ messages' = Append(messages, Failed(GetClientIds(w)))
  BY DEF IInv, MessagesOK, Fails, FireError
<1>2. UNCHANGED <<handle, serving, requests>> BY DEF Fails, Unaffected
<1>3. ASSUME NEW h \in Handle
      PROVE  /\ Holds(messages', AnswersOf(h)) <=> Holds(messages, AnswersOf(h))
             /\ HoldsOnce(messages', AnswersOf(h))
  <2>1. Failed(GetClientIds(w)) \notin AnswersOf(h) BY DEF Failed, AnswersOf
  <2>2. HoldsOnce(messages, AnswersOf(h)) BY DEF WaitingOK
  <2> QED BY <1>1, <2>1, <2>2, AppendHolds
<1> QED BY <1>2, <1>3 DEF ServedOK, WaitingOK

LEMMA CrashOwners ==
  ASSUME IInv, OwnersOK, Crash PROVE (ServedOK /\ WaitingOK)'
<1> USE DEF OwnersOK
<1>1. /\ serving' = serving /\ messages' = <<>> /\ requests' \in {<<>>, requests} /\ (reachable => requests' = <<>>)
      /\ handle \in [Handle -> [stage : Stage, watcherId : Nat]] /\ messages \in Seq(MessageType)
  BY DEF Crash, IInv, HandleOK, MessagesOK
<1>2. \A h \in Handle : handle'[h] \in {[handle[h] EXCEPT !.stage = "failed"], handle[h]} BY DEF Crash
<1>3. \A h \in Handle : handle'[h].stage \in {"failed", handle[h].stage} BY <1>1, <1>2
<1>4. ServedOK' BY <1>1, <1>3 DEF ServedOK
<1>5. \A h \in Handle : ~ Holds(messages', AnswersOf(h)) /\ HoldsOnce(messages', AnswersOf(h)) BY <1>1 DEF Holds, HoldsOnce
<1>6. \A h \in Handle : HoldsOnce(<<>>, AsksOf(h)) /\ ~ Holds(<<>>, AsksOf(h)) BY DEF Holds, HoldsOnce
<1>7. ASSUME NEW h \in Handle, Holds(requests', AsksOf(h)) PROVE handle'[h].stage \in {"requested", "released"}
  <2>1. ~ reachable /\ requests' = requests BY <1>1, <1>6, <1>7
  <2>2. ~ Holds(messages, AnswersOf(h)) /\ handle[h].stage \in {"requested", "released"} BY <1>7, <2>1 DEF WaitingOK
  <2>3. ~ \E j \in DOMAIN messages : messages[j].kind = "answer" /\ messages[j].handle = h
    BY <1>1, <2>2 DEF Holds, AnswersOf
  <2>4. handle'[h] = handle[h] BY <2>1, <2>3 DEF Crash
  <2> QED BY <2>2, <2>4
<1>8. \A h \in Handle : HoldsOnce(requests', AsksOf(h)) BY <1>1, <1>6 DEF WaitingOK
<1> QED BY <1>4, <1>5, <1>7, <1>8 DEF WaitingOK

LEMMA OwnersStep ==
  ASSUME IInv, OwnersOK, [Next]_vars PROVE OwnersOK'
<1>1. CallsOfOwner' BY CallsStep DEF IInv, OwnersOK
<1>2. ASSUME NEW f \in FrontEnd, Open(f) PROVE (ServedOK /\ WaitingOK)'
  BY <1>2 DEF Open, OwnersOK, ServedOK, WaitingOK
<1>3. ASSUME UNCHANGED <<serving, handle, requests, messages>> PROVE (ServedOK /\ WaitingOK)'
  <2>1. serving' = serving /\ handle' = handle /\ requests' = requests /\ messages' = messages BY <1>3
  <2>2. ServedOK' BY <2>1 DEF OwnersOK, ServedOK
  <2>3. WaitingOK' BY <2>1 DEF OwnersOK, WaitingOK
  <2> QED BY <2>2, <2>3
<1>4. (ServedOK /\ WaitingOK)'
  <2>1. \/ UNCHANGED <<serving, handle, requests, messages>>
        \/ \E f \in FrontEnd : Open(f) \/ ServeCall(f)
        \/ \E c \in Client : DisposeServer(c)
        \/ Receive \/ ServeRequest \/ Crash \/ \E w \in DOMAIN watchers : Fails(w)
    BY DEF Next, vars, Unaffected, Watch, Unwatch, Close, TimerFires, CheckPath, Created
  <2> QED BY <1>2, <1>3, <2>1, ServeCallOwners, DisposeServerOwners, ReceiveOwners, ServeRequestOwners, FailsOwners, CrashOwners
<1> QED BY <1>1, <1>4 DEF OwnersOK

-----------------------------------------------------------------------------
(* HandlesOwned, step by step.                                             *)
UsedBy(e, h) == handle[h] = [stage |-> "allocated", watcherId |-> e.id] /\ ClientOf(h) = e.client
AnsweredTo(e, j) ==
  messages[j].kind = "answer" /\ messages[j].watcherId = e.id /\ ClientOf(messages[j].handle) = e.client
Owned(e) ==
  \/ \E h \in Handle : UsedBy(e, h) /\ e.client \in serving
  \/ \E j \in DOMAIN messages : AnsweredTo(e, j)
  \/ Under(e.id, "unwatch")

LEMMA OwnedIsOwned ==
  /\ HandlesOwned <=> \A e \in watcherHandles : Owned(e)
  /\ HandlesOwned' <=> \A e \in watcherHandles' : Owned(e)'
BY DEF HandlesOwned, Owned, UsedBy, AnsweredTo

(* What is under way stays so when more is sent.                           *)
LEMMA UnderMore ==
  ASSUME NEW T, requests \in Seq(T), NEW w, Under(w, "unwatch"), NEW r \in Seq(T), requests' = requests \o r
  PROVE  Under(w, "unwatch")'
<1>1. PICK n \in DOMAIN requests : requests[n].op = "unwatch" /\ requests[n].watcherId = w BY DEF Under
<1>2. n \in DOMAIN requests' /\ requests'[n] = requests[n] OBVIOUS
<1> QED BY <1>1, <1>2 DEF Under

LEMMA UnderAppend ==
  ASSUME NEW T, requests \in Seq(T), NEW r \in T, requests' = Append(requests, r)
  PROVE  /\ \A w : Under(w, "unwatch") => Under(w, "unwatch")'
         /\ r.op = "unwatch" => Under(r.watcherId, "unwatch")'
<1>1. \A n \in DOMAIN requests : n \in DOMAIN requests' /\ requests'[n] = requests[n] OBVIOUS
<1>2. Len(requests) + 1 \in DOMAIN requests' /\ requests'[Len(requests) + 1] = r OBVIOUS
<1> QED BY <1>1, <1>2 DEF Under

LEMMA ServeCallOwned ==
  ASSUME IInv, OwnersOK, NEW f \in FrontEnd, ServeCall(f), NEW e, Owned(e) PROVE Owned(e)'
<1> DEFINE h == <<Head(calls[f]).id, connection[f]>>
<1>1. h \in Handle BY CallHandle DEF IInv
<1>2. serving' = serving /\ messages' = messages BY DEF ServeCall
<1>3. requests \in Seq(RequestType) /\ handle \in [Handle -> [stage : Stage, watcherId : Nat]]
  BY DEF IInv, RequestsOK, HandleOK
<1>4. Unwatching(h) \in RequestType /\ Request("watch", h, 0) \in RequestType
  BY <1>1, UnwatchingType, WatchRequestType DEF IInv
<1>5. requests' \in {requests, Append(requests, Unwatching(h)), Append(requests, Request("watch", h, 0))} BY DEF ServeCall
<1>6. \A g \in Handle : g # h => handle'[g] = handle[g] BY <1>1, <1>3 DEF ServeCall
<1>7. \/ handle' = handle
      \/ handle[h].stage # "allocated"
      \/ handle[h].stage = "allocated" /\ requests' = Append(requests, Unwatching(h))
  BY DEF ServeCall
<1> HIDE DEF h
<1>8. Under(e.id, "unwatch") => Under(e.id, "unwatch")'
  <2>1. CASE requests' = requests BY <2>1 DEF Under
  <2>2. CASE requests' # requests BY <1>3, <1>4, <1>5, <2>2, UnderAppend
  <2> QED BY <2>1, <2>2
<1>9. ASSUME NEW g \in Handle, UsedBy(e, g) PROVE UsedBy(e, g)' \/ Under(e.id, "unwatch")'
  <2>1. CASE g # h \/ handle' = handle BY <1>6, <1>9, <2>1 DEF UsedBy
  <2>2. CASE g = h /\ handle' # handle
    <3>1. handle[h].stage = "allocated" /\ handle[h].watcherId = e.id BY <1>9, <2>2 DEF UsedBy
    <3>2. requests' = Append(requests, Unwatching(h)) BY <1>7, <2>2, <3>1
    <3>3. Unwatching(h).op = "unwatch" /\ Unwatching(h).watcherId = e.id BY <3>1 DEF Unwatching, Request
    <3> QED BY <1>3, <1>4, <3>2, <3>3, UnderAppend
  <2> QED BY <2>1, <2>2
<1> QED BY <1>2, <1>8, <1>9 DEF Owned, AnsweredTo

LEMMA DisposeServerOwned ==
  ASSUME IInv, NEW c \in Client, DisposeServer(c), NEW e, Owned(e) PROVE Owned(e)'
<1>1. requests \in Seq(RequestType) /\ HandleOK /\ RequestsOK BY DEF IInv, RequestsOK
<1>2. PICK r \in Seq(RequestType) :
        /\ requests' = requests \o r
        /\ \A h \in Handle : ClientOf(h) = c /\ handle[h].stage = "allocated"
             => \E n \in DOMAIN r : r[n] = Unwatching(h)
  BY <1>1, DisposeServerRequests
<1>3. serving' = serving \ {c} /\ messages' = messages BY DEF DisposeServer
<1>4. \A h \in Handle : handle'[h] = IF ClientOf(h) = c THEN Disposed(h) ELSE handle[h] BY DEF DisposeServer
<1>5. Under(e.id, "unwatch") => Under(e.id, "unwatch")' BY <1>1, <1>2, UnderMore
<1>6. ASSUME NEW h \in Handle, UsedBy(e, h), e.client \in serving
      PROVE  (UsedBy(e, h)' /\ e.client \in serving') \/ Under(e.id, "unwatch")'
  <2>1. CASE ClientOf(h) # c BY <1>3, <1>4, <1>6, <2>1 DEF UsedBy
  <2>2. CASE ClientOf(h) = c
    <3>1. handle[h].stage = "allocated" /\ handle[h].watcherId = e.id BY <1>6 DEF UsedBy
    <3>2. PICK n \in DOMAIN r : r[n] = Unwatching(h) BY <1>2, <2>2, <3>1
    <3>3. r[n].op = "unwatch" /\ r[n].watcherId = e.id BY <3>1, <3>2 DEF Unwatching, Request
    <3>4. Len(requests) + n \in DOMAIN requests' /\ requests'[Len(requests) + n] = r[n] BY <1>1, <1>2
    <3> QED BY <3>3, <3>4 DEF Under
  <2> QED BY <2>1, <2>2
<1> QED BY <1>3, <1>5, <1>6 DEF Owned, AnsweredTo

LEMMA ReceiveOwned ==
  ASSUME IInv, OwnersOK, Receive, NEW e, Owned(e) PROVE Owned(e)'
<1>m. PICK m : m = Head(messages) OBVIOUS
<1>1. /\ requests \in Seq(RequestType) /\ messages \in Seq(MessageType) /\ messages # <<>>
      /\ messages' = Tail(messages) /\ serving' = serving
      /\ handle \in [Handle -> [stage : Stage, watcherId : Nat]]
  BY DEF IInv, RequestsOK, MessagesOK, HandleOK, Receive
<1>2. m \in MessageType BY <1>m, <1>1
<1>3. ASSUME NEW j \in DOMAIN messages, AnsweredTo(e, j), j # 1 PROVE Owned(e)'
  <2>1. j - 1 \in DOMAIN messages' /\ messages'[j - 1] = messages[j] BY <1>1, <1>3
  <2> QED BY <1>3, <2>1 DEF AnsweredTo, Owned
<1>4. CASE m.kind = "error"
  <2>1. handle' = handle /\ requests' = requests BY <1>m, <1>4 DEF Receive
  <2>2. ~ AnsweredTo(e, 1) BY <1>m, <1>1, <1>4 DEF AnsweredTo
  <2>3. CASE \E h \in Handle : UsedBy(e, h) /\ e.client \in serving BY <1>1, <2>1, <2>3 DEF Owned, UsedBy
  <2>4. CASE Under(e.id, "unwatch") BY <2>1, <2>4 DEF Owned, Under
  <2>5. CASE \E j \in DOMAIN messages : AnsweredTo(e, j) BY <1>3, <2>2, <2>5
  <2> QED BY <2>3, <2>4, <2>5 DEF Owned
<1>5. CASE m.kind # "error"
  <2>1. m.kind = "answer" /\ m.handle \in Handle /\ m.watcherId \in Nat /\ m \in AnswersOf(m.handle)
    BY <1>2, <1>5 DEF MessageType, AnswersOf
  <2> DEFINE g == m.handle
  <2>u. PICK u : u = Request("unwatch", g, m.watcherId) OBVIOUS
  <2>2. Holds(messages, AnswersOf(g)) BY <1>m, <1>1, <2>1, TailHolds
  <2>3. handle[g].stage \in {"requested", "released"} BY <2>1, <2>2 DEF OwnersOK, WaitingOK
  <2>4. /\ handle' = [handle EXCEPT ![g] = [stage |-> IF @.stage = "released" THEN "gone" ELSE "allocated", watcherId |-> m.watcherId]]
        /\ requests' = IF handle[g].stage = "released" THEN Append(requests, u) ELSE requests
    BY <1>m, <1>5, <2>u DEF Receive
  <2>5. u \in RequestType /\ u.op = "unwatch" /\ u.watcherId = m.watcherId BY <2>1, <2>u DEF Request, RequestType
  <2>6. messages[1] = m BY <1>m, <1>1
  <2>7. \A h \in Handle : UsedBy(e, h) => UsedBy(e, h)' BY <2>1, <2>3, <2>4 DEF UsedBy
  <2>8. Under(e.id, "unwatch") => Under(e.id, "unwatch")'
    <3>1. CASE requests' = requests BY <3>1 DEF Under
    <3>2. CASE requests' = Append(requests, u) BY <1>1, <2>5, <3>2, UnderAppend
    <3> QED BY <2>4, <3>1, <3>2
  <2>9. ASSUME AnsweredTo(e, 1) PROVE Owned(e)'
    <3>1. m.watcherId = e.id /\ ClientOf(g) = e.client BY <2>6, <2>9 DEF AnsweredTo
    <3>2. CASE handle[g].stage = "released"
      <4>1. Under(u.watcherId, "unwatch")' BY <1>1, <2>4, <2>5, <3>2, UnderAppend
      <4> QED BY <2>5, <3>1, <4>1 DEF Owned
    <3>3. CASE handle[g].stage = "requested"
      <4>1. ClientOf(g) \in serving BY <2>1, <3>3 DEF OwnersOK, ServedOK
      <4>2. handle'[g] = [stage |-> "allocated", watcherId |-> e.id] BY <1>1, <2>1, <2>4, <3>1, <3>3
      <4> QED BY <1>1, <2>1, <3>1, <4>1, <4>2 DEF Owned, UsedBy
    <3> QED BY <2>3, <3>2, <3>3
  <2> QED BY <1>1, <1>3, <2>7, <2>8, <2>9 DEF Owned
<1> QED BY <1>4, <1>5

LEMMA ServeRequestOwned ==
  ASSUME IInv, HandlesOwned, ServeRequest, NEW e \in watcherHandles' PROVE Owned(e)'
<1> DEFINE r == Head(requests)
<1>1. /\ requests \in Seq(RequestType) /\ messages \in Seq(MessageType) /\ requests # <<>>
      /\ requests' = Tail(requests) /\ UNCHANGED <<handle, serving>>
  BY DEF IInv, RequestsOK, MessagesOK, ServeRequest
<1>2. ASSUME Owned(e), ~ (r.op = "unwatch" /\ r.watcherId = e.id),
             messages' = messages \/ messages' = Append(messages, Answer(r.handle))
      PROVE  Owned(e)'
  <2>1. \A j \in DOMAIN messages : j \in DOMAIN messages' /\ messages'[j] = messages[j] BY <1>1, <1>2
  <2>2. ASSUME Under(e.id, "unwatch") PROVE Under(e.id, "unwatch")'
    <3>1. PICK n \in DOMAIN requests : requests[n].op = "unwatch" /\ requests[n].watcherId = e.id BY <2>2 DEF Under
    <3>2. n # 1 BY <1>1, <1>2, <3>1
    <3>3. n - 1 \in DOMAIN requests' /\ requests'[n - 1] = requests[n] BY <1>1, <3>2
    <3> QED BY <3>1, <3>3 DEF Under
  <2>3. \A h \in Handle : UsedBy(e, h) => UsedBy(e, h)' BY <1>1 DEF UsedBy
  <2> QED BY <1>1, <1>2, <2>1, <2>2, <2>3 DEF Owned, AnsweredTo
<1>3. CASE r.op = "watch" /\ WatchFileChanges(r.handle)
  <2>0. messages' = Append(messages, Answer(r.handle)) BY <1>3 DEF WatchFileChanges
  <2>1. CASE e \in watcherHandles BY <1>2, <1>3, <2>0, <2>1, OwnedIsOwned
  <2>2. CASE e \notin watcherHandles
    <3>1. e.id = watcherId /\ e.client = ClientOf(r.handle) BY <1>3, <2>2 DEF WatchFileChanges
    <3>2. /\ Answer(r.handle).kind = "answer" /\ Answer(r.handle).watcherId = watcherId
          /\ Answer(r.handle).handle = r.handle
      BY DEF Answer
    <3>3. Len(messages) + 1 \in DOMAIN messages' /\ messages'[Len(messages) + 1] = Answer(r.handle) BY <1>1, <2>0
    <3> QED BY <3>1, <3>2, <3>3 DEF Owned, AnsweredTo
  <2> QED BY <2>1, <2>2
<1>4. CASE r.op = "unwatch" /\ UnwatchFileChanges(r.watcherId)
  <2>1. e \in watcherHandles /\ e.id # r.watcherId
    <3>1. \A d, g \in watcherHandles : d.id = g.id => d = g BY DEF IInv, ServiceOK
    <3> QED BY <1>4, <3>1 DEF UnwatchFileChanges
  <2>2. messages' = messages BY <1>4 DEF UnwatchFileChanges
  <2> QED BY <1>2, <2>1, <2>2, OwnedIsOwned
<1> QED BY <1>3, <1>4 DEF ServeRequest

LEMMA OwnedStep ==
  ASSUME IInv, OwnersOK, HandlesOwned, [Next]_vars PROVE HandlesOwned'
<1>1. CASE ServeRequest BY <1>1, ServeRequestOwned, OwnedIsOwned
<1>2. CASE Crash
  <2>1. watcherHandles' = {} BY <1>2 DEF Crash
  <2> QED BY <2>1 DEF HandlesOwned
<1>3. CASE ~ ServeRequest /\ ~ Crash
  <2> SUFFICES ASSUME NEW e \in watcherHandles' PROVE Owned(e)' BY OwnedIsOwned
  <2>1. e \in watcherHandles
    BY <1>3 DEF Next, vars, service, Unaffected, Watch, Unwatch, Open, Close, ServeCall, DisposeServer, Receive,
       TimerFires, CheckPath, Created, Fails, Dispose
  <2>2. Owned(e) BY <2>1, OwnedIsOwned
  <2>3. ASSUME UNCHANGED <<handle, requests, messages>>, serving \subseteq serving' PROVE Owned(e)'
    <3>1. handle' = handle /\ requests' = requests /\ messages' = messages BY <2>3
    <3> QED BY <2>2, <2>3, <3>1 DEF Owned, UsedBy, AnsweredTo, Under
  <2>4. ASSUME NEW w \in DOMAIN watchers, Fails(w) PROVE Owned(e)'
    <3>1. messages \in Seq(MessageType) /\ messages' = Append(messages, Failed(GetClientIds(w)))
      BY <2>4 DEF IInv, MessagesOK, Fails, FireError
    <3>2. \A j \in DOMAIN messages : j \in DOMAIN messages' /\ messages'[j] = messages[j] BY <3>1
    <3>3. handle' = handle /\ requests' = requests /\ serving' = serving BY <2>4 DEF Fails, Unaffected
    <3> QED BY <2>2, <3>2, <3>3 DEF Owned, UsedBy, AnsweredTo, Under
  <2>5. ASSUME NEW f \in FrontEnd, Open(f) PROVE Owned(e)' BY <2>3, <2>5 DEF Open
  <2>6. \/ UNCHANGED <<handle, requests, messages>> /\ serving \subseteq serving'
        \/ \E f \in FrontEnd : ServeCall(f)
        \/ \E c \in Client : DisposeServer(c)
        \/ Receive \/ \E w \in DOMAIN watchers : Fails(w)
    BY <1>3 DEF Next, vars, Unaffected, Watch, Unwatch, Open, Close, TimerFires, CheckPath, Created
  <2> QED BY <2>2, <2>3, <2>4, <2>6, ServeCallOwned, DisposeServerOwned, ReceiveOwned
<1> QED BY <1>1, <1>2, <1>3

LEMMA AlwaysOwned == Spec => [](IInv /\ OwnersOK /\ HandlesOwned)
<1>1. Init => OwnersOK /\ HandlesOwned
  <2> SUFFICES ASSUME Init PROVE OwnersOK /\ HandlesOwned OBVIOUS
  <2>1. CallsOfOwner BY DEF Init, CallsOfOwner
  <2>2. ServedOK BY DEF Init, ServedOK
  <2>3. WaitingOK BY DEF Init, WaitingOK, Holds, HoldsOnce
  <2>4. HandlesOwned BY DEF Init, HandlesOwned
  <2> QED BY <2>1, <2>2, <2>3, <2>4 DEF OwnersOK
<1>2. IInv /\ OwnersOK /\ HandlesOwned /\ [Next]_vars => OwnersOK' /\ HandlesOwned' BY OwnersStep, OwnedStep
<1> QED BY <1>1, <1>2, AlwaysIInv, PTL DEF Spec

(* Every handle the service keeps is used by a client that is there, or is *)
(* on its way to it, or back: what is disposed while its answer is awaited *)
(* is unwatched when the answer comes, and an answer never goes to a       *)
(* client that left.  It holds across any number of exits of the process.  *)
THEOREM HandlesStayOwned == Spec => []HandlesOwned
BY AlwaysOwned, PTL

-----------------------------------------------------------------------------
(* As long as the process has not exited, a watcher id is in one place: on  *)
(* its way to a handle, in a handle, or on its way back.                   *)
AnswersWith(w) == {m \in MessageType : m.kind = "answer" /\ m.watcherId = w}
UnwatchesOf(w) == {r \in RequestType : r.op = "unwatch" /\ r.watcherId = w}
Using(h, w) == handle[h].stage = "allocated" /\ handle[h].watcherId = w

OnePlace(w) ==
  /\ \A g, h \in Handle : Using(g, w) /\ Using(h, w) => g = h
  /\ HoldsOnce(messages, AnswersWith(w))
  /\ Holds(messages, AnswersWith(w)) => ~ Holds(requests, UnwatchesOf(w)) /\ \A h \in Handle : ~ Using(h, w)
  /\ Holds(requests, UnwatchesOf(w)) => \A h \in Handle : ~ Using(h, w)
  /\ w >= watcherId => /\ ~ Holds(messages, AnswersWith(w)) /\ ~ Holds(requests, UnwatchesOf(w))
                       /\ \A h \in Handle : ~ Using(h, w)
IdsOK == \A w \in Nat : OnePlace(w)

(* And who has an id, or waits for it, has its watcher or learns better.   *)
ErrorsFor(c) == {m \in MessageType : m.kind = "error" /\ c \in m.clients}
Has(c, w) == \E e \in watcherHandles : e.client = c /\ e.id = w
Reported(c, w) == Has(c, w) \/ c \in told \/ Holds(messages, ErrorsFor(c))
Waits(h, w) == handle[h].stage = "requested" /\ Holds(messages, AnswersOf(h) \cap AnswersWith(w))
Concerned(h, w) == Using(h, w) \/ Waits(h, w)
NoneLost == \A h \in Handle, w \in Nat : Concerned(h, w) => Reported(ClientOf(h), w)

(* What a step of the back end may do to ids: a handle gives its id up as  *)
(* it sends it back.                                                       *)
LEMMA GivesUp ==
  ASSUME NEW w \in Nat, OnePlace(w), UNCHANGED <<messages, watcherId>>,
         \A h \in Handle : Using(h, w)' => Using(h, w),
         Holds(requests, UnwatchesOf(w))' => \/ Holds(requests, UnwatchesOf(w))
                                             \/ /\ \E h \in Handle : Using(h, w)
                                                /\ \A h \in Handle : Using(h, w) => ~ Using(h, w)'
  PROVE  OnePlace(w)'
<1>1. messages' = messages /\ watcherId' = watcherId OBVIOUS
<1>2. HoldsOnce(messages, AnswersWith(w))' BY <1>1 DEF OnePlace
<1>3. Holds(messages, AnswersWith(w))' <=> Holds(messages, AnswersWith(w)) BY <1>1
<1>4. \A g, h \in Handle : Using(g, w)' /\ Using(h, w)' => g = h BY DEF OnePlace
<1>5. w >= watcherId' <=> w >= watcherId BY <1>1
<1> QED BY <1>2, <1>3, <1>4, <1>5 DEF OnePlace

LEMMA ServeCallIds ==
  ASSUME IInv, OwnersOK, IdsOK, NEW f \in FrontEnd, ServeCall(f), NEW w \in Nat PROVE OnePlace(w)'
<1>1. PICK h \in Handle : h = <<Head(calls[f]).id, connection[f]>> BY CallHandle DEF IInv
<1>2. UNCHANGED <<messages, watcherId>> BY DEF ServeCall, service
<1>3. requests \in Seq(RequestType) /\ handle \in [Handle -> [stage : Stage, watcherId : Nat]] /\ HandleOK
  BY DEF IInv, RequestsOK, HandleOK
<1>4. \/ UNCHANGED <<handle, requests>>
      \/ /\ handle' = [handle EXCEPT ![h].stage = "requested"]
         /\ requests' = Append(requests, Request("watch", h, 0))
      \/ /\ handle' = [handle EXCEPT ![h] = Disposed(h)]
         /\ requests' = IF handle[h].stage = "allocated" THEN Append(requests, Unwatching(h)) ELSE requests
  BY <1>1 DEF ServeCall
<1>5. \A g \in Handle : g # h => handle'[g] = handle[g] BY <1>1, <1>3, <1>4
<1>6. handle' = handle \/ handle'[h].stage # "allocated" BY <1>1, <1>3, <1>4, DisposedStage
<1>7. \A g \in Handle : Using(g, w)' => Using(g, w) BY <1>5, <1>6 DEF Using
<1>8. \/ requests' = requests
      \/ requests' = Append(requests, Request("watch", h, 0))
      \/ requests' = Append(requests, Unwatching(h)) /\ handle[h].stage = "allocated"
  BY <1>4
<1>9. ASSUME Holds(requests, UnwatchesOf(w))', ~ Holds(requests, UnwatchesOf(w))
      PROVE  (\E g \in Handle : Using(g, w)) /\ \A g \in Handle : Using(g, w) => ~ Using(g, w)'
  <2>1. requests' # requests BY <1>9
  <2>2. Request("watch", h, 0) \notin UnwatchesOf(w) BY DEF Request, UnwatchesOf
  <2>3. requests' = Append(requests, Unwatching(h)) /\ handle[h].stage = "allocated" /\ Unwatching(h) \in UnwatchesOf(w)
    BY <1>3, <1>8, <1>9, <2>1, <2>2, AppendHolds
  <2>4. handle[h].watcherId = w BY <2>3 DEF Unwatching, Request, UnwatchesOf
  <2>5. Using(h, w) /\ OnePlace(w) BY <2>3, <2>4 DEF Using, IdsOK
  <2>6. \A g \in Handle : Using(g, w) => g = h BY <1>1, <2>5 DEF OnePlace
  <2>7. handle'[h].stage # "allocated"
    <3>1. handle' = [handle EXCEPT ![h] = Disposed(h)] BY <1>3, <1>4, <2>1, <2>3 DEF Unwatching, Request
    <3> QED BY <1>1, <1>3, <3>1, DisposedStage
  <2>8. ~ Using(h, w)' BY <2>7 DEF Using
  <2> QED BY <1>1, <2>5, <2>6, <2>8
<1> QED BY <1>2, <1>7, <1>9, GivesUp DEF IdsOK

LEMMA DisposeServerIds ==
  ASSUME IInv, IdsOK, NEW c \in Client, DisposeServer(c), NEW w \in Nat PROVE OnePlace(w)'
<1>1. requests \in Seq(RequestType) /\ HandleOK /\ RequestsOK BY DEF IInv, RequestsOK
<1>2. PICK r \in Seq(RequestType) :
        /\ requests' = requests \o r
        /\ \A n \in DOMAIN r : \E h \in Handle : /\ ClientOf(h) = c /\ handle[h].stage = "allocated"
                                                /\ r[n] = Unwatching(h)
  BY <1>1, DisposeServerRequests
<1>3. \A h \in Handle : handle'[h] = IF ClientOf(h) = c THEN Disposed(h) ELSE handle[h] BY DEF DisposeServer
<1>4. UNCHANGED <<messages, watcherId>> BY DEF DisposeServer, service
<1>5. \A h \in Handle : ClientOf(h) = c => ~ Using(h, w)' BY <1>1, <1>3, DisposedStage DEF Using
<1>6. \A h \in Handle : Using(h, w)' => Using(h, w) BY <1>3, <1>5 DEF Using
<1>7. ASSUME Holds(requests, UnwatchesOf(w))', ~ Holds(requests, UnwatchesOf(w))
      PROVE  (\E g \in Handle : Using(g, w)) /\ \A g \in Handle : Using(g, w) => ~ Using(g, w)'
  <2>1. Holds(r, UnwatchesOf(w)) BY <1>1, <1>2, <1>7, ConcatHolds
  <2>2. PICK n \in DOMAIN r : r[n] \in UnwatchesOf(w) BY <2>1 DEF Holds
  <2>3. PICK h \in Handle : ClientOf(h) = c /\ handle[h].stage = "allocated" /\ r[n] = Unwatching(h) BY <1>2
  <2>4. Using(h, w) BY <2>2, <2>3 DEF Unwatching, Request, UnwatchesOf, Using
  <2>5. \A g \in Handle : Using(g, w) => g = h BY <2>4 DEF IdsOK, OnePlace
  <2> QED BY <1>5, <2>3, <2>4, <2>5
<1> QED BY <1>4, <1>6, <1>7, GivesUp DEF IdsOK

LEMMA ReceiveIds ==
  ASSUME IInv, OwnersOK, IdsOK, Receive, NEW w \in Nat PROVE OnePlace(w)'
<1>m. PICK m : m = Head(messages) OBVIOUS
<1>1. /\ requests \in Seq(RequestType) /\ messages \in Seq(MessageType) /\ messages # <<>>
      /\ messages' = Tail(messages) /\ watcherId' = watcherId
      /\ handle \in [Handle -> [stage : Stage, watcherId : Nat]]
  BY DEF IInv, RequestsOK, MessagesOK, HandleOK, Receive, service
<1>2. m \in MessageType BY <1>m, <1>1
<1>3. OnePlace(w) BY DEF IdsOK
<1>4. /\ Holds(messages', AnswersWith(w)) => Holds(messages, AnswersWith(w))
      /\ HoldsOnce(messages', AnswersWith(w))
      /\ m \in AnswersWith(w) => Holds(messages, AnswersWith(w)) /\ ~ Holds(messages', AnswersWith(w))
  BY <1>m, <1>1, <1>3, TailHolds DEF OnePlace
<1>5. CASE m.kind = "error"
  <2>1. handle' = handle /\ requests' = requests BY <1>m, <1>5 DEF Receive
  <2>2. \A h \in Handle : Using(h, w)' <=> Using(h, w) BY <2>1 DEF Using
  <2> QED BY <1>1, <1>3, <1>4, <2>1, <2>2 DEF OnePlace
<1>6. CASE m.kind # "error"
  <2>1. m.kind = "answer" /\ m.handle \in Handle /\ m.watcherId \in Nat /\ m \in AnswersOf(m.handle)
    BY <1>2, <1>6 DEF MessageType, AnswersOf
  <2>2. PICK g \in Handle : g = m.handle BY <2>1
  <2>3. PICK u : u = Request("unwatch", g, m.watcherId) OBVIOUS
  <2>4. handle[g].stage \in {"requested", "released"}
    <3>1. Holds(messages, AnswersOf(g)) BY <1>m, <1>1, <2>1, <2>2, TailHolds
    <3> QED BY <2>2, <3>1 DEF OwnersOK, WaitingOK
  <2>5. /\ handle' = [handle EXCEPT ![g] = [stage |-> IF @.stage = "released" THEN "gone" ELSE "allocated", watcherId |-> m.watcherId]]
        /\ requests' = IF handle[g].stage = "released" THEN Append(requests, u) ELSE requests
    BY <1>m, <1>6, <2>2, <2>3 DEF Receive
  <2>6. \A h \in Handle : h # g => (Using(h, w)' <=> Using(h, w)) BY <2>5 DEF Using
  <2>7. ~ Using(g, w) BY <2>4 DEF Using
  <2>8. Using(g, w)' <=> handle[g].stage = "requested" /\ m.watcherId = w BY <1>1, <2>4, <2>5 DEF Using
  <2>9. m.watcherId = w <=> m \in AnswersWith(w) BY <1>2, <2>1 DEF AnswersWith
  <2>10. u \in UnwatchesOf(w) <=> m.watcherId = w BY <2>1, <2>3 DEF Request, RequestType, UnwatchesOf
  <2>11. Holds(requests', UnwatchesOf(w)) <=>
           Holds(requests, UnwatchesOf(w)) \/ (handle[g].stage = "released" /\ m.watcherId = w)
    BY <1>1, <2>5, <2>10, AppendHolds
  <2>12. CASE m.watcherId # w BY <1>1, <1>3, <1>4, <2>6, <2>7, <2>8, <2>11, <2>12 DEF OnePlace
  <2>13. CASE m.watcherId = w
    <3>1. /\ ~ Holds(requests, UnwatchesOf(w)) /\ ~ Holds(messages', AnswersWith(w))
          /\ \A h \in Handle : ~ Using(h, w)
          /\ ~ (w >= watcherId)
      BY <1>3, <1>4, <2>9, <2>13 DEF OnePlace
    <3>2. \A h \in Handle : Using(h, w)' => h = g /\ handle[g].stage = "requested" BY <2>6, <2>8, <3>1
    <3>3. Holds(requests', UnwatchesOf(w)) => handle[g].stage = "released" BY <2>11, <3>1
    <3> QED BY <1>1, <1>4, <3>1, <3>2, <3>3 DEF OnePlace
  <2> QED BY <2>12, <2>13
<1> QED BY <1>5, <1>6

LEMMA ServeRequestIds ==
  ASSUME IInv, IdsOK, ServeRequest, NEW w \in Nat PROVE OnePlace(w)'
<1>r. PICK r : r = Head(requests) OBVIOUS
<1>1. /\ requests \in Seq(RequestType) /\ messages \in Seq(MessageType) /\ requests # <<>>
      /\ requests' = Tail(requests) /\ handle' = handle /\ watcherId \in Nat
  BY DEF IInv, RequestsOK, MessagesOK, ServeRequest, ServiceOK
<1>2. r \in RequestType /\ r.handle \in Handle
  <2>1. r \in RequestType BY <1>r, <1>1
  <2> QED BY <2>1 DEF RequestType
<1>3. OnePlace(w) BY DEF IdsOK
<1>4. Holds(requests', UnwatchesOf(w)) => Holds(requests, UnwatchesOf(w)) BY <1>1, TailHolds
<1>5. \A h \in Handle : Using(h, w)' <=> Using(h, w) BY <1>1 DEF Using
<1>6. CASE UNCHANGED <<messages, watcherId>>
  <2>1. messages' = messages /\ watcherId' = watcherId BY <1>6
  <2> QED BY <1>3, <1>4, <1>5, <2>1 DEF OnePlace
<1>7. CASE WatchFileChanges(r.handle)
  <2>1. watcherId' = watcherId + 1 /\ messages' = Append(messages, Answer(r.handle)) BY <1>7 DEF WatchFileChanges
  <2>2. Answer(r.handle) \in AnswersWith(w) <=> w = watcherId BY <1>1, <1>2 DEF Answer, AnswersWith, MessageType
  <2>3. w = watcherId => ~ Holds(messages, AnswersWith(w)) BY <1>1, <1>3 DEF OnePlace
  <2>4. /\ Holds(messages', AnswersWith(w)) <=> Holds(messages, AnswersWith(w)) \/ w = watcherId
        /\ HoldsOnce(messages', AnswersWith(w))
    BY <1>1, <1>3, <2>1, <2>2, <2>3, AppendHolds DEF OnePlace
  <2>5. w >= watcherId' => w >= watcherId /\ w # watcherId BY <1>1, <2>1
  <2>6. CASE w = watcherId
    <3>1. w >= watcherId BY <1>1, <2>6
    <3>2. ~ Holds(requests, UnwatchesOf(w)) /\ \A h \in Handle : ~ Using(h, w) BY <1>3, <3>1 DEF OnePlace
    <3> QED BY <1>4, <1>5, <2>4, <2>5, <2>6, <3>2 DEF OnePlace
  <2>7. CASE w # watcherId BY <1>3, <1>4, <1>5, <2>4, <2>5, <2>7 DEF OnePlace
  <2> QED BY <2>6, <2>7
<1> QED BY <1>r, <1>6, <1>7 DEF ServeRequest, UnwatchFileChanges

LEMMA FailsIds ==
  ASSUME IInv, IdsOK, NEW v \in DOMAIN watchers, Fails(v), NEW w \in Nat PROVE OnePlace(w)'
<1>1. messages \in Seq(MessageType) /\ messages' = Append(messages, Failed(GetClientIds(v)))
  BY DEF IInv, MessagesOK, Fails, FireError
<1>2. handle' = handle /\ requests' = requests /\ watcherId' = watcherId BY DEF Fails, Unaffected
<1>3. OnePlace(w) BY DEF IdsOK
<1>4. Failed(GetClientIds(v)) \notin AnswersWith(w) BY DEF Failed, AnswersWith
<1>5. /\ Holds(messages', AnswersWith(w)) <=> Holds(messages, AnswersWith(w))
      /\ HoldsOnce(messages', AnswersWith(w))
  BY <1>1, <1>3, <1>4, AppendHolds DEF OnePlace
<1>6. \A h \in Handle : Using(h, w)' <=> Using(h, w) BY <1>2 DEF Using
<1> QED BY <1>2, <1>3, <1>5, <1>6 DEF OnePlace

LEMMA IdsStep ==
  ASSUME IInv, OwnersOK, IdsOK, [Next]_vars, ~ Crash PROVE IdsOK'
<1> SUFFICES ASSUME NEW w \in Nat PROVE OnePlace(w)' BY DEF IdsOK
<1>1. ASSUME UNCHANGED <<handle, requests, messages, watcherId>> PROVE OnePlace(w)'
  <2>1. handle' = handle /\ requests' = requests /\ messages' = messages /\ watcherId' = watcherId BY <1>1
  <2> QED BY <2>1 DEF IdsOK, OnePlace, Using
<1>2. \/ UNCHANGED <<handle, requests, messages, watcherId>>
      \/ \E f \in FrontEnd : ServeCall(f)
      \/ \E c \in Client : DisposeServer(c)
      \/ Receive \/ ServeRequest \/ \E v \in DOMAIN watchers : Fails(v)
  BY DEF Next, vars, service, Unaffected, Watch, Unwatch, Open, Close, TimerFires, CheckPath, Created
<1> QED BY <1>1, <1>2, ServeCallIds, DisposeServerIds, ReceiveIds, ServeRequestIds, FailsIds

-----------------------------------------------------------------------------
(* NoneLost, step by step.                                                 *)
LEMMA NoneLostIs ==
  /\ NoneLost <=> \A h \in Handle, w \in Nat : Concerned(h, w) => Reported(ClientOf(h), w)
  /\ NoneLost' <=> \A h \in Handle, w \in Nat : Concerned(h, w)' => Reported(ClientOf(h), w)'
BY DEF NoneLost

(* Who is concerned is served.                                             *)
LEMMA ConcernedServed ==
  ASSUME OwnersOK, NEW h \in Handle, NEW w, Concerned(h, w) PROVE ClientOf(h) \in serving
BY DEF OwnersOK, ServedOK, Concerned, Using, Waits

LEMMA ServeCallLosses ==
  ASSUME IInv, OwnersOK, NoneLost, NEW f \in FrontEnd, ServeCall(f) PROVE NoneLost'
<1>1. PICK h \in Handle : h = <<Head(calls[f]).id, connection[f]>> BY CallHandle DEF IInv
<1>2. messages' = messages /\ told' = told /\ watcherHandles' = watcherHandles BY DEF ServeCall, service
<1>3. HandleOK /\ handle \in [Handle -> [stage : Stage, watcherId : Nat]] BY DEF IInv, HandleOK
<1>4. \/ handle' = handle
      \/ handle[h].stage = "none" /\ handle' = [handle EXCEPT ![h].stage = "requested"]
      \/ handle' = [handle EXCEPT ![h] = Disposed(h)]
  BY <1>1 DEF ServeCall
<1>5. \A g \in Handle : g # h => handle'[g] = handle[g] BY <1>3, <1>4
<1>6. \/ handle' = handle
      \/ handle[h].stage = "none" /\ handle'[h].stage = "requested"
      \/ handle'[h].stage \notin {"requested", "allocated"}
  BY <1>3, <1>4, DisposedStage
<1>7. handle[h].stage = "none" => \A w : ~ Holds(messages, AnswersOf(h) \cap AnswersWith(w))
  BY DEF OwnersOK, WaitingOK, Holds
<1>8. ASSUME NEW g \in Handle, NEW w \in Nat, Concerned(g, w)' PROVE Concerned(g, w)
  BY <1>2, <1>5, <1>6, <1>7, <1>8 DEF Concerned, Using, Waits
<1>9. \A c, w : Reported(c, w) => Reported(c, w)' BY <1>2 DEF Reported, Has
<1> QED BY <1>8, <1>9, NoneLostIs

LEMMA DisposeServerLosses ==
  ASSUME IInv, NoneLost, NEW c \in Client, DisposeServer(c) PROVE NoneLost'
<1>1. HandleOK BY DEF IInv
<1>2. messages' = messages /\ told' = told /\ watcherHandles' = watcherHandles BY DEF DisposeServer, service
<1>3. \A h \in Handle : handle'[h] = IF ClientOf(h) = c THEN Disposed(h) ELSE handle[h] BY DEF DisposeServer
<1>4. \A h \in Handle : handle'[h] = handle[h] \/ handle'[h].stage \notin {"requested", "allocated"}
  BY <1>1, <1>3, DisposedStage
<1>5. ASSUME NEW h \in Handle, NEW w \in Nat, Concerned(h, w)' PROVE Concerned(h, w)
  BY <1>2, <1>4, <1>5 DEF Concerned, Using, Waits
<1>6. \A d, w : Reported(d, w) => Reported(d, w)' BY <1>2 DEF Reported, Has
<1> QED BY <1>5, <1>6, NoneLostIs

(* An error reaches who is concerned; an answer makes one who uses of one  *)
(* who waits.                                                              *)
LEMMA ReceiveLosses ==
  ASSUME IInv, OwnersOK, NoneLost, Receive PROVE NoneLost'
<1>m. PICK m : m = Head(messages) OBVIOUS
<1>1. /\ messages \in Seq(MessageType) /\ messages # <<>> /\ messages' = Tail(messages)
      /\ watcherHandles' = watcherHandles /\ handle \in [Handle -> [stage : Stage, watcherId : Nat]]
  BY DEF IInv, MessagesOK, HandleOK, Receive, service
<1>2. m \in MessageType BY <1>m, <1>1
<1> SUFFICES ASSUME NEW h \in Handle, NEW w \in Nat, Concerned(h, w)' PROVE Reported(ClientOf(h), w)' BY NoneLostIs
<1>3. Waits(h, w)' => Holds(messages, AnswersOf(h) \cap AnswersWith(w)) BY <1>1, TailHolds DEF Waits
<1>4. Holds(messages, ErrorsFor(ClientOf(h))) => m \in ErrorsFor(ClientOf(h)) \/ Holds(messages', ErrorsFor(ClientOf(h)))
  BY <1>m, <1>1, TailHolds
<1>5. CASE m.kind = "error"
  <2>1. handle' = handle /\ told' = told \cup (serving \cap IF m.clients = {} THEN serving ELSE m.clients)
    BY <1>m, <1>5 DEF Receive
  <2>2. Concerned(h, w) BY <1>3, <2>1 DEF Concerned, Using, Waits
  <2>3. Reported(ClientOf(h), w) BY <2>2, NoneLostIs
  <2>4. m \in ErrorsFor(ClientOf(h)) => ClientOf(h) \in told' BY <2>1, <2>2, ConcernedServed DEF ErrorsFor
  <2> QED BY <1>1, <1>4, <2>1, <2>3, <2>4 DEF Reported, Has
<1>6. CASE m.kind # "error"
  <2>1. told' = told /\ m \notin ErrorsFor(ClientOf(h)) BY <1>m, <1>6 DEF Receive, ErrorsFor
  <2>2. Reported(ClientOf(h), w) => Reported(ClientOf(h), w)' BY <1>1, <1>4, <2>1 DEF Reported, Has
  <2>3. PICK g \in Handle : g = m.handle BY <1>2, <1>6, AnswerType
  <2>4. handle' = [handle EXCEPT ![g] = [stage |-> IF @.stage = "released" THEN "gone" ELSE "allocated", watcherId |-> m.watcherId]]
    BY <1>m, <1>6, <2>3 DEF Receive
  <2>5. CASE h # g
    <3>1. handle'[h] = handle[h] BY <2>4, <2>5
    <3>2. Concerned(h, w) BY <1>3, <3>1 DEF Concerned, Using, Waits
    <3> QED BY <2>2, <3>2, NoneLostIs
  <2>6. CASE h = g
    <3>1. handle'[g].stage = (IF handle[g].stage = "released" THEN "gone" ELSE "allocated") /\ handle'[g].watcherId = m.watcherId
      BY <1>1, <2>4
    <3>2. m.watcherId = w /\ handle[g].stage # "released" BY <2>6, <3>1 DEF Concerned, Using, Waits
    <3>3. m \in AnswersOf(h) /\ m \in AnswersWith(w)
      BY <1>2, <1>6, <2>3, <2>6, <3>2 DEF AnswersOf, AnswersWith, MessageType
    <3>4. /\ Holds(messages, AnswersOf(h))
          /\ Holds(messages, AnswersOf(h) \cap AnswersWith(w))
      BY <1>m, <1>1, <3>3, TailHolds
    <3>5. handle[h].stage = "requested" BY <2>6, <3>2, <3>4 DEF OwnersOK, WaitingOK
    <3>6. Concerned(h, w) BY <3>4, <3>5 DEF Concerned, Waits
    <3> QED BY <2>2, <3>6, NoneLostIs
  <2> QED BY <2>5, <2>6
<1> QED BY <1>5, <1>6

LEMMA ServeRequestLosses ==
  ASSUME IInv, IdsOK, NoneLost, ServeRequest PROVE NoneLost'
<1>r. PICK r : r = Head(requests) OBVIOUS
<1>1. /\ requests \in Seq(RequestType) /\ messages \in Seq(MessageType) /\ requests # <<>>
      /\ handle' = handle /\ told' = told
  BY DEF IInv, RequestsOK, MessagesOK, ServeRequest
<1>2. r \in RequestType BY <1>r, <1>1
<1> SUFFICES ASSUME NEW h \in Handle, NEW w \in Nat, Concerned(h, w)' PROVE Reported(ClientOf(h), w)' BY NoneLostIs
<1>3. CASE r.op = "watch" /\ WatchFileChanges(r.handle)
  <2> DEFINE a == Answer(r.handle)
  <2>1. messages' = Append(messages, a) BY <1>3 DEF WatchFileChanges
  <2>2. Holds(messages, ErrorsFor(ClientOf(h))) => Holds(messages', ErrorsFor(ClientOf(h))) BY <1>1, <2>1, AppendHolds
  <2>3. Reported(ClientOf(h), w) => Reported(ClientOf(h), w)' BY <1>1, <1>3, <2>2 DEF Reported, Has, WatchFileChanges
  <2>4. CASE a \in AnswersOf(h) \cap AnswersWith(w)
    <3>1. r.handle = h /\ watcherId = w BY <2>4 DEF Answer, AnswersOf, AnswersWith
    <3>2. PICK e \in watcherHandles' : e.id = watcherId /\ e.client = ClientOf(r.handle)
      <4>1. \E v : watcherHandles' = watcherHandles \cup {[id |-> watcherId, client |-> ClientOf(r.handle), watcher |-> v]}
        BY <1>3 DEF WatchFileChanges
      <4>2. PICK v : watcherHandles' = watcherHandles \cup {[id |-> watcherId, client |-> ClientOf(r.handle), watcher |-> v]}
        BY <4>1
      <4>3. [id |-> watcherId, client |-> ClientOf(r.handle), watcher |-> v] \in watcherHandles' BY <4>2
      <4> QED BY <4>3
    <3>3. Has(ClientOf(h), w)' BY <3>1, <3>2 DEF Has
    <3> QED BY <3>3 DEF Reported
  <2>5. CASE a \notin AnswersOf(h) \cap AnswersWith(w)
    <3> HIDE DEF a
    <3>1. Waits(h, w)' => Waits(h, w) BY <1>1, <2>1, <2>5, AppendHolds DEF Waits
    <3>2. Concerned(h, w) BY <1>1, <3>1 DEF Concerned, Using
    <3> QED BY <2>3, <3>2, NoneLostIs
  <2> QED BY <2>4, <2>5
<1>4. CASE r.op = "unwatch" /\ UnwatchFileChanges(r.watcherId)
  <2>1. messages' = messages BY <1>4 DEF UnwatchFileChanges
  <2>2. Concerned(h, w) BY <1>1, <2>1 DEF Concerned, Using, Waits
  <2>3. r.watcherId # w
    <3>1. SUFFICES ASSUME r.watcherId = w PROVE FALSE OBVIOUS
    <3>2. r \in UnwatchesOf(w) BY <1>2, <1>4, <3>1 DEF UnwatchesOf
    <3>3. Holds(requests, UnwatchesOf(w)) BY <1>r, <1>1, <3>2, TailHolds
    <3>4. ~ Using(h, w) /\ ~ Holds(messages, AnswersWith(w)) BY <3>3 DEF IdsOK, OnePlace
    <3> QED BY <2>2, <3>4 DEF Concerned, Waits, Holds
  <2>4. Reported(ClientOf(h), w) BY <2>2, NoneLostIs
  <2>5. Has(ClientOf(h), w) => Has(ClientOf(h), w)' BY <1>4, <2>3 DEF UnwatchFileChanges, Has
  <2> QED BY <1>1, <2>1, <2>4, <2>5 DEF Reported
<1> QED BY <1>r, <1>3, <1>4 DEF ServeRequest

(* The watcher in the map goes: by its timer, when there is no handle, or  *)
(* with an error to every client that has one.                             *)
LEMMA HandleCounts ==
  ASSUME ServiceOK, NEW e \in watcherHandles
  PROVE  /\ e.watcher = current /\ current \in DOMAIN watchers /\ e.client \in Client
         /\ e.client \in GetClientIds(current)
<1>1. /\ e.watcher = current /\ e.watcher \in DOMAIN watchers /\ e.client \in Client BY DEF ServiceOK
<1>2. e \in HandlesOf(current, e.client) BY <1>1 DEF HandlesOf
<1>3. Cardinality(HandlesOf(current, e.client)) \in Nat \ {0} BY <1>2, HandlesFinite, FS_EmptySet
<1>4. watchers[current].refs[e.client] \in Nat \ {0} BY <1>1, <1>3 DEF ServiceOK, RefsMatch
<1> QED BY <1>1, <1>4 DEF GetClientIds

LEMMA TimerLosses ==
  ASSUME IInv, NoneLost, NEW v \in DOMAIN watchers, TimerFires(v) PROVE NoneLost'
<1>1. v = current /\ GetClientIds(v) = {} BY DEF TimerFires, IInv, ServiceOK, RefsMatch
<1>2. watcherHandles = {} BY <1>1, HandleCounts DEF IInv
<1>3. watcherHandles' = watcherHandles BY <1>2 DEF TimerFires, Dispose
<1>4. handle' = handle /\ messages' = messages /\ told' = told BY DEF TimerFires, Unaffected
<1> QED BY <1>3, <1>4 DEF NoneLost, Concerned, Waits, Reported, Using, Has

LEMMA FailsLosses ==
  ASSUME IInv, NoneLost, NEW v \in DOMAIN watchers, Fails(v) PROVE NoneLost'
<1>1. messages \in Seq(MessageType) /\ messages' = Append(messages, Failed(GetClientIds(v)))
  BY DEF IInv, MessagesOK, Fails, FireError
<1>2. handle' = handle /\ told' = told BY DEF Fails, Unaffected
<1> SUFFICES ASSUME NEW h \in Handle, NEW w \in Nat, Concerned(h, w)' PROVE Reported(ClientOf(h), w)' BY NoneLostIs
<1>3. Failed(GetClientIds(v)) \notin AnswersOf(h) \cap AnswersWith(w) BY DEF Failed, AnswersOf
<1>4. Waits(h, w)' => Waits(h, w) BY <1>1, <1>2, <1>3, AppendHolds DEF Waits
<1>5. Concerned(h, w) BY <1>2, <1>4 DEF Concerned, Using
<1>6. Reported(ClientOf(h), w) BY <1>5, NoneLostIs
<1>7. Holds(messages, ErrorsFor(ClientOf(h))) => Holds(messages', ErrorsFor(ClientOf(h))) BY <1>1, AppendHolds
<1>8. CASE ~ Has(ClientOf(h), w) BY <1>2, <1>6, <1>7, <1>8 DEF Reported
<1>9. CASE watcherHandles' = watcherHandles BY <1>2, <1>6, <1>7, <1>9 DEF Reported, Has
<1>10. CASE Has(ClientOf(h), w) /\ watcherHandles' # watcherHandles
  <2>1. PICK e \in watcherHandles : e.client = ClientOf(h) BY <1>10 DEF Has
  <2>2. v = current BY <1>10 DEF Fails, IInv, ServiceOK, RefsMatch
  <2>3. ClientOf(h) \in GetClientIds(v) /\ GetClientIds(v) \subseteq Client
    BY <2>1, <2>2, HandleCounts DEF IInv, GetClientIds
  <2>4. Failed(GetClientIds(v)) \in ErrorsFor(ClientOf(h)) BY <2>3 DEF Failed, ErrorsFor, MessageType
  <2>5. Holds(messages', ErrorsFor(ClientOf(h))) BY <1>1, <2>4, AppendHolds
  <2> QED BY <2>5 DEF Reported
<1> QED BY <1>8, <1>9, <1>10

LEMMA LossesStep ==
  ASSUME IInv, OwnersOK, IdsOK, NoneLost, [Next]_vars, ~ Crash PROVE NoneLost'
<1>1. ASSUME UNCHANGED <<handle, messages, told, watcherHandles>> PROVE NoneLost'
  <2>1. handle' = handle /\ messages' = messages /\ told' = told /\ watcherHandles' = watcherHandles BY <1>1
  <2> QED BY <2>1 DEF NoneLost, Concerned, Waits, Reported, Using, Has
<1>2. \/ UNCHANGED <<handle, messages, told, watcherHandles>>
      \/ \E f \in FrontEnd : ServeCall(f)
      \/ \E c \in Client : DisposeServer(c)
      \/ Receive \/ ServeRequest \/ \E v \in DOMAIN watchers : TimerFires(v) \/ Fails(v)
  BY DEF Next, vars, service, Unaffected, Watch, Unwatch, Open, Close, CheckPath, Created
<1> QED BY <1>1, <1>2, ServeCallLosses, DisposeServerLosses, ReceiveLosses, ServeRequestLosses, TimerLosses, FailsLosses

(* What a client has allocated is watched as long as the process has not   *)
(* exited, unless the client was told of an error or will be: no           *)
(* interleaving of unwatching, timers and failures takes the watcher from  *)
(* a client that still uses it without a word.                             *)
THEOREM NoLossIsSilent == Spec => []NoSilentLoss
<1> DEFINE Losses == IInv /\ OwnersOK /\ (crashes = 0 => IdsOK /\ NoneLost)
<1>1. Init => IdsOK /\ NoneLost
  BY DEF Init, IdsOK, OnePlace, NoneLost, Concerned, Waits, Holds, HoldsOnce, Using
<1>2. Losses /\ [Next]_vars => (crashes = 0 => IdsOK /\ NoneLost)'
  <2> SUFFICES ASSUME Losses, [Next]_vars, crashes' = 0 PROVE IdsOK' /\ NoneLost' OBVIOUS
  <2>1. crashes \in Nat BY DEF IInv, RestOK
  <2>2. ~ Crash BY <2>1 DEF Crash
  <2>3. crashes' = crashes
    BY <2>2 DEF Next, vars, Unaffected, Watch, Unwatch, Open, Close, ServeCall, DisposeServer, Receive, ServeRequest,
       TimerFires, CheckPath, Created, Fails
  <2> QED BY <2>2, <2>3, IdsStep, LossesStep
<1>3. Losses => NoSilentLoss
  <2> SUFFICES ASSUME Losses, crashes = 0, NEW h \in Handle, handle[h].stage = "allocated"
               PROVE  \/ \E e \in HandlesOf(current, ClientOf(h)) : e.id = handle[h].watcherId
                      \/ ClientOf(h) \in told
                      \/ \E j \in DOMAIN messages : messages[j].kind = "error" /\ ClientOf(h) \in messages[j].clients
    BY DEF NoSilentLoss
  <2>1. handle[h].watcherId \in Nat BY DEF IInv, HandleOK
  <2>2. Reported(ClientOf(h), handle[h].watcherId) BY <2>1 DEF NoneLost, Concerned, Using
  <2>3. Has(ClientOf(h), handle[h].watcherId)
          => \E e \in HandlesOf(current, ClientOf(h)) : e.id = handle[h].watcherId
    BY HandleCounts DEF IInv, Has, HandlesOf
  <2> QED BY <2>2, <2>3 DEF Reported, Holds, ErrorsFor
<1> HIDE DEF Losses
<1>4. Spec => []Losses
  <2>1. (IInv /\ OwnersOK) /\ (crashes = 0 => IdsOK /\ NoneLost) <=> Losses BY DEF Losses
  <2>2. (IInv /\ OwnersOK /\ HandlesOwned) /\ (crashes = 0 => IdsOK /\ NoneLost) /\ [Next]_vars
          => (crashes = 0 => IdsOK /\ NoneLost)'
    BY <1>2, <2>1
  <2> QED BY <1>1, <2>1, <2>2, AlwaysOwned, PTL DEF Spec
<1> QED BY <1>3, <1>4, PTL
=============================================================================
