-------------------------- MODULE WatchDeduplication --------------------------
(***************************************************************************)
(* FileService.watch (packages/filesystem/src/browser/file-service.ts):    *)
(* the watches asked for in a window share the real watchers of the file   *)
(* system provider.  A watch joins an entry with its key, or is subsumed   *)
(* by the entry of a recursive watch above it, or starts a real watcher,   *)
(* which then subsumes the entries below it; when an entry goes, those it  *)
(* subsumed are given to another one or to real watchers of their own.     *)
(* A key stands for a resource, the recursive flag and the excludes.       *)
(***************************************************************************)
EXTENDS Naturals, FiniteSets

CONSTANTS
  Key,         \* watch keys
  Resource,    \* what they watch
  At,          \* key -> its resource
  Recursive,   \* keys of recursive watches
  Within,      \* <<r, s>>: resource s is r or below it (isEqualOrParent)
  Pattern,     \* exclude patterns
  Excludes,    \* key -> the patterns it excludes
  Matches,     \* <<x, r, s>>: x matches the path from r to s or to a folder
               \* between (matchesExcludePattern)
  Consumer,    \* callers of watch
  None

ASSUME KeyAssumption ==
  /\ None \notin Key
  /\ At \in [Key -> Resource] /\ Recursive \subseteq Key
  /\ Within \subseteq Resource \X Resource
  /\ Excludes \in [Key -> SUBSET Pattern]
  /\ Matches \subseteq Pattern \X Resource \X Resource
  /\ IsFiniteSet(Consumer)

VARIABLES
  phase,            \* consumer -> where its call of watch stands
  wants,            \* consumer -> the key it asked for
  count,            \* key -> count of its entry, 0: not in activeWatchers
  real,             \* keys whose entry has a realWatcher
  subsumingParent,  \* key -> the entry that subsumes its entry, or None
  subsumedChildren, \* key -> keys its entry subsumes
  index,            \* recursiveWatcherIndex: resource -> key or None
  watching          \* key -> watchers the provider runs for its entry

entries == <<count, real, subsumingParent, subsumedChildren, index, watching>>
vars == <<phase, wants, entries>>

-----------------------------------------------------------------------------
Init ==
  /\ phase = [c \in Consumer |-> "idle"] /\ wants = [c \in Consumer |-> None]
  /\ count = [k \in Key |-> 0] /\ real = {}
  /\ subsumingParent = [k \in Key |-> None]
  /\ subsumedChildren = [k \in Key |-> {}]
  /\ index = [r \in Resource |-> None]
  /\ watching = [k \in Key |-> 0]

Active == {k \in Key : count[k] > 0}

(* A recursive watch may subsume one within it if it does not exclude it    *)
(* and, as far as that is recursive too, hides nothing of what is below it. *)
IsExcludedByParent(p, k) ==
  At[p] # At[k] /\ \E x \in Excludes[p] : <<x, At[p], At[k]>> \in Matches

AreExcludesCompatible(p, k) == k \in Recursive => Excludes[p] \subseteq Excludes[k]

MaySubsume(p, k) ==
  /\ p \in Recursive /\ p # k /\ <<At[p], At[k]>> \in Within
  /\ ~ IsExcludedByParent(p, k) /\ AreExcludesCompatible(p, k)

\* Mistake: the excludes of the parent are not looked at.
FindAnyParent(idx, k) ==
  {p \in Active :
     /\ idx[At[p]] = p /\ <<At[p], At[k]>> \in Within
     /\ \A r \in Resource : idx[r] # None /\ <<r, At[k]>> \in Within => <<r, At[p]>> \in Within}

(* findSubsumingParent: the entry indexed nearest above the resource of k,  *)
(* if it may subsume k.  One key, or none.                                  *)
FindSubsumingParent(idx, k) ==
  {p \in Active :
     /\ idx[At[p]] = p /\ <<At[p], At[k]>> \in Within
     /\ \A r \in Resource : idx[r] # None /\ <<r, At[k]>> \in Within => <<r, At[p]>> \in Within
     /\ MaySubsume(p, k)}

\* Mistake: whether there is one is not checked.
StoppedUnchecked(E) == E

\* Mistake: it is forgotten without being disposed.
StoppedNot(E) == {}

(* The real watchers among those of the entries in E, which are disposed.   *)
Stopped(E) == E \cap real

(* provider.watch, and the disposal of what it returned.                    *)
Rewatch(added, removed) ==
  [k \in Key |-> watching[k] + (IF k \in added THEN 1 ELSE 0)
                             - (IF k \in removed THEN 1 ELSE 0)]

-----------------------------------------------------------------------------
(* doWatch, once the provider is there: (A) join the entry of the key ...   *)
Join(k) ==
  /\ k \in Active
  /\ count' = [count EXCEPT ![k] = @ + 1]
  /\ UNCHANGED <<real, subsumingParent, subsumedChildren, index, watching>>

(* ... (B) or be subsumed by the entry of a parent ...                      *)
BeSubsumed(k) ==
  /\ k \notin Active
  /\ \E p \in FindSubsumingParent(index, k) :
       /\ subsumingParent' = [subsumingParent EXCEPT ![k] = p]
       /\ subsumedChildren' = [subsumedChildren EXCEPT ![p] = @ \cup {k}]
  /\ count' = [count EXCEPT ![k] = 1]
  /\ UNCHANGED <<real, index, watching>>

(* subsumeExistingChildren: entries that are not subsumed yet come under k, *)
(* with what they subsumed; of that, what k does not cover gets a real      *)
(* watcher.  Whether a resource at which one entry is subsumed and another  *)
(* gets its watcher stays indexed is left open (the order of a Map).        *)
Subsumed(k)  == {c \in Active : subsumingParent[c] = None /\ MaySubsume(k, c)}

\* Mistake: what a subsumed entry had subsumed is not looked at.
NoGrand(k) == {}

Grand(k)     == Active \cap UNION {subsumedChildren[c] : c \in Subsumed(k)}
Adopted(k)   == {g \in Grand(k) : MaySubsume(k, g)}
Unadopted(k) == Grand(k) \ Adopted(k)

Indexings(k) ==
  LET cleared == {At[c] : c \in {d \in Subsumed(k) \cap Recursive : At[d] # At[k]}}
      fresh == Unadopted(k) \cap Recursive
      may == [r \in Resource |->
                LET new == {g \in fresh : At[g] = r}
                IN IF new # {} THEN new \cup (IF r \in cleared THEN {None} ELSE {})
                   ELSE IF r \in cleared THEN {None}
                   ELSE IF r = At[k] THEN {k}
                   ELSE {index[r]}]
  IN {i \in [Resource -> UNION {may[r] : r \in Resource}] : \A r \in Resource : i[r] \in may[r]}

(* ... (C) or start a real watcher, and (D) take over what is below it.     *)
StartPlain(k) ==
  /\ k \notin Active \cup Recursive /\ FindSubsumingParent(index, k) = {}
  /\ count' = [count EXCEPT ![k] = 1] /\ real' = real \cup {k}
  /\ watching' = Rewatch({k}, {})
  /\ UNCHANGED <<subsumingParent, subsumedChildren, index>>

StartRecursive(k) ==
  /\ k \in Recursive \ Active /\ FindSubsumingParent(index, k) = {}
  /\ count' = [count EXCEPT ![k] = 1]
  /\ real' = ((real \ Subsumed(k)) \cup Unadopted(k)) \cup {k}
  /\ watching' = Rewatch(Unadopted(k) \cup {k}, Stopped(Subsumed(k)))
  /\ subsumingParent' = [c \in Key |-> IF c \in Subsumed(k) \cup Adopted(k) THEN k
                                       ELSE IF c \in Unadopted(k) THEN None
                                       ELSE subsumingParent[c]]
  /\ subsumedChildren' = [c \in Key |-> IF c = k THEN Subsumed(k) \cup Adopted(k)
                                        ELSE IF c \in Subsumed(k) THEN {}
                                        ELSE subsumedChildren[c]]
  /\ index' \in Indexings(k)

Register(k) == Join(k) \/ BeSubsumed(k) \/ StartPlain(k) \/ StartRecursive(k)

-----------------------------------------------------------------------------
(* promoteSubsumedChildren: one after the other, in an order left open (that *)
(* of a Set), the children find another parent or get a real watcher, which *)
(* is indexed if it is recursive, so that the next child may find it.       *)
Orders(C) == {o \in [C -> 1 .. Cardinality(C)] : \A c, d \in C : o[c] = o[d] => c = d}

Reindexed(idx, D, o) ==
  [r \in Resource |->
     LET last(d) == At[d] = r /\ \A e \in D : At[e] = r => o[e] <= o[d]
     IN IF \E d \in D : last(d) THEN CHOOSE d \in D : last(d) ELSE idx[r]]

\* The children promoted to a real watcher before c, in the order o.
PromotedBefore(o, pick, C, c) ==
  {d \in C \cap Recursive : pick[d] = None /\ o[d] < o[c]}

Picks(idx, C, o) ==
  {pick \in [C -> (Active \cap Recursive) \cup {None}] :
     \A c \in C : LET parents == FindSubsumingParent(Reindexed(idx, PromotedBefore(o, pick, C, c), o), c)
                  IN IF parents = {} THEN pick[c] = None ELSE pick[c] \in parents}

\* Mistake: the index is not cleared.
IndexWith(k) == index

(* removeFromRecursiveIndex, as disposeWatcherEntry calls it.               *)
IndexWithout(k) ==
  IF k \in Recursive \cap real THEN [index EXCEPT ![At[k]] = None] ELSE index

(* disposeWatcherEntry.                                                     *)
Release(k) ==
  LET children == subsumedChildren[k] \cap (Active \ {k})
      idx == IndexWithout(k)
  IN \E o \in Orders(children) : \E pick \in Picks(idx, children, o) :
       LET promoted == {c \in children : pick[c] = None}
       IN /\ count' = [count EXCEPT ![k] = 0]
          /\ real' = (real \cup promoted) \ {k}
          /\ watching' = Rewatch(promoted, Stopped({k}))
          /\ subsumingParent' = [c \in Key |-> IF c = k THEN None
                                               ELSE IF c \in children THEN pick[c]
                                               ELSE subsumingParent[c]]
          /\ subsumedChildren' = [p \in Key |->
                IF p = k THEN {}
                ELSE (subsumedChildren[p] \ {k}) \cup {c \in children : pick[c] = p}]
          /\ index' = Reindexed(idx, promoted \cap Recursive, o)

(* A disposable of the entry is disposed.                                   *)
Unref(k) ==
  \/ /\ count[k] > 1
     /\ count' = [count EXCEPT ![k] = @ - 1]
     /\ UNCHANGED <<real, subsumingParent, subsumedChildren, index, watching>>
  \/ count[k] = 1 /\ Release(k)

-----------------------------------------------------------------------------
(* The callers.  watch returns a disposable at once and calls doWatch, which *)
(* awaits the provider; what is disposed before is disposed after all once  *)
(* doWatch has come back.                                                   *)
Watch(c) ==
  /\ phase[c] = "idle"
  /\ \E k \in Key : wants' = [wants EXCEPT ![c] = k]
  /\ phase' = [phase EXCEPT ![c] = "pending"]
  /\ UNCHANGED entries

DoWatch(c) ==
  /\ phase[c] \in {"pending", "abandoned"}
  /\ Register(wants[c])
  /\ phase' = [phase EXCEPT ![c] = IF @ = "pending" THEN "watching" ELSE "leaving"]
  /\ UNCHANGED wants

\* The disposable is disposed while doWatch is under way.
Abandon(c) ==
  /\ phase[c] = "pending"
  /\ phase' = [phase EXCEPT ![c] = "abandoned"]
  /\ UNCHANGED <<wants, entries>>

\* It is disposed later, or by the continuation of watch.
Dispose(c) ==
  /\ phase[c] \in {"watching", "leaving"}
  /\ Unref(wants[c])
  /\ phase' = [phase EXCEPT ![c] = "idle"]
  /\ wants' = [wants EXCEPT ![c] = None]

Next == \E c \in Consumer : Watch(c) \/ DoWatch(c) \/ Abandon(c) \/ Dispose(c)

Spec == Init /\ [][Next]_vars

-----------------------------------------------------------------------------
TypeOK ==
  /\ phase \in [Consumer -> {"idle", "pending", "abandoned", "watching", "leaving"}]
  /\ wants \in [Consumer -> Key \cup {None}]
  /\ count \in [Key -> Nat] /\ real \subseteq Key
  /\ subsumingParent \in [Key -> Key \cup {None}]
  /\ subsumedChildren \in [Key -> SUBSET Key]
  /\ index \in [Resource -> Key \cup {None}]
  /\ watching \in [Key -> Nat]

(* Nothing that is watched for a caller goes unreported: its entry has a    *)
(* watcher of its own or is subsumed by one that has and that may subsume   *)
(* it, in whatever order watches come and go.                               *)
Covered ==
  \A k \in Active :
    \/ k \in real
    \/ \E p \in Active \cap real : p = subsumingParent[k] /\ MaySubsume(p, k)

(* Parents and children agree, one level deep: an entry is on the list of   *)
(* its parent and of no other, so that it is promoted when the parent goes. *)
LinksAgree ==
  /\ \A k, p \in Key : subsumingParent[k] = p <=> k \in subsumedChildren[p]
  /\ \A k \in Key : subsumedChildren[k] # {} => k \in Active /\ subsumingParent[k] = None

(* The index of recursive watches leads only to entries with a real watcher *)
(* at that resource: a new watch is not put under a dead or subsumed one.   *)
IndexedIsReal ==
  \A r \in Resource : index[r] # None => index[r] \in Active \cap real \cap Recursive /\ At[index[r]] = r

(* An entry counts the callers it has and runs one watcher while it is not  *)
(* subsumed and none otherwise: no watcher is lost, and once everybody has  *)
(* left the provider watches nothing.                                       *)
NothingLeaks ==
  \A k \in Key :
    /\ count[k] = Cardinality({c \in Consumer : wants[c] = k /\ phase[c] \in {"watching", "leaving"}})
    /\ watching[k] = IF k \in Active /\ subsumingParent[k] = None THEN 1 ELSE 0

=============================================================================
