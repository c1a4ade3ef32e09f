---------------------- MODULE WatchDeduplication_proofs ----------------------
(***************************************************************************)
(* What holds of WatchDeduplication for every value of its constants.      *)
(***************************************************************************)
EXTENDS WatchDeduplication, FiniteSetTheorems, TLAPS

(* The invariant of the entries, one conjunct for each pair of variables    *)
(* that must agree.                                                         *)
EntriesType ==
  /\ count \in [Key -> Nat] /\ real \subseteq Key
  /\ subsumingParent \in [Key -> Key \cup {None}]
  /\ subsumedChildren \in [Key -> SUBSET Key]
  /\ index \in [Resource -> Key \cup {None}]
  /\ watching \in [Key -> Nat]

Linked == \A k, p \in Key : subsumingParent[k] = p <=> k \in subsumedChildren[p]

ParentReal ==
  \A k \in Key : subsumingParent[k] # None =>
    /\ k \in Active /\ subsumingParent[k] \in real
    /\ MaySubsume(subsumingParent[k], k)

RealUnsubsumed == \A k \in Key : k \in real <=> k \in Active /\ subsumingParent[k] = None

IndexReal ==
  \A r \in Resource : index[r] # None => index[r] \in real \cap Recursive /\ At[index[r]] = r

WatchedOnce == \A k \in Key : watching[k] = IF k \in real THEN 1 ELSE 0

EntriesInv ==
  EntriesType /\ Linked /\ ParentReal /\ RealUnsubsumed /\ IndexReal /\ WatchedOnce

-----------------------------------------------------------------------------
\* What a watch may subsume is another key; whether it may depends on no
\* variable.
LEMMA MaySubsumeFacts ==
  ASSUME NEW p \in Key, NEW k \in Key, MaySubsume(p, k)
  PROVE  p # k /\ p \in Recursive
BY DEF MaySubsume

\* FindSubsumingParent, with the index as it is, returns real entries.
LEMMA FoundIsReal ==
  ASSUME EntriesInv, NEW k \in Key, NEW p \in FindSubsumingParent(index, k)
  PROVE  p \in Key /\ p \in Active /\ p \in real /\ MaySubsume(p, k)
<1>1. p \in Key /\ p \in Active /\ index[At[p]] = p /\ MaySubsume(p, k)
  BY DEF FindSubsumingParent, Active
<1>2. At[p] \in Resource /\ p # None
  BY <1>1, KeyAssumption
<1> QED BY <1>1, <1>2 DEF EntriesInv, IndexReal

\* An index entry that was set anew is one of those that were indexed.
LEMMA ReindexedCases ==
  ASSUME NEW idx \in [Resource -> Key \cup {None}], NEW D \in SUBSET Key, NEW o,
         NEW r \in Resource
  PROVE  \/ Reindexed(idx, D, o)[r] = idx[r]
         \/ Reindexed(idx, D, o)[r] \in D /\ At[Reindexed(idx, D, o)[r]] = r
<1> DEFINE last(d) == At[d] = r /\ \A e \in D : At[e] = r => o[e] <= o[d]
<1>1. Reindexed(idx, D, o)[r] = IF \E d \in D : last(d) THEN CHOOSE d \in D : last(d) ELSE idx[r]
  BY DEF Reindexed
<1>2. CASE \E d \in D : last(d)
  <2>1. (CHOOSE d \in D : last(d)) \in D /\ last(CHOOSE d \in D : last(d))
    BY <1>2
  <2> QED BY <2>1, <1>1, <1>2
<1>3. CASE ~ \E d \in D : last(d)
  BY <1>1, <1>3
<1> QED BY <1>2, <1>3

\* Starting watchers for entries that have none and stopping watchers of
\* others leaves one watcher for each real entry.
LEMMA RewatchOnce ==
  ASSUME EntriesInv, NEW A \in SUBSET Key, NEW B \in SUBSET Key,
         A \cap real = {}, B \subseteq real,
         watching' = Rewatch(A, B), real' = (real \cup A) \ B
  PROVE  WatchedOnce' /\ watching' \in [Key -> Nat]
<1>1. ASSUME NEW k \in Key
      PROVE  watching'[k] = IF k \in (real \cup A) \ B THEN 1 ELSE 0
  <2>1. watching[k] = IF k \in real THEN 1 ELSE 0
    BY DEF EntriesInv, WatchedOnce
  <2>2. watching'[k] = watching[k] + (IF k \in A THEN 1 ELSE 0) - (IF k \in B THEN 1 ELSE 0)
    BY DEF Rewatch
  <2>3. CASE k \in A
    BY <2>1, <2>2, <2>3
  <2>4. CASE k \in B
    BY <2>1, <2>2, <2>4
  <2>5. CASE k \notin A \cup B
    BY <2>1, <2>2, <2>5
  <2> QED BY <2>3, <2>4, <2>5
<1>2. watching' = [k \in Key |-> watching'[k]]
  BY DEF Rewatch
<1>3. watching' \in [Key -> Nat]
  BY <1>1, <1>2
<1> QED BY <1>1, <1>3 DEF WatchedOnce

-----------------------------------------------------------------------------
(* Each operation on the entries preserves their invariant.                 *)

\* Joining an entry changes nothing but its count.
LEMMA JoinInv ==
  ASSUME EntriesInv, NEW k \in Key, Join(k)
  PROVE  EntriesInv'
<1>1. Active' = Active
  BY DEF Join, Active, EntriesInv, EntriesType
<1>2. EntriesType'
  BY DEF Join, EntriesInv, EntriesType
<1>3. (Linked /\ IndexReal /\ WatchedOnce)'
  BY DEF Join, EntriesInv, Linked, IndexReal, WatchedOnce
<1>4. (ParentReal /\ RealUnsubsumed)'
  BY <1>1 DEF Join, EntriesInv, ParentReal, RealUnsubsumed, MaySubsume, IsExcludedByParent, AreExcludesCompatible
<1> QED BY <1>2, <1>3, <1>4 DEF EntriesInv

\* A subsumed entry is put under a real one.
LEMMA BeSubsumedInv ==
  ASSUME EntriesInv, NEW k \in Key, BeSubsumed(k)
  PROVE  EntriesInv'
<1>1. PICK p \in FindSubsumingParent(index, k) :
        /\ subsumingParent' = [subsumingParent EXCEPT ![k] = p]
        /\ subsumedChildren' = [subsumedChildren EXCEPT ![p] = @ \cup {k}]
  BY DEF BeSubsumed
<1>2. p \in Key /\ p \in Active /\ p \in real /\ MaySubsume(p, k) /\ p # None
  BY <1>1, FoundIsReal, KeyAssumption
<1>3. Active' = Active \cup {k}
  BY DEF BeSubsumed, Active, EntriesInv, EntriesType
<1>4. subsumingParent[k] = None /\ k \notin real
  BY DEF BeSubsumed, EntriesInv, EntriesType, ParentReal, RealUnsubsumed
<1>5. EntriesType'
  BY <1>1, <1>2 DEF BeSubsumed, EntriesInv, EntriesType
<1>6. Linked'
  BY <1>1, <1>2, <1>4, KeyAssumption DEF EntriesInv, EntriesType, Linked
<1>7. ParentReal'
  <2>1. real' = real
    BY DEF BeSubsumed
  <2>2. ASSUME NEW j \in Key, j # k, subsumingParent'[j] # None
        PROVE  j \in Active' /\ subsumingParent'[j] \in real' /\ MaySubsume(subsumingParent'[j], j)
    <3>1. subsumingParent'[j] = subsumingParent[j]
      BY <1>1, <2>2 DEF EntriesInv, EntriesType
    <3>2. j \in Active /\ subsumingParent[j] \in real /\ MaySubsume(subsumingParent[j], j)
      BY <2>2, <3>1 DEF EntriesInv, ParentReal
    <3> QED BY <3>1, <3>2, <1>3, <2>1
  <2>3. subsumingParent'[k] = p
    BY <1>1 DEF EntriesInv, EntriesType
  <2> QED BY <2>1, <2>2, <2>3, <1>2, <1>3 DEF ParentReal
<1>8. RealUnsubsumed'
  BY <1>1, <1>2, <1>3, <1>4 DEF BeSubsumed, EntriesInv, EntriesType, RealUnsubsumed
<1>9. (IndexReal /\ WatchedOnce)'
  BY DEF BeSubsumed, EntriesInv, IndexReal, WatchedOnce
<1> QED BY <1>5, <1>6, <1>7, <1>8, <1>9 DEF EntriesInv

\* A plain watch starts a real watcher and concerns no other entry.
LEMMA StartPlainInv ==
  ASSUME EntriesInv, NEW k \in Key, StartPlain(k)
  PROVE  EntriesInv'
<1>1. Active' = Active \cup {k}
  BY DEF StartPlain, Active, EntriesInv, EntriesType
<1>2. subsumingParent[k] = None /\ k \notin real
  BY DEF StartPlain, EntriesInv, EntriesType, ParentReal, RealUnsubsumed
<1>3. WatchedOnce' /\ watching' \in [Key -> Nat]
  BY <1>2, RewatchOnce DEF StartPlain
<1>4. EntriesType'
  BY <1>3 DEF StartPlain, EntriesInv, EntriesType
<1>5. Linked' /\ IndexReal'
  BY DEF StartPlain, EntriesInv, Linked, IndexReal
<1>6. ParentReal'
  BY <1>1, <1>2 DEF StartPlain, EntriesInv, EntriesType, ParentReal,
     MaySubsume, IsExcludedByParent, AreExcludesCompatible
<1>7. RealUnsubsumed'
  BY <1>1, <1>2 DEF StartPlain, EntriesInv, EntriesType, RealUnsubsumed
<1> QED BY <1>3, <1>4, <1>5, <1>6, <1>7 DEF EntriesInv

\* A recursive watch takes over whole entries: those it subsumes with all
\* they had subsumed.
LEMMA StartRecursiveInv ==
  ASSUME EntriesInv, NEW k \in Key, StartRecursive(k)
  PROVE  EntriesInv'
<1> DEFINE S == Subsumed(k)
           A == Adopted(k)
           U == Unadopted(k)
<1>1. k \in Recursive /\ k \notin Active /\ k \notin real /\ k # None /\ subsumingParent[k] = None
  BY KeyAssumption DEF StartRecursive, EntriesInv, EntriesType, ParentReal, RealUnsubsumed
<1>2. Active' = Active \cup {k} /\ Active \subseteq Key
  BY DEF StartRecursive, Active, EntriesInv, EntriesType
<1>3. \A x \in S : x \in Key /\ x \in Active /\ subsumingParent[x] = None /\ x \in real /\ MaySubsume(k, x)
  BY <1>2 DEF Subsumed, EntriesInv, RealUnsubsumed
<1>a. A \cup U = Grand(k)
  BY DEF Adopted, Unadopted
<1>4. \A x \in A \cup U : x \in Key /\ x \in Active /\ subsumingParent[x] \in S
  <2> SUFFICES ASSUME NEW x \in Grand(k)
               PROVE  x \in Key /\ x \in Active /\ subsumingParent[x] \in S
    BY <1>a
  <2>1. PICK c \in S : x \in subsumedChildren[c]
    BY DEF Grand
  <2>2. x \in Key /\ x \in Active
    BY <1>2 DEF Grand
  <2> QED BY <1>3, <2>1, <2>2 DEF EntriesInv, Linked
<1>5. \A x \in Key : subsumingParent[x] \in S => x \in A \cup U
  <2> SUFFICES ASSUME NEW x \in Key, subsumingParent[x] \in S
               PROVE  x \in Grand(k)
    BY <1>a
  <2>1. subsumingParent[x] \in Key /\ x \in subsumedChildren[subsumingParent[x]]
    BY <1>3 DEF EntriesInv, Linked
  <2>2. x \in Active
    BY <2>1, KeyAssumption DEF EntriesInv, ParentReal
  <2> QED BY <2>1, <2>2 DEF Grand
<1>6. \A x \in A : MaySubsume(k, x)
  BY DEF Adopted
<1>7. A \cap U = {} /\ S \cap (A \cup U) = {} /\ k \notin S \cup A \cup U /\ U \cap real = {} /\ A \cap real = {}
  <2>1. A \cap U = {}
    BY DEF Adopted, Unadopted
  <2>2. \A x \in A \cup U : subsumingParent[x] # None
    BY <1>3, <1>4, KeyAssumption
  <2> QED BY <2>1, <2>2, <1>1, <1>3, <1>4 DEF EntriesInv, RealUnsubsumed
<1> HIDE DEF S, A, U
<1>8. /\ count' = [count EXCEPT ![k] = 1]
      /\ real' = ((real \ S) \cup U) \cup {k}
      /\ watching' = Rewatch(U \cup {k}, Stopped(S))
      /\ subsumingParent' = [c \in Key |-> IF c \in S \cup A THEN k
                                           ELSE IF c \in U THEN None ELSE subsumingParent[c]]
      /\ subsumedChildren' = [c \in Key |-> IF c = k THEN S \cup A
                                            ELSE IF c \in S THEN {} ELSE subsumedChildren[c]]
      /\ index' \in Indexings(k)
  BY DEF StartRecursive, S, A, U
<1>9. WatchedOnce' /\ watching' \in [Key -> Nat]
  <2>1. Stopped(S) = S /\ S \subseteq real /\ S \subseteq Key
    BY <1>3 DEF Stopped
  <2>2. real' = (real \cup (U \cup {k})) \ S
    BY <1>7, <1>8
  <2>3. U \cup {k} \subseteq Key /\ (U \cup {k}) \cap real = {}
    BY <1>1, <1>4, <1>7
  <2> QED BY <2>1, <2>2, <2>3, <1>8, RewatchOnce
<1>10. \A r \in Resource : index'[r] # None =>
          \/ index'[r] \in U \cap Recursive /\ At[index'[r]] = r
          \/ index'[r] = k /\ At[k] = r
          \/ index'[r] = index[r] /\ index[r] \notin S
  <2> SUFFICES ASSUME NEW r \in Resource, index'[r] # None
               PROVE  \/ index'[r] \in U \cap Recursive /\ At[index'[r]] = r
                      \/ index'[r] = k /\ At[k] = r
                      \/ index'[r] = index[r] /\ index[r] \notin S
    OBVIOUS
  <2> DEFINE cleared == {At[c] : c \in {d \in S \cap Recursive : At[d] # At[k]}}
             new == {g \in U \cap Recursive : At[g] = r}
  <2>1. index'[r] \in IF new # {} THEN new \cup (IF r \in cleared THEN {None} ELSE {})
                      ELSE IF r \in cleared THEN {None}
                      ELSE IF r = At[k] THEN {k} ELSE {index[r]}
    BY <1>8 DEF Indexings, S, U
  <2>2. CASE new # {}
    BY <2>1, <2>2
  <2>3. CASE new = {} /\ r = At[k]
    BY <2>1, <2>3
  <2>4. CASE new = {} /\ r # At[k]
    <3>1. index'[r] = index[r] /\ r \notin cleared
      BY <2>1, <2>4
    <3>2. index[r] \in Recursive /\ At[index[r]] = r
      BY <3>1 DEF EntriesInv, IndexReal
    <3> QED BY <3>1, <3>2, <2>4
  <2> QED BY <2>2, <2>3, <2>4
<1>11. index' \in [Resource -> Key \cup {None}]
  <2>1. index' = [r \in Resource |-> index'[r]]
    BY <1>8 DEF Indexings
  <2>2. \A r \in Resource : index'[r] \in Key \cup {None}
    BY <1>10, <1>4 DEF EntriesInv, EntriesType
  <2> QED BY <2>1, <2>2
<1>12. EntriesType'
  BY <1>3, <1>4, <1>8, <1>9, <1>11 DEF EntriesInv, EntriesType
<1>13. Linked'
  <2> SUFFICES ASSUME NEW x \in Key, NEW p \in Key
               PROVE  subsumingParent'[x] = p <=> x \in subsumedChildren'[p]
    BY DEF Linked
  <2>0. subsumingParent[x] = p <=> x \in subsumedChildren[p]
    BY DEF EntriesInv, Linked
  <2>1. /\ subsumingParent'[x] = IF x \in S \cup A THEN k
                                ELSE IF x \in U THEN None ELSE subsumingParent[x]
        /\ subsumedChildren'[p] = IF p = k THEN S \cup A
                                 ELSE IF p \in S THEN {} ELSE subsumedChildren[p]
    BY <1>8
  <2>2. CASE p = k
    <3>1. subsumingParent[x] # k
      BY <1>1 DEF EntriesInv, ParentReal
    <3> QED BY <3>1, <2>1, <2>2, <1>1, <1>7
  <2>3. CASE p \in S
    BY <2>1, <2>3, <1>5, <1>7, KeyAssumption
  <2>4. CASE p # k /\ p \notin S
    <3>1. CASE x \in S \cup A \cup U
      BY <3>1, <2>0, <2>1, <2>4, <1>3, <1>4, KeyAssumption
    <3>2. CASE x \notin S \cup A \cup U
      BY <3>2, <2>0, <2>1, <2>4
    <3> QED BY <3>1, <3>2
  <2> QED BY <2>2, <2>3, <2>4
<1>14. ParentReal'
  <2> SUFFICES ASSUME NEW x \in Key, subsumingParent'[x] # None
               PROVE  /\ x \in Active' /\ subsumingParent'[x] \in real'
                      /\ MaySubsume(subsumingParent'[x], x)
    BY DEF ParentReal
  <2>1. CASE x \in S \cup A
    BY <2>1, <1>2, <1>3, <1>4, <1>6, <1>8
  <2>2. CASE x \notin S \cup A
    <3>1. x \notin U /\ subsumingParent'[x] = subsumingParent[x]
      BY <2>2, <1>8
    <3>2. subsumingParent[x] \notin S
      BY <3>1, <2>2, <1>5
    <3> QED BY <3>1, <3>2, <1>2, <1>8 DEF EntriesInv, ParentReal
  <2> QED BY <2>1, <2>2
<1>15. RealUnsubsumed'
  <2> SUFFICES ASSUME NEW x \in Key
               PROVE  x \in real' <=> x \in Active' /\ subsumingParent'[x] = None
    BY DEF RealUnsubsumed
  <2>1. x \in real <=> x \in Active /\ subsumingParent[x] = None
    BY DEF EntriesInv, RealUnsubsumed
  <2>2. subsumingParent'[x] = IF x \in S \cup A THEN k
                              ELSE IF x \in U THEN None ELSE subsumingParent[x]
    BY <1>8
  <2> QED BY <2>1, <2>2, <1>1, <1>2, <1>4, <1>7, <1>8
<1>16. IndexReal'
  BY <1>1, <1>8, <1>10 DEF EntriesInv, IndexReal
<1> QED BY <1>9, <1>12, <1>13, <1>14, <1>15, <1>16 DEF EntriesInv

\* When an entry goes, each entry it subsumed has another parent that is
\* real, or a watcher of its own.
LEMMA ReleaseInv ==
  ASSUME EntriesInv, NEW k \in Key, count[k] = 1, Release(k)
  PROVE  EntriesInv'
<1> DEFINE C == subsumedChildren[k] \cap (Active \ {k})
           idx == IndexWithout(k)
<1> DEFINE Outcome(o, pick) ==
        LET promoted == {c \in C : pick[c] = None}
        IN /\ count' = [count EXCEPT ![k] = 0]
           /\ real' = (real \cup promoted) \ {k}
           /\ watching' = Rewatch(promoted, Stopped({k}))
           /\ subsumingParent' = [c \in Key |-> IF c = k THEN None
                                                ELSE IF c \in C THEN pick[c]
                                                ELSE subsumingParent[c]]
           /\ subsumedChildren' = [p \in Key |->
                 IF p = k THEN {}
                 ELSE (subsumedChildren[p] \ {k}) \cup {c \in C : pick[c] = p}]
           /\ index' = Reindexed(idx, promoted \cap Recursive, o)
<1>o. PICK o \in Orders(C) : \E pick \in Picks(idx, C, o) : Outcome(o, pick)
  BY DEF Release
<1>1. PICK pick \in Picks(idx, C, o) : Outcome(o, pick)
  BY <1>o
<1> DEFINE P == {c \in C : pick[c] = None}
<1>2. Active' = Active \ {k} /\ Active \subseteq Key /\ k \in Active
  BY <1>1 DEF Active, EntriesInv, EntriesType
<1>3. \A c \in C : c \in Key /\ c \in Active /\ c # k /\ subsumingParent[c] = k /\ c \notin real
  BY <1>2, KeyAssumption DEF EntriesInv, Linked, RealUnsubsumed
<1>4. \A c \in Key : subsumingParent[c] = k => c \in C
  BY KeyAssumption DEF EntriesInv, Linked, ParentReal, MaySubsume
<1>5. /\ idx \in [Resource -> Key \cup {None}]
      /\ \A r \in Resource : idx[r] # None =>
           idx[r] = index[r] /\ idx[r] \in real \cap Recursive /\ At[idx[r]] = r /\ idx[r] # k
  BY KeyAssumption DEF IndexWithout, EntriesInv, EntriesType, IndexReal
<1>6. \A c \in C : pick[c] # None =>
        pick[c] \in Key /\ pick[c] \in Active /\ pick[c] # k /\ MaySubsume(pick[c], c)
          /\ (pick[c] \in real \/ pick[c] \in P)
  <2> SUFFICES ASSUME NEW c \in C, pick[c] # None
               PROVE  pick[c] \in Key /\ pick[c] \in Active /\ pick[c] # k /\ MaySubsume(pick[c], c)
                        /\ (pick[c] \in real \/ pick[c] \in P)
    OBVIOUS
  <2> DEFINE D == PromotedBefore(o, pick, C, c)
             R == Reindexed(idx, D, o)
             p == pick[c]
  <2>1. p \in FindSubsumingParent(R, c)
    BY <1>1 DEF Picks
  <2>2. p \in Active /\ p \in Key /\ R[At[p]] = p /\ MaySubsume(p, c)
    BY <2>1, <1>2 DEF FindSubsumingParent
  <2>3. D \subseteq P /\ D \subseteq Key
    BY <1>3 DEF PromotedBefore
  <2>4. At[p] \in Resource /\ p # None
    BY <2>2, KeyAssumption
  <2>5. R[At[p]] = idx[At[p]] \/ R[At[p]] \in D
    <3> HIDE DEF idx, D, p
    <3>1. \A r \in Resource : R[r] = idx[r] \/ R[r] \in D
      BY <1>5, <2>3, ReindexedCases
    <3> QED BY <2>4, <3>1
  <2>6. CASE R[At[p]] = idx[At[p]]
    BY <2>2, <2>4, <2>6, <1>5
  <2>7. CASE R[At[p]] \in D
    BY <2>2, <2>3, <2>7, <1>3
  <2> QED BY <2>5, <2>6, <2>7
<1>7. P \subseteq C /\ P \cap real = {} /\ k \notin C
  BY <1>3
<1>8. /\ real' = (real \cup P) \ {k}
      /\ watching' = Rewatch(P, Stopped({k}))
      /\ subsumingParent' = [c \in Key |-> IF c = k THEN None
                                           ELSE IF c \in C THEN pick[c] ELSE subsumingParent[c]]
      /\ subsumedChildren' = [p \in Key |->
            IF p = k THEN {} ELSE (subsumedChildren[p] \ {k}) \cup {c \in C : pick[c] = p}]
      /\ index' = Reindexed(idx, P \cap Recursive, o)
  BY <1>1
<1>9. WatchedOnce' /\ watching' \in [Key -> Nat]
  <2>1. real' = (real \cup P) \ Stopped({k})
    BY <1>7, <1>8 DEF Stopped
  <2>2. P \subseteq Key /\ Stopped({k}) \subseteq Key /\ Stopped({k}) \subseteq real
    BY <1>3, <1>7 DEF Stopped
  <2> QED BY <2>1, <2>2, <1>7, <1>8, RewatchOnce
<1>10. \A r \in Resource :
         \/ index'[r] = idx[r]
         \/ index'[r] \in P \cap Recursive /\ At[index'[r]] = r
  <2>1. P \cap Recursive \subseteq Key
    BY <1>3
  <2> QED BY <1>5, <1>8, <2>1, ReindexedCases
<1>11. index' \in [Resource -> Key \cup {None}]
  <2>1. index' = [r \in Resource |-> index'[r]]
    BY <1>8 DEF Reindexed
  <2>2. \A r \in Resource : index'[r] \in Key \cup {None}
    BY <1>3, <1>5, <1>10
  <2> QED BY <2>1, <2>2
<1> HIDE DEF idx
<1>12. EntriesType'
  <2>1. subsumingParent' \in [Key -> Key \cup {None}]
    BY <1>6, <1>8 DEF EntriesInv, EntriesType
  <2>2. subsumedChildren' \in [Key -> SUBSET Key]
    BY <1>3, <1>8 DEF EntriesInv, EntriesType
  <2>3. count' \in [Key -> Nat] /\ real' \subseteq Key
    BY <1>1, <1>3, <1>8 DEF EntriesInv, EntriesType
  <2> QED BY <2>1, <2>2, <2>3, <1>9, <1>11 DEF EntriesType
<1>13. Linked'
  <2> SUFFICES ASSUME NEW x \in Key, NEW p \in Key
               PROVE  subsumingParent'[x] = p <=> x \in subsumedChildren'[p]
    BY DEF Linked
  <2>0. /\ subsumingParent[x] = p <=> x \in subsumedChildren[p]
        /\ p # None
    BY KeyAssumption DEF EntriesInv, Linked
  <2>1. /\ subsumingParent'[x] = IF x = k THEN None
                                ELSE IF x \in C THEN pick[x] ELSE subsumingParent[x]
        /\ subsumedChildren'[p] = IF p = k THEN {}
                                 ELSE (subsumedChildren[p] \ {k}) \cup {c \in C : pick[c] = p}
    BY <1>8
  <2> HIDE DEF C
  <2>2. CASE x = k
    BY <2>0, <2>1, <2>2, <1>7
  <2>3. CASE x # k /\ x \in C
    BY <2>0, <2>1, <2>3, <1>3, <1>6
  <2>4. CASE x # k /\ x \notin C
    BY <2>0, <2>1, <2>4, <1>4
  <2> QED BY <2>2, <2>3, <2>4
<1>14. ParentReal'
  <2> SUFFICES ASSUME NEW x \in Key, subsumingParent'[x] # None
               PROVE  /\ x \in Active' /\ subsumingParent'[x] \in real'
                      /\ MaySubsume(subsumingParent'[x], x)
    BY DEF ParentReal
  <2>1. x # k
    BY <1>8
  <2>2. CASE x \in C
    BY <2>1, <2>2, <1>2, <1>3, <1>6, <1>7, <1>8
  <2>3. CASE x \notin C
    BY <2>1, <2>3, <1>2, <1>4, <1>8 DEF EntriesInv, ParentReal
  <2> QED BY <2>2, <2>3
<1>15. RealUnsubsumed'
  <2> SUFFICES ASSUME NEW x \in Key
               PROVE  x \in real' <=> x \in Active' /\ subsumingParent'[x] = None
    BY DEF RealUnsubsumed
  <2>1. x \in real <=> x \in Active /\ subsumingParent[x] = None
    BY DEF EntriesInv, RealUnsubsumed
  <2>2. subsumingParent'[x] = IF x = k THEN None
                              ELSE IF x \in C THEN pick[x] ELSE subsumingParent[x]
    BY <1>8
  <2> QED BY <2>1, <2>2, <1>2, <1>3, <1>7, <1>8
<1>16. IndexReal'
  BY <1>5, <1>7, <1>8, <1>10, KeyAssumption DEF IndexReal
<1> QED BY <1>9, <1>12, <1>13, <1>14, <1>15, <1>16 DEF EntriesInv

\* Disposing a disposable of an entry.
LEMMA UnrefInv ==
  ASSUME EntriesInv, NEW k \in Key, Unref(k)
  PROVE  EntriesInv'
<1>1. CASE count[k] = 1 /\ Release(k)
  BY <1>1, ReleaseInv
<1>2. CASE /\ count[k] > 1 /\ count' = [count EXCEPT ![k] = @ - 1]
           /\ UNCHANGED <<real, subsumingParent, subsumedChildren, index, watching>>
  <2>1. Active' = Active
    BY <1>2 DEF Active, EntriesInv, EntriesType
  <2>2. EntriesType'
    BY <1>2 DEF EntriesInv, EntriesType
  <2>3. (Linked /\ IndexReal /\ WatchedOnce)'
    BY <1>2 DEF EntriesInv, Linked, IndexReal, WatchedOnce
  <2>4. (ParentReal /\ RealUnsubsumed)'
    BY <1>2, <2>1 DEF EntriesInv, ParentReal, RealUnsubsumed
  <2> QED BY <2>2, <2>3, <2>4 DEF EntriesInv
<1> QED BY <1>1, <1>2 DEF Unref

-----------------------------------------------------------------------------
(* The callers.                                                             *)

Holders(k) == {c \in Consumer : wants[c] = k /\ phase[c] \in {"watching", "leaving"}}

CallersInv ==
  /\ phase \in [Consumer -> {"idle", "pending", "abandoned", "watching", "leaving"}]
  /\ wants \in [Consumer -> Key \cup {None}]
  /\ \A c \in Consumer : phase[c] # "idle" => wants[c] \in Key
  /\ \A k \in Key : count[k] = Cardinality(Holders(k))

Inv == EntriesInv /\ CallersInv

\* What an operation on the entry of a key does to the counts.
LEMMA RegisterCounts ==
  ASSUME EntriesInv, NEW k \in Key, Register(k)
  PROVE  count' = [count EXCEPT ![k] = @ + 1]
BY DEF Register, Join, BeSubsumed, StartPlain, StartRecursive, Active, EntriesInv, EntriesType

LEMMA UnrefCounts ==
  ASSUME EntriesInv, NEW k \in Key, Unref(k)
  PROVE  count' = [count EXCEPT ![k] = @ - 1]
<1>1. CASE count[k] = 1 /\ Release(k)
  <2>1. count' = [count EXCEPT ![k] = 0]
    BY <1>1 DEF Release
  <2> QED BY <1>1, <2>1
<1>2. CASE count[k] > 1 /\ count' = [count EXCEPT ![k] = @ - 1]
  BY <1>2
<1> QED BY <1>1, <1>2 DEF Unref

\* Adding or removing a holder changes the number of holders by one.
LEMMA HoldersCounted ==
  ASSUME NEW A \in SUBSET Consumer, NEW c \in Consumer, c \notin A
  PROVE  /\ Cardinality(A \cup {c}) = Cardinality(A) + 1
         /\ Cardinality((A \cup {c}) \ {c}) = Cardinality(A \cup {c}) - 1
         /\ Cardinality(A) \in Nat
<1>1. IsFiniteSet(A)
  BY KeyAssumption, FS_Subset
<1>2. Cardinality(A \cup {c}) = Cardinality(A) + 1 /\ Cardinality(A) \in Nat
  BY <1>1, FS_AddElement, FS_CardinalityType
<1>3. (A \cup {c}) \ {c} = A
  OBVIOUS
<1>4. Cardinality((A \cup {c}) \ {c}) = Cardinality(A)
  BY <1>3
<1> HIDE <1>3
<1> QED BY <1>2, <1>4

\* The initial state: nothing is watched for anybody.
LEMMA InitInv ==
  ASSUME Init
  PROVE  Inv
<1>1. EntriesInv
  BY KeyAssumption DEF Init, EntriesInv, EntriesType, Linked, ParentReal, RealUnsubsumed,
     IndexReal, WatchedOnce, Active
<1>2. \A k \in Key : Holders(k) = {}
  BY DEF Init, Holders
<1> QED BY <1>1, <1>2, FS_EmptySet DEF Inv, CallersInv, Init

\* Every step preserves the invariant.
LEMMA NextInv ==
  ASSUME Inv, [Next]_vars
  PROVE  Inv'
<1>1. ASSUME NEW c \in Consumer, Watch(c)
      PROVE  Inv'
  <2>1. EntriesInv'
    BY <1>1 DEF Watch, entries, Inv, EntriesInv, EntriesType, Linked, ParentReal,
       RealUnsubsumed, IndexReal, WatchedOnce, Active
  <2>2. PICK k \in Key : wants' = [wants EXCEPT ![c] = k]
    BY <1>1 DEF Watch
  <2>3. \A j \in Key : Holders(j)' = Holders(j)
    BY <1>1, <2>2 DEF Watch, Holders, Inv, CallersInv
  <2> QED BY <1>1, <2>1, <2>2, <2>3 DEF Watch, entries, Inv, CallersInv
<1>2. ASSUME NEW c \in Consumer, DoWatch(c)
      PROVE  Inv'
  <2>k. phase[c] \in {"pending", "abandoned"} /\ wants[c] \in Key
    BY <1>2 DEF DoWatch, Inv, CallersInv
  <2>1. PICK k \in Key : k = wants[c] /\ phase[c] \in {"pending", "abandoned"}
    BY <2>k
  <2>2. EntriesInv'
    BY <1>2, <2>1, JoinInv, BeSubsumedInv, StartPlainInv, StartRecursiveInv
       DEF DoWatch, Register, Inv
  <2>3. count' = [count EXCEPT ![k] = @ + 1]
    BY <1>2, <2>1, RegisterCounts DEF DoWatch, Inv
  <2>4. c \notin Holders(k) /\ Holders(k)' = Holders(k) \cup {c}
    BY <1>2, <2>1 DEF DoWatch, Holders, Inv, CallersInv
  <2>5. \A j \in Key \ {k} : Holders(j)' = Holders(j)
    BY <1>2, <2>1 DEF DoWatch, Holders, Inv, CallersInv
  <2>6. Cardinality(Holders(k)') = Cardinality(Holders(k)) + 1
    BY <2>4, HoldersCounted DEF Holders
  <2>7. \A j \in Key : count'[j] = Cardinality(Holders(j)')
    <3> SUFFICES ASSUME NEW j \in Key PROVE count'[j] = Cardinality(Holders(j)')
      OBVIOUS
    <3>1. count[j] = Cardinality(Holders(j)) /\ count \in [Key -> Nat]
      BY DEF Inv, CallersInv, EntriesInv, EntriesType
    <3>2. CASE j = k
      <4>1. count'[k] = count[k] + 1
        BY <2>1, <2>3, <3>1
      <4> QED BY <4>1, <3>1, <3>2, <2>6
    <3>3. CASE j # k
      <4>1. count'[j] = count[j]
        BY <2>3, <3>1, <3>3
      <4> QED BY <4>1, <3>1, <3>3, <2>5
    <3> QED BY <3>2, <3>3
  <2>8. /\ phase' \in [Consumer -> {"idle", "pending", "abandoned", "watching", "leaving"}]
        /\ \A d \in Consumer : phase'[d] # "idle" => wants'[d] \in Key
    BY <1>2, <2>1 DEF DoWatch, Inv, CallersInv
  <2> QED BY <1>2, <2>2, <2>7, <2>8 DEF DoWatch, Inv, CallersInv
<1>3. ASSUME NEW c \in Consumer, Abandon(c)
      PROVE  Inv'
  <2>1. EntriesInv'
    BY <1>3 DEF Abandon, entries, Inv, EntriesInv, EntriesType, Linked, ParentReal,
       RealUnsubsumed, IndexReal, WatchedOnce, Active
  <2>2. \A j \in Key : Holders(j)' = Holders(j)
    BY <1>3 DEF Abandon, Holders, Inv, CallersInv
  <2> QED BY <1>3, <2>1, <2>2 DEF Abandon, entries, Inv, CallersInv
<1>4. ASSUME NEW c \in Consumer, Dispose(c)
      PROVE  Inv'
  <2>k. phase[c] \in {"watching", "leaving"} /\ wants[c] \in Key
    BY <1>4 DEF Dispose, Inv, CallersInv
  <2>1. PICK k \in Key : k = wants[c] /\ phase[c] \in {"watching", "leaving"}
    BY <2>k
  <2>2. EntriesInv'
    BY <1>4, <2>1, UnrefInv DEF Dispose, Inv
  <2>3. count' = [count EXCEPT ![k] = @ - 1]
    BY <1>4, <2>1, UnrefCounts DEF Dispose, Inv
  <2>a. phase' = [phase EXCEPT ![c] = "idle"] /\ wants' = [wants EXCEPT ![c] = None]
    BY <1>4 DEF Dispose
  <2>4. c \in Holders(k) /\ Holders(k)' = Holders(k) \ {c}
    <3>1. c \in Holders(k)
      BY <2>1 DEF Holders
    <3>2. ASSUME NEW d \in Consumer
          PROVE  d \in Holders(k)' <=> d \in Holders(k) /\ d # c
      BY <2>1, <2>a DEF Holders, Inv, CallersInv
    <3>3. Holders(k)' \subseteq Consumer /\ Holders(k) \subseteq Consumer
      BY DEF Holders
    <3> QED BY <3>1, <3>2, <3>3
  <2>5. \A j \in Key \ {k} : Holders(j)' = Holders(j)
    BY <1>4, <2>1, KeyAssumption DEF Dispose, Holders, Inv, CallersInv
  <2>6. Cardinality(Holders(k)') = Cardinality(Holders(k)) - 1
    <3> DEFINE A == Holders(k) \ {c}
    <3>1. A \in SUBSET Consumer /\ c \notin A /\ Holders(k) = A \cup {c}
      BY <2>4 DEF Holders
    <3> QED BY <2>4, <3>1, HoldersCounted
  <2>7. \A j \in Key : count'[j] = Cardinality(Holders(j)')
    <3> SUFFICES ASSUME NEW j \in Key PROVE count'[j] = Cardinality(Holders(j)')
      OBVIOUS
    <3>1. count[j] = Cardinality(Holders(j)) /\ count \in [Key -> Nat]
      BY DEF Inv, CallersInv, EntriesInv, EntriesType
    <3>2. CASE j = k
      <4>1. count'[k] = count[k] - 1
        BY <2>1, <2>3, <3>1
      <4> QED BY <4>1, <3>1, <3>2, <2>6
    <3>3. CASE j # k
      <4>1. count'[j] = count[j]
        BY <2>3, <3>1, <3>3
      <4> QED BY <4>1, <3>1, <3>3, <2>5
    <3> QED BY <3>2, <3>3
  <2>8. /\ phase' \in [Consumer -> {"idle", "pending", "abandoned", "watching", "leaving"}]
        /\ wants' \in [Consumer -> Key \cup {None}]
        /\ \A d \in Consumer : phase'[d] # "idle" => wants'[d] \in Key
    BY <1>4, <2>1 DEF Dispose, Inv, CallersInv
  <2> QED BY <2>2, <2>7, <2>8 DEF Inv, CallersInv
<1>5. CASE UNCHANGED vars
  BY <1>5 DEF vars, entries, Inv, EntriesInv, EntriesType, Linked, ParentReal,
     RealUnsubsumed, IndexReal, WatchedOnce, Active, CallersInv, Holders
<1> QED BY <1>1, <1>2, <1>3, <1>4, <1>5 DEF Next

\* The invariant holds always.
THEOREM AlwaysInv == Spec => []Inv
<1>1. Init => Inv
  BY InitInv
<1>2. Inv /\ [Next]_vars => Inv'
  BY NextInv
<1> QED BY <1>1, <1>2, PTL DEF Spec

-----------------------------------------------------------------------------
\* Every variable keeps its type.
THEOREM TypeCorrect == Spec => []TypeOK
<1>1. Inv => TypeOK
  BY DEF Inv, EntriesInv, EntriesType, CallersInv, TypeOK
<1> QED BY <1>1, AlwaysInv, PTL

\* Whatever is watched for a caller is covered by a real watcher.
THEOREM AlwaysCovered == Spec => []Covered
<1>1. Inv => Covered
  <2> SUFFICES ASSUME Inv, NEW k \in Key, count[k] > 0, k \notin real
               PROVE  \E p \in Active \cap real : p = subsumingParent[k] /\ MaySubsume(p, k)
    BY DEF Covered, Active
  <2>1. subsumingParent[k] # None
    BY DEF Inv, EntriesInv, RealUnsubsumed, Active
  <2>2. subsumingParent[k] \in real /\ MaySubsume(subsumingParent[k], k)
    BY <2>1 DEF Inv, EntriesInv, ParentReal
  <2>3. subsumingParent[k] \in Active
    BY <2>2 DEF Inv, EntriesInv, EntriesType, RealUnsubsumed
  <2> QED BY <2>2, <2>3
<1> QED BY <1>1, AlwaysInv, PTL

\* Parents and children agree, one level deep.
THEOREM LinksAlwaysAgree == Spec => []LinksAgree
<1>1. Inv => LinksAgree
  <2> SUFFICES ASSUME Inv PROVE LinksAgree
    OBVIOUS
  <2>1. ASSUME NEW k \in Key, subsumedChildren[k] # {}
        PROVE  k \in Active /\ subsumingParent[k] = None
    <3>1. PICK c \in subsumedChildren[k] : TRUE
      BY <2>1
    <3>2. c \in Key /\ subsumingParent[c] = k
      BY <3>1 DEF Inv, EntriesInv, EntriesType, Linked
    <3>3. k \in real
      BY <3>2, KeyAssumption DEF Inv, EntriesInv, ParentReal
    <3> QED BY <3>3 DEF Inv, EntriesInv, RealUnsubsumed
  <2> QED BY <2>1 DEF Inv, EntriesInv, Linked, LinksAgree
<1> QED BY <1>1, AlwaysInv, PTL

\* The index leads only to entries with a real watcher.
THEOREM IndexedAlwaysReal == Spec => []IndexedIsReal
<1>1. Inv => IndexedIsReal
  BY DEF Inv, EntriesInv, EntriesType, IndexReal, RealUnsubsumed, IndexedIsReal
<1> QED BY <1>1, AlwaysInv, PTL

\* Entries count their callers, and watchers run for exactly the entries that
\* are active and not subsumed.
THEOREM NothingEverLeaks == Spec => []NothingLeaks
<1>1. Inv => NothingLeaks
  BY DEF Inv, EntriesInv, WatchedOnce, RealUnsubsumed, CallersInv, Holders, NothingLeaks
<1> QED BY <1>1, AlwaysInv, PTL
=============================================================================
