-------------------------- MODULE ControllerProofs --------------------------
(***************************************************************************)
(* Proofs about module Controller, for every finite set of deployments and *)
(* any number of disruptions.                                              *)
(***************************************************************************)
EXTENDS Controller, TLAPS, SequenceTheorems, FiniteSetTheorems

-----------------------------------------------------------------------------
(* Facts about sequences.                                                  *)

Distinct(s) == \A m, n \in DOMAIN s : s[m] = s[n] => m = n

LEMMA AppendElements ==
  ASSUME NEW S, NEW s \in Seq(S), NEW e \in S
  PROVE  /\ Append(s, e) \in Seq(S)
         /\ \A n \in 1..Len(s) : Append(s, e)[n] = s[n]
         /\ Append(s, e)[Len(s) + 1] = e
         /\ Len(s) \in Nat
         /\ DOMAIN s = 1..Len(s)
         /\ DOMAIN Append(s, e) = 1..(Len(s) + 1)
<1>1. /\ Append(s, e) \in Seq(S)
      /\ Len(Append(s, e)) = Len(s) + 1
      /\ \A n \in 1..Len(s) : Append(s, e)[n] = s[n]
      /\ Append(s, e)[Len(s) + 1] = e
      /\ Len(s) \in Nat
  OBVIOUS
<1>2. DOMAIN s = 1..Len(s) /\ DOMAIN Append(s, e) = 1..(Len(s) + 1)
  OBVIOUS
<1> QED
  BY <1>1, <1>2

LEMMA AppendFacts ==
  ASSUME NEW S, NEW s \in Seq(S), NEW e \in S
  PROVE  /\ Append(s, e) \in Seq(S)
         /\ Range(Append(s, e)) = Range(s) \cup {e}
         /\ Distinct(s) /\ e \notin Range(s) => Distinct(Append(s, e))
<1>1. /\ Append(s, e) \in Seq(S)
      /\ \A n \in 1..Len(s) : Append(s, e)[n] = s[n]
      /\ Append(s, e)[Len(s) + 1] = e
      /\ Len(s) \in Nat
  BY AppendElements
<1>2. DOMAIN s = 1..Len(s) /\ DOMAIN Append(s, e) = 1..(Len(s) + 1)
  BY AppendElements
<1>3. Range(Append(s, e)) = Range(s) \cup {e}
  <2>1. ASSUME NEW x \in Range(Append(s, e)) PROVE x \in Range(s) \cup {e}
    BY <1>1, <1>2, <2>1 DEF Range
  <2>2. ASSUME NEW x \in Range(s) PROVE x \in Range(Append(s, e))
    BY <1>1, <1>2, <2>2 DEF Range
  <2>3. e \in Range(Append(s, e))
    BY <1>1, <1>2 DEF Range
  <2> QED
    BY <2>1, <2>2, <2>3
<1>4. ASSUME Distinct(s), e \notin Range(s) PROVE Distinct(Append(s, e))
  BY <1>1, <1>2, <1>4 DEF Distinct, Range
<1> QED
  BY <1>1, <1>3, <1>4

LEMMA TailFacts ==
  ASSUME NEW S, NEW s \in Seq(S), s # <<>>
  PROVE  /\ Tail(s) \in Seq(S)
         /\ Head(s) \in S
         /\ Distinct(s) => /\ Distinct(Tail(s))
                           /\ Range(Tail(s)) = Range(s) \ {Head(s)}
         /\ \A x \in Range(s) : x = Head(s) \/ x \in Range(Tail(s))
<1>1. /\ Tail(s) \in Seq(S)
      /\ Len(Tail(s)) = Len(s) - 1
      /\ \A n \in 1..(Len(s) - 1) : Tail(s)[n] = s[n + 1]
      /\ Len(s) \in Nat \ {0}
      /\ Head(s) = s[1]
      /\ Head(s) \in S
  OBVIOUS
<1>2. DOMAIN s = 1..Len(s) /\ DOMAIN Tail(s) = 1..(Len(s) - 1)
  BY <1>1
<1>3. ASSUME NEW x \in Range(s) PROVE x = Head(s) \/ x \in Range(Tail(s))
  <2>1. PICK n \in 1..Len(s) : x = s[n]
    BY <1>2, <1>3 DEF Range
  <2>2. CASE n = 1
    BY <1>1, <2>1, <2>2
  <2>3. CASE n # 1
    <3>1. n - 1 \in 1..(Len(s) - 1) /\ Tail(s)[n - 1] = s[n]
      BY <1>1, <2>1, <2>3
    <3> QED
      BY <1>2, <2>1, <3>1 DEF Range
  <2> QED
    BY <2>2, <2>3
<1>4. ASSUME Distinct(s)
      PROVE  Distinct(Tail(s)) /\ Range(Tail(s)) = Range(s) \ {Head(s)}
  <2>1. Distinct(Tail(s))
    BY <1>1, <1>2, <1>4 DEF Distinct
  <2>2. ASSUME NEW x \in Range(Tail(s)) PROVE x \in Range(s) /\ x # Head(s)
    <3>1. PICK n \in 1..(Len(s) - 1) : x = s[n + 1]
      BY <1>1, <1>2, <2>2 DEF Range
    <3> QED
      BY <1>1, <1>2, <1>4, <3>1 DEF Range, Distinct
  <2> QED
    BY <1>3, <2>1, <2>2
<1> QED
  BY <1>1, <1>3, <1>4

-----------------------------------------------------------------------------
(* What a listing notifies of.                                             *)

Tells(notes, k) == \E n \in DOMAIN notes :
                     notes[n].key = k /\ notes[n].kind \in {"add", "update"}

LEMMA EventType ==
  ASSUME NEW k \in Keys, NEW kind \in {"add", "update", "delete", "tombstone"}
  PROVE  /\ Event(k, kind) \in Events
         /\ Event(k, kind).key = k
         /\ Event(k, kind).kind = kind
  BY DEF Event, Events

LEMMA ListingFacts ==
  ASSUME NEW old \in [Keys -> Objects], NEW new \in [Keys -> Objects],
         NEW notes \in Listing(old, new)
  PROVE  /\ notes \in Seq(Events)
         /\ \A k \in Keys : new[k].exists => Tells(notes, k)
<1> DEFINE there == {k \in Keys : old[k].exists \/ new[k].exists}
           note(k) == Event(k, Kind(old[k], new[k]))
           count == Cardinality(there)
<1>1. count \in Nat
  BY ControllerAssumption, FS_Subset, FS_CardinalityType
<1>2. PICK order \in Bijection(1..count, there) :
        notes = [n \in DOMAIN order |-> note(order[n])]
  BY DEF Listing
<1>3. /\ order \in [1..count -> there]
      /\ \A k \in there : \E n \in 1..count : order[n] = k
  BY <1>2 DEF Bijection, Injection, Surjection
<1>4. \A k \in Keys : /\ note(k) \in Events
                      /\ note(k).key = k
                      /\ new[k].exists => note(k).kind \in {"add", "update"}
  <2> TAKE k \in Keys
  <2>1. /\ Kind(old[k], new[k]) \in {"add", "update", "delete", "tombstone"}
        /\ new[k].exists => Kind(old[k], new[k]) \in {"add", "update"}
    BY DEF Kind
  <2> QED
    BY <2>1, EventType
<1> HIDE DEF note, count
<1>5. notes \in [1..count -> Events]
  BY <1>2, <1>3, <1>4
<1>6. notes \in Seq(Events)
  BY <1>1, <1>5
<1>7. ASSUME NEW k \in Keys, new[k].exists PROVE Tells(notes, k)
  <2>1. PICK n \in 1..count : order[n] = k
    BY <1>3, <1>7
  <2>2. n \in DOMAIN notes /\ notes[n] = note(k)
    BY <1>2, <1>3, <2>1
  <2> QED
    BY <1>4, <1>7, <2>2 DEF Tells
<1> QED
  BY <1>6, <1>7

-----------------------------------------------------------------------------
(* What the API server and the cache have.                                 *)

LEMMA DeploymentsType ==
  ASSUME NEW ks PROVE Deployments(ks) \in [Keys -> Objects]
  BY DEF Deployments, Objects

LEMMA VersionFacts ==
  ASSUME TypeOK
  PROVE  /\ Len(versions) \in DOMAIN versions
         /\ \A n \in DOMAIN versions : versions[n] \in [Keys -> Objects]
         /\ obj \in [Keys -> Objects]
         /\ cached \in [Keys -> Objects]
<1>1. versions \in Seq([Keys -> Objects]) /\ known \in DOMAIN versions
  BY DEF TypeOK
<1>2. Len(versions) \in DOMAIN versions
  BY <1>1
<1> QED
  BY <1>1, <1>2 DEF obj, cached

\* A step of which the API server and the informer's cache take no notice.
LEMMA CacheKept == ASSUME UNCHANGED <<versions, known>> PROVE UNCHANGED <<obj, cached>>
  BY DEF obj, cached

\* A change is a new version, and the cache has still the old one.
LEMMA ChangeFacts ==
  ASSUME TypeOK, NEW k \in Keys, NEW o \in Objects, Change(k, o)
  PROVE  /\ versions' \in Seq([Keys -> Objects])
         /\ Len(versions') = Len(versions) + 1
         /\ \A n \in DOMAIN versions : n \in DOMAIN versions' /\ versions'[n] = versions[n]
         /\ \A n \in DOMAIN versions' : n \in DOMAIN versions \/ n = Len(versions')
         /\ obj' = [obj EXCEPT ![k] = o]
         /\ UNCHANGED <<known, cached>>
<1>1. /\ versions' = Append(versions, [obj EXCEPT ![k] = o])
      /\ UNCHANGED known
  BY DEF Change, informer
<1>2. [obj EXCEPT ![k] = o] \in [Keys -> Objects]
  BY VersionFacts
<1> DEFINE S == [Keys -> Objects]
           e == [obj EXCEPT ![k] = o]
<1>3. versions \in Seq(S) /\ e \in S /\ versions' = Append(versions, e)
  BY <1>1, <1>2 DEF TypeOK
<1> HIDE DEF S, e
<1>4. /\ versions' \in Seq(S)
      /\ Len(versions') = Len(versions) + 1
      /\ \A n \in DOMAIN versions : n \in DOMAIN versions' /\ versions'[n] = versions[n]
      /\ \A n \in DOMAIN versions' : n \in DOMAIN versions \/ n = Len(versions')
      /\ versions'[Len(versions')] = e
  BY <1>3
<1>5. obj' = e
  BY <1>4 DEF obj
<1>6. UNCHANGED cached
  BY <1>1, <1>4 DEF cached, TypeOK
<1> QED
  BY <1>1, <1>4, <1>5, <1>6 DEF S, e

LEMMA UserFacts ==
  ASSUME TypeOK, NEW k \in Keys, UserCreates(k) \/ UserEdits(k) \/ UserDeletes(k)
  PROVE  \E o \in Objects : Change(k, o)
<1>1. obj[k].gen + 1 \in Nat
  BY VersionFacts DEF Objects
<1> QED
  BY <1>1 DEF UserCreates, UserEdits, UserDeletes, Objects

LEMMA Delivered ==
  ASSUME TypeOK, Deliver
  PROVE  \E j \in Keys, kind \in {"add", "update", "delete", "tombstone"} :
           /\ events' = Append(events, Event(j, kind))
           /\ known' \in DOMAIN versions
           /\ Changed(j, known + 1)
           /\ cached'[j].exists => kind \in {"add", "update"}
<1>1. known + 1 \in DOMAIN versions
  BY DEF Deliver, TypeOK
<1>2. known' = known + 1 /\ cached' = versions[known + 1]
  BY DEF Deliver, cached
<1>3. PICK j \in Keys :
        /\ Changed(j, known + 1)
        /\ events' = Append(events, Event(j, CASE ~versions[known + 1][j].exists -> "delete"
                                               [] cached[j].exists               -> "update"
                                               [] OTHER                          -> "add"))
  BY DEF Deliver
<1> DEFINE kind == CASE ~versions[known + 1][j].exists -> "delete"
                     [] cached[j].exists               -> "update"
                     [] OTHER                          -> "add"
<1>4. /\ kind \in {"add", "update", "delete", "tombstone"}
      /\ cached'[j].exists => kind \in {"add", "update"}
  BY <1>2
<1> QED
  BY <1>1, <1>2, <1>3, <1>4

-----------------------------------------------------------------------------
(* Type correctness.                                                       *)

LEMMA InitTypeOK == Init => TypeOK
<1> SUFFICES ASSUME Init PROVE TypeOK
  OBVIOUS
<1>1. versions \in Seq([Keys -> Objects]) /\ known \in DOMAIN versions
  BY DeploymentsType DEF Init
<1>2. events \in Seq(Events)
  <2>1. cached \in [Keys -> Objects]
    BY <1>1 DEF cached
  <2> QED
    BY <2>1, DeploymentsType, ListingFacts DEF Init
<1>3. read \in [Keys -> Nat]
  BY DEF Init
<1>4. disruptions \in 0..MaxDisruptions
  BY ControllerAssumption DEF Init
<1> QED
  BY <1>1, <1>2, <1>3, <1>4 DEF Init, TypeOK

LEMMA DisruptType ==
  ASSUME disruptions \in 0..MaxDisruptions, NEW k, Disrupt(k) \/ Calm
  PROVE  disruptions' \in 0..MaxDisruptions
  BY ControllerAssumption DEF Disrupt, Calm

LEMMA AddType ==
  ASSUME TypeOK, NEW k \in Keys, Add(k)
  PROVE  queue' \in Seq(Keys) /\ dirty' \in SUBSET Keys
  BY DEF Add, TypeOK

LEMMA DoneType ==
  ASSUME TypeOK, NEW k \in Keys, Done(k)
  PROVE  queue' \in Seq(Keys) /\ processing' \in SUBSET Keys
  BY DEF Done, TypeOK

LEMMA NextTypeOK == TypeOK /\ [Next]_vars => TypeOK'
<1> SUFFICES ASSUME TypeOK, [Next]_vars PROVE TypeOK'
  OBVIOUS
<1> USE DEF informer, handler, workqueue, worker
<1>1. ASSUME NEW k \in Keys, UserCreates(k) \/ UserEdits(k) \/ UserDeletes(k)
      PROVE  TypeOK'
  <2>1. PICK o \in Objects : Change(k, o)
    BY <1>1, UserFacts
  <2>2. versions' \in Seq([Keys -> Objects]) /\ known' \in DOMAIN versions'
    BY <2>1, ChangeFacts DEF TypeOK
  <2>3. disruptions' \in 0..MaxDisruptions
    BY <1>1, DisruptType DEF UserCreates, UserEdits, UserDeletes, TypeOK
  <2> QED
    BY <2>1, <2>2, <2>3 DEF Change, TypeOK
<1>2. CASE Deliver
  <2>1. PICK j \in Keys, kind \in {"add", "update", "delete", "tombstone"} :
          events' = Append(events, Event(j, kind)) /\ known' \in DOMAIN versions
    BY <1>2, Delivered
  <2>2. Event(j, kind) \in Events
    BY EventType
  <2>3. events' \in Seq(Events)
    BY <2>1, <2>2 DEF TypeOK
  <2> QED
    BY <1>2, <2>1, <2>3 DEF Deliver, TypeOK
<1>3. CASE Relist
  <2>1. versions[known'] \in [Keys -> Objects] /\ cached \in [Keys -> Objects]
    BY <1>3, VersionFacts DEF Relist
  <2>2. PICK notes \in Listing(cached, versions[known']) : events' = events \o notes
    BY <1>3 DEF Relist
  <2>3. events \in Seq(Events) /\ notes \in Seq(Events)
    BY <2>1, ListingFacts DEF TypeOK
  <2>4. disruptions' \in 0..MaxDisruptions
    BY <1>3, DisruptType DEF Relist, TypeOK
  <2>5. events' \in Seq(Events)
    BY <2>2, <2>3
  <2> QED
    BY <1>3, <2>4, <2>5 DEF Relist, TypeOK
<1>4. CASE Resync
  <2>1. events' \in Seq(Events)
    BY <1>4, VersionFacts, ListingFacts DEF Resync
  <2> QED
    BY <1>4, <2>1 DEF Resync, TypeOK
<1>5. CASE HandleChange \/ HandleTombstone \/ HandleDelete
  <2>1. events # <<>>
    BY <1>5 DEF HandleChange, HandleTombstone, HandleDelete
  <2>2. Head(events) \in Events /\ Tail(events) \in Seq(Events)
    BY <2>1 DEF TypeOK
  <2>3. Head(events).key \in Keys
    BY <2>2 DEF Events
  <2>4. queue' \in Seq(Keys) /\ dirty' \in SUBSET Keys
    BY <1>5, <2>3, AddType
    DEF HandleChange, HandleTombstone, HandleDelete, TypeOK
  <2> QED
    BY <1>5, <2>2, <2>3, <2>4
    DEF HandleChange, HandleTombstone, HandleDelete, TypeOK
<1>6. CASE CleanUpList \/ CleanUpDelete
  <2>1. disruptions' \in 0..MaxDisruptions
    BY <1>6, DisruptType DEF CleanUpList, CleanUpDelete, GiveUp, TypeOK
  <2> QED
    BY <1>6, <2>1 DEF CleanUpList, CleanUpDelete, GiveUp, TypeOK
<1>7. CASE CleanedUp
  <2>1. queue' \in Seq(Keys) /\ dirty' \in SUBSET Keys
    BY <1>7, AddType DEF CleanedUp, TypeOK
  <2> QED
    BY <1>7, <2>1 DEF CleanedUp, TypeOK
<1>8. CASE GetItem
  <2>1. Head(queue) \in Keys /\ Tail(queue) \in Seq(Keys)
    BY <1>8 DEF GetItem, TypeOK
  <2> QED
    BY <1>8, <2>1 DEF GetItem, TypeOK
<1>9. ASSUME NEW k \in processing, Sync(k)
      PROVE  TypeOK'
  <2>1. k \in Keys
    BY DEF TypeOK
  <2>2. CASE BeginSync(k)
    <3>1. queue' \in Seq(Keys) /\ processing' \in SUBSET Keys
      BY <2>1, <2>2, DoneType DEF BeginSync, TypeOK
    <3>2. read' \in [Keys -> Nat]
      BY <2>1, <2>2, VersionFacts DEF BeginSync, TypeOK, Objects
    <3> QED
      BY <2>2, <3>1, <3>2 DEF BeginSync, TypeOK
  <2>3. CASE PutSecret(k)
    BY <2>1, <2>3 DEF PutSecret, TypeOK
  <2>4. CASE SyncSucceeds(k)
    BY <2>1, <2>4, DoneType DEF SyncSucceeds, TypeOK
  <2>5. CASE SyncFails(k)
    <3>1. disruptions' \in 0..MaxDisruptions
      BY <2>5, DisruptType DEF SyncFails, TypeOK
    <3> QED
      BY <2>1, <2>5, <3>1, DoneType DEF SyncFails, TypeOK
  <2> QED
    BY <1>9, <2>2, <2>3, <2>4, <2>5 DEF Sync
<1>10. CASE Crash
  <2>1. versions[known'] \in [Keys -> Objects]
    BY <1>10, VersionFacts DEF Crash
  <2>2. events' \in Seq(Events)
    BY <1>10, <2>1, DeploymentsType, ListingFacts DEF Crash
  <2>3. disruptions' \in 0..MaxDisruptions
    BY <1>10, DisruptType DEF Crash, TypeOK
  <2> QED
    BY <1>10, <2>2, <2>3 DEF Crash, TypeOK
<1>11. ASSUME NEW k \in Keys, DelayOver(k)
       PROVE  TypeOK'
  BY <1>11, AddType DEF DelayOver, TypeOK
<1>12. CASE UNCHANGED vars
  BY <1>12 DEF vars, TypeOK
<1> QED
  BY <1>1, <1>2, <1>3, <1>4, <1>5, <1>6, <1>7, <1>8, <1>9, <1>10, <1>11, <1>12
  DEF Next, User, Handler, Worker

\* The variables stay in their types.
THEOREM TypeCorrect == Spec => []TypeOK
  BY InitTypeOK, NextTypeOK, PTL DEF Spec

-----------------------------------------------------------------------------
(* The queue.                                                              *)

LEMMA AddQueued ==
  ASSUME TypeOK, QueuedOnce, NEW k \in Keys, Add(k), UNCHANGED <<processing, wpc>>
  PROVE  QueuedOnce'
<1>1. CASE k \in dirty \cup processing
  BY <1>1 DEF Add, QueuedOnce
<1>2. CASE k \notin dirty \cup processing
  <2>1. queue' = Append(queue, k) /\ dirty' = dirty \cup {k}
    BY <1>2 DEF Add
  <2>2. Distinct(queue) /\ k \notin Range(queue)
    BY <1>2 DEF QueuedOnce, Distinct
  <2>3. Distinct(queue') /\ Range(queue') = Range(queue) \cup {k}
    BY <2>1, <2>2, AppendFacts DEF TypeOK
  <2> QED
    BY <1>2, <2>1, <2>3 DEF QueuedOnce, Distinct
<1> QED
  BY <1>1, <1>2

LEMMA DoneQueued ==
  ASSUME TypeOK, QueuedOnce, NEW k \in processing, Done(k), UNCHANGED dirty
  PROVE  QueuedOnce'
<1>1. k \in Keys /\ processing = {k} /\ processing' = {}
  BY DEF Done, TypeOK, QueuedOnce
<1>2. Distinct(queue) /\ k \notin Range(queue)
  BY DEF QueuedOnce, Distinct
<1>3. CASE k \in dirty
  <2>1. Distinct(queue') /\ Range(queue') = Range(queue) \cup {k}
    BY <1>1, <1>2, <1>3, AppendFacts DEF Done, TypeOK
  <2>2. Range(queue) = dirty \ {k}
    BY <1>1 DEF QueuedOnce
  <2> QED
    BY <1>1, <1>3, <2>1, <2>2 DEF QueuedOnce, Distinct
<1>4. CASE k \notin dirty
  BY <1>1, <1>4 DEF Done, QueuedOnce
<1> QED
  BY <1>3, <1>4

LEMMA InitQueued == Init => QueuedOnce
  BY DEF Init, QueuedOnce, Range

LEMMA NextQueued == TypeOK /\ QueuedOnce /\ [Next]_vars => QueuedOnce'
<1> SUFFICES ASSUME TypeOK, QueuedOnce, [Next]_vars PROVE QueuedOnce'
  OBVIOUS
<1> USE DEF informer, handler, workqueue, worker
<1>1. CASE UNCHANGED <<queue, dirty, processing, wpc>>
  BY <1>1 DEF QueuedOnce
<1>2. ASSUME NEW k \in Keys, UserCreates(k) \/ UserEdits(k) \/ UserDeletes(k)
      PROVE  QueuedOnce'
  BY <1>1, <1>2 DEF UserCreates, UserEdits, UserDeletes, Change
<1>3. CASE Deliver \/ Relist \/ Resync
  BY <1>1, <1>3 DEF Deliver, Relist, Resync
<1>4. CASE HandleTombstone \/ HandleDelete \/ CleanUpList \/ CleanUpDelete
  BY <1>1, <1>4 DEF HandleTombstone, HandleDelete, CleanUpList, CleanUpDelete
<1>5. CASE HandleChange
  <2>1. Head(events) \in Events
    BY <1>5 DEF HandleChange, TypeOK
  <2>2. Head(events).key \in Keys
    BY <2>1 DEF Events
  <2> QED
    BY <1>5, <2>2, AddQueued DEF HandleChange
<1>6. CASE CleanedUp
  BY <1>6, AddQueued DEF CleanedUp, TypeOK
<1>7. CASE GetItem
  <2> DEFINE k == Head(queue)
  <2>1. processing = {} /\ queue # <<>> /\ Distinct(queue)
    BY <1>7 DEF GetItem, QueuedOnce, TypeOK, Distinct
  <2>2. k \in Keys /\ Distinct(Tail(queue)) /\ Range(Tail(queue)) = Range(queue) \ {k}
    BY <2>1, TailFacts DEF TypeOK
  <2>3. /\ queue' = Tail(queue)
        /\ dirty' = dirty \ {k}
        /\ processing' = {k}
        /\ wpc' = "get"
    BY <1>7, <2>1 DEF GetItem
  <2> HIDE DEF k
  <2> QED
    BY <2>1, <2>2, <2>3 DEF QueuedOnce, Distinct
<1>8. ASSUME NEW k \in processing, Sync(k)
      PROVE  QueuedOnce'
  <2>1. CASE UNCHANGED <<queue, dirty, processing>> /\ wpc' # "idle"
    BY <2>1 DEF QueuedOnce
  <2>2. CASE Done(k) /\ UNCHANGED dirty
    BY <2>2, DoneQueued
  <2> QED
    BY <1>8, <2>1, <2>2 DEF Sync, BeginSync, PutSecret, SyncSucceeds, SyncFails
<1>9. CASE Crash
  BY <1>9 DEF Crash, QueuedOnce, Range
<1>10. ASSUME NEW k \in Keys, DelayOver(k)
       PROVE  QueuedOnce'
  BY <1>10, AddQueued DEF DelayOver
<1>11. CASE UNCHANGED vars
  BY <1>1, <1>11 DEF vars
<1> QED
  BY <1>2, <1>3, <1>4, <1>5, <1>6, <1>7, <1>8, <1>9, <1>10, <1>11
  DEF Next, User, Handler, Worker

\* However the handler's calls of Add and the worker's of Get and Done are
\* interleaved, a key is queued at most once and never forgotten while dirty.
THEOREM QueueSound == Spec => []QueuedOnce
<1>1. Spec => [](TypeOK /\ QueuedOnce)
  BY InitTypeOK, NextTypeOK, InitQueued, NextQueued, PTL DEF Spec
<1> QED
  BY <1>1, PTL

-----------------------------------------------------------------------------
(* The versions.                                                           *)

\* From one version to the next one deployment changes, and whatever is not in
\* an old version as it is in the last one has changed in between.
OneChange == \A n \in 2..Len(versions) : \A j, k \in Keys :
               Changed(j, n) /\ Changed(k, n) => j = k

Lossless == \A m \in DOMAIN versions : \A k \in Keys :
              \/ versions[m][k] = obj[k]
              \/ \E n \in (m + 1)..Len(versions) : Changed(k, n)

Versions == OneChange /\ Lossless

LEMMA InitVersions == Init => Versions
<1> SUFFICES ASSUME Init PROVE Versions
  OBVIOUS
<1>1. Len(versions) = 1 /\ DOMAIN versions = {1}
  BY DEF Init
<1> QED
  BY <1>1 DEF Versions, OneChange, Lossless, obj

LEMMA ChangeVersions ==
  ASSUME TypeOK, Versions, NEW k \in Keys, NEW o \in Objects, Change(k, o)
  PROVE  Versions'
<1>0. PICK last \in Nat : last = Len(versions)
  <2>1. versions \in Seq([Keys -> Objects])
    BY DEF TypeOK
  <2> QED
    BY <2>1
<1>1. /\ last # 0
      /\ DOMAIN versions = 1..last
      /\ DOMAIN versions' = 1..(last + 1)
      /\ Len(versions') = last + 1
      /\ \A n \in 1..last : versions'[n] = versions[n]
      /\ versions'[last] = obj
      /\ versions'[last + 1] = obj'
  <2>1. /\ versions' \in Seq([Keys -> Objects])
        /\ Len(versions') = last + 1
        /\ \A n \in DOMAIN versions : versions'[n] = versions[n]
    BY <1>0, ChangeFacts
  <2>2. versions \in Seq([Keys -> Objects]) /\ last \in DOMAIN versions
    BY <1>0, VersionFacts DEF TypeOK
  <2> QED
    BY <1>0, <2>1, <2>2 DEF obj
<1>2. \A j \in Keys : j # k => obj'[j] = obj[j]
  BY ChangeFacts, VersionFacts
<1>3. \A n \in 2..last : \A j \in Keys : Changed(j, n)' <=> Changed(j, n)
  BY <1>1 DEF Changed
<1>4. \A j \in Keys : Changed(j, last + 1)' <=> obj'[j] # obj[j]
  BY <1>1 DEF Changed
<1>5. OneChange'
  BY <1>0, <1>1, <1>2, <1>3, <1>4 DEF Versions, OneChange
<1>6. ASSUME NEW m \in DOMAIN versions', NEW j \in Keys, versions'[m][j] # obj'[j]
      PROVE  \E n \in (m + 1)..Len(versions') : Changed(j, n)'
  <2>1. m \in 1..last /\ versions'[m] = versions[m]
    BY <1>1, <1>6
  <2>2. CASE obj'[j] # obj[j]
    BY <1>1, <1>4, <2>1, <2>2
  <2>3. CASE obj'[j] = obj[j]
    <3>1. PICK n \in (m + 1)..last : Changed(j, n)
      BY <1>0, <1>1, <1>6, <2>1, <2>3 DEF Versions, Lossless
    <3> QED
      BY <1>1, <1>3, <2>1, <3>1
  <2> QED
    BY <2>2, <2>3
<1> QED
  BY <1>5, <1>6 DEF Versions, Lossless

LEMMA NextVersions == TypeOK /\ Versions /\ [Next]_vars => Versions'
<1> SUFFICES ASSUME TypeOK, Versions, [Next]_vars PROVE Versions'
  OBVIOUS
<1>1. CASE UNCHANGED versions
  BY <1>1 DEF Versions, OneChange, Lossless, Changed, obj
<1>2. CASE User
  BY <1>2, UserFacts, ChangeVersions DEF User
<1>3. CASE Deliver \/ Relist \/ Resync \/ Handler \/ Crash \/ GetItem
  BY <1>1, <1>3 DEF Deliver, Relist, Resync, Handler, HandleChange, HandleTombstone,
     HandleDelete, CleanUpList, CleanUpDelete, CleanedUp, Crash, GetItem
<1>4. ASSUME NEW k \in processing, Sync(k) PROVE Versions'
  BY <1>1, <1>4 DEF Sync, BeginSync, PutSecret, SyncSucceeds, SyncFails
<1>5. ASSUME NEW k \in Keys, DelayOver(k) PROVE Versions'
  BY <1>1, <1>5 DEF DelayOver
<1>6. CASE UNCHANGED vars
  BY <1>1, <1>6 DEF vars
<1> QED
  BY <1>2, <1>3, <1>4, <1>5, <1>6 DEF Next, Worker

LEMMA VersionsHold == Spec => [](TypeOK /\ Versions)
  BY InitTypeOK, NextTypeOK, InitVersions, NextVersions, PTL DEF Spec

\* What the watch delivers is notified of, unless it is a deletion, and nothing
\* else changes in the cache.
LEMMA DeliverFacts ==
  ASSUME TypeOK, Versions, Deliver
  PROVE  /\ \A k \in Keys : Notified(k) => Notified(k)'
         /\ \A k \in Keys : cached'[k] # cached[k] /\ cached'[k].exists => Notified(k)'
<1>1. PICK j \in Keys, kind \in {"add", "update", "delete", "tombstone"} :
        /\ events' = Append(events, Event(j, kind))
        /\ Changed(j, known + 1)
        /\ cached'[j].exists => kind \in {"add", "update"}
  BY Delivered
<1>2. Event(j, kind) \in Events /\ Event(j, kind).key = j /\ Event(j, kind).kind = kind
  BY EventType
<1>3. /\ \A n \in DOMAIN events : n \in DOMAIN events' /\ events'[n] = events[n]
      /\ Len(events) + 1 \in DOMAIN events'
      /\ events'[Len(events) + 1] = Event(j, kind)
  BY <1>1, <1>2 DEF TypeOK
<1>4. \A k \in Keys : Notified(k) => Notified(k)'
  BY <1>3 DEF Notified
<1>5. cached'[j].exists => Notified(j)'
  BY <1>1, <1>2, <1>3 DEF Notified
<1>6. ASSUME NEW k \in Keys, k # j PROVE cached'[k] = cached[k]
  <2>1. known + 1 \in 2..Len(versions) /\ cached' = versions[known + 1]
    BY DEF Deliver, TypeOK, cached
  <2>2. ~Changed(k, known + 1)
    BY <1>1, <1>6, <2>1 DEF Versions, OneChange
  <2> QED
    BY <2>1, <2>2 DEF Changed, cached, TypeOK
<1> QED
  BY <1>4, <1>5, <1>6

\* So is all there is in a new list, after which the old notifications follow.
LEMMA RelistFacts ==
  ASSUME TypeOK, Relist
  PROVE  \A k \in Keys : cached'[k].exists \/ Notified(k) => Notified(k)'
<1>1. /\ versions[known'] \in [Keys -> Objects] /\ cached \in [Keys -> Objects]
      /\ cached' = versions[known']
  BY VersionFacts DEF Relist, cached
<1>2. PICK notes \in Listing(cached, versions[known']) : events' = events \o notes
  BY DEF Relist
<1>3. /\ events \in Seq(Events) /\ notes \in Seq(Events)
      /\ \A k \in Keys : cached'[k].exists => Tells(notes, k)
  BY <1>1, ListingFacts DEF TypeOK
<1>4. /\ \A n \in DOMAIN notes : /\ Len(events) + n \in DOMAIN events'
                                 /\ events'[Len(events) + n] = notes[n]
      /\ \A n \in DOMAIN events : n \in DOMAIN events' /\ events'[n] = events[n]
  BY <1>2, <1>3
<1> QED
  BY <1>3, <1>4 DEF Tells, Notified

-----------------------------------------------------------------------------
(* No change is forgotten.                                                 *)

LEMMA InitNotified == Init => \A k \in Keys : cached[k].exists => Notified(k)
<1> SUFFICES ASSUME Init PROVE \A k \in Keys : cached[k].exists => Notified(k)
  OBVIOUS
<1>1. cached \in [Keys -> Objects]
  BY InitTypeOK, VersionFacts
<1>2. \A k \in Keys : cached[k].exists => Tells(events, k)
  BY <1>1, DeploymentsType, ListingFacts DEF Init
<1> QED
  BY <1>2 DEF Tells, Notified

LEMMA InitForgotten == Init => NothingForgotten
  BY InitNotified DEF NothingForgotten

\* What is notified of stays so until the handler takes it.
LEMMA TakenOrNotified ==
  ASSUME TypeOK, events # <<>>, events' = Tail(events), NEW k \in Keys, Notified(k)
  PROVE  \/ Notified(k)'
         \/ Head(events).key = k /\ Head(events).kind \in {"add", "update"}
<1>1. PICK n \in DOMAIN events :
        events[n].key = k /\ events[n].kind \in {"add", "update"}
  BY DEF Notified
<1>2. events[n] \in Range(events)
  BY DEF Range
<1>3. CASE events[n] = Head(events)
  BY <1>1, <1>3
<1>4. CASE events[n] \in Range(Tail(events))
  BY <1>1, <1>4 DEF Notified, Range
<1> QED
  BY <1>2, <1>3, <1>4, TailFacts DEF TypeOK

\* A step that disturbs none of the evidence.
LEMMA Undisturbed ==
  ASSUME NothingForgotten, UNCHANGED <<cached, read, processing, wpc>>,
         dirty \subseteq dirty', \A k \in Keys : Notified(k) => Notified(k)'
  PROVE  NothingForgotten'
  BY DEF NothingForgotten

LEMMA NextForgotten ==
  TypeOK /\ Versions /\ QueuedOnce /\ NothingForgotten /\ [Next]_vars => NothingForgotten'
<1> SUFFICES ASSUME TypeOK, Versions, QueuedOnce, NothingForgotten, [Next]_vars
             PROVE  NothingForgotten'
  OBVIOUS
<1> USE DEF informer, handler, workqueue, worker
<1>1. CASE UNCHANGED <<cached, events, read, dirty, processing, wpc>>
  BY <1>1, Undisturbed DEF Notified
<1>2. ASSUME NEW k \in Keys, UserCreates(k) \/ UserEdits(k) \/ UserDeletes(k)
      PROVE  NothingForgotten'
  <2>1. PICK o \in Objects : Change(k, o)
    BY <1>2, UserFacts
  <2> QED
    BY <1>1, <2>1, ChangeFacts DEF Change
<1>3. CASE Deliver
  BY <1>3, DeliverFacts DEF Deliver, NothingForgotten
<1>4. CASE Relist
  BY <1>4, RelistFacts DEF Relist, NothingForgotten
<1>5. CASE Resync
  <2>1. \A k \in Keys : cached[k].exists => Tells(events', k)
    BY <1>5, VersionFacts, ListingFacts DEF Resync
  <2> QED
    BY <1>5, <2>1, CacheKept DEF Resync, Tells, Notified, NothingForgotten
<1>6. CASE HandleChange
  <2>1. \A k \in Keys : Notified(k) => Notified(k)' \/ k \in dirty'
    BY <1>6, TakenOrNotified DEF HandleChange, Add
  <2> QED
    BY <1>6, <2>1, CacheKept DEF HandleChange, Add, NothingForgotten
<1>7. CASE HandleTombstone \/ HandleDelete
  <2>1. \A k \in Keys : Notified(k) => Notified(k)'
    BY <1>7, TakenOrNotified DEF HandleTombstone, HandleDelete
  <2> QED
    BY <1>7, <2>1, Undisturbed, CacheKept DEF HandleTombstone, HandleDelete
<1>8. CASE CleanUpList \/ CleanUpDelete
  BY <1>1, <1>8, CacheKept DEF CleanUpList, CleanUpDelete
<1>9. CASE CleanedUp
  BY <1>9, Undisturbed, CacheKept DEF CleanedUp, Add, Notified
<1>10. CASE GetItem
  <2>1. processing = {}
    BY <1>10 DEF GetItem, QueuedOnce, TypeOK
  <2> QED
    BY <1>10, <2>1, CacheKept DEF GetItem, NothingForgotten, Notified
<1>11. ASSUME NEW k \in processing, BeginSync(k)
       PROVE  NothingForgotten'
  <2>1. k \in Keys /\ processing = {k}
    BY DEF TypeOK, QueuedOnce
  <2>2. cached[k].exists => read'[k] = cached[k].gen
    BY <1>11, <2>1, VersionFacts DEF BeginSync, TypeOK
  <2>3. \A j \in Keys : j # k => read'[j] = read[j]
    BY <1>11, <2>1, VersionFacts DEF BeginSync, TypeOK
  <2>4. UNCHANGED <<cached, events, dirty>>
    BY <1>11, CacheKept DEF BeginSync
  <2> QED
    BY <2>1, <2>2, <2>3, <2>4 DEF NothingForgotten, Notified
<1>12. ASSUME NEW k \in processing, PutSecret(k)
       PROVE  NothingForgotten'
  BY <1>1, <1>12, CacheKept DEF PutSecret
<1>13. ASSUME NEW k \in processing, SyncSucceeds(k) \/ SyncFails(k)
       PROVE  NothingForgotten'
  BY <1>13, CacheKept DEF SyncSucceeds, SyncFails, NothingForgotten, Notified
<1>14. CASE Crash
  <2>1. versions[known'] \in [Keys -> Objects] /\ cached' = versions[known']
    BY <1>14, VersionFacts DEF Crash, cached
  <2>2. \A k \in Keys : cached'[k].exists => Tells(events', k)
    BY <1>14, <2>1, DeploymentsType, ListingFacts DEF Crash
  <2> QED
    BY <1>14, <2>2 DEF Crash, Tells, Notified, NothingForgotten
<1>15. ASSUME NEW k \in Keys, DelayOver(k)
       PROVE  NothingForgotten'
  BY <1>15, Undisturbed, CacheKept DEF DelayOver, Add, Notified
<1>16. CASE UNCHANGED vars
  BY <1>1, <1>16, CacheKept DEF vars
<1> QED
  BY <1>2, <1>3, <1>4, <1>5, <1>6, <1>7, <1>8, <1>9, <1>10, <1>11, <1>12,
     <1>13, <1>14, <1>15, <1>16
  DEF Next, User, Handler, Worker, Sync

\* A change that has reached the cache is read by a sync or still on its way to
\* one, with any number of deployments, crashes and broken watches, and without
\* the periodic resync.
THEOREM ChangesRemembered == Spec => []NothingForgotten
<1>1. Spec => [](TypeOK /\ Versions /\ QueuedOnce /\ NothingForgotten)
  BY InitTypeOK, NextTypeOK, InitVersions, NextVersions, InitQueued, NextQueued,
     InitForgotten, NextForgotten, PTL DEF Spec
<1> QED
  BY <1>1, PTL

=============================================================================
