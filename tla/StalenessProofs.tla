-------------------------- MODULE StalenessProofs ---------------------------
(***************************************************************************)
(* Proofs about copies that age.  Module KeyCache, for any authorizers,    *)
(* requests, issuers, keys, files and intervals: how long a withdrawn key  *)
(* is accepted, and that a cache file outlasts the keys in use.  Module    *)
(* Presence, for any number of replicas, any delay, loss and order of the  *)
(* messages and any movement of the client: what a replica's record shows. *)
(***************************************************************************)
EXTENDS KeyCache, Presence, TLAPS

\* A leaf is proved by Zenon, or by SMT where it says so: where it rests on
\* arithmetic or on what an update of a function leaves behind.
USE ZenonT(60), SMTT(30)
-----------------------------------------------------------------------------
(***************************************************************************)
(* KeyCache: a withdrawn key ends, and the cache file carries over.        *)
(***************************************************************************)
\* The caps of the ages are numbers, and that of a withdrawn key is one fetch
\* above that of a key set.
LEMMA Caps ==
    ASSUME KeyCacheConstants
    PROVE  /\ StaleCap \in Nat /\ GoneCap \in Nat /\ AttemptCap \in Nat
           /\ MaxStale \in Nat /\ Timeout \in Nat
           /\ StaleCap = MaxStale + 1 /\ GoneCap = StaleCap + Timeout
<1>1. Refresh \in Nat /\ Throttle \in Nat /\ MaxStale \in Nat /\ Timeout \in Nat
  BY DEF KeyCacheConstants
<1> QED
  BY <1>1, SMTT(30) DEF StaleCap, GoneCap, AttemptCap, Larger

\* The clock moves an age by one, up to its cap.
LEMMA OlderAge ==
    ASSUME NEW cap \in Nat, NEW a \in 0 .. cap
    PROVE  /\ Older(a, cap) \in 0 .. cap
           /\ Older(a, cap) <= a + 1
           /\ Older(a, cap) = a + 1 \/ Older(a, cap) = cap
  BY SMTT(30) DEF Older

\* Beginning and ending a fetch empty the answer of its authorizer alone.
LEMMA FetchMoves ==
    ASSUME KeyTypeOK, NEW p \in Authorizer, NEW who, FetchBegins(p, who)
    PROVE  /\ response'[p] = NoKeys /\ fresh'[p] = NoEntry
           /\ \A q \in Authorizer \ {p} : /\ holder'[q] = holder[q] /\ spent'[q] = spent[q]
                                          /\ response'[q] = response[q] /\ fresh'[q] = fresh[q]
<1>1. /\ DOMAIN response = Authorizer /\ DOMAIN holder = Authorizer
      /\ DOMAIN spent = Authorizer /\ DOMAIN fresh = Authorizer
  BY DEF KeyTypeOK
<1> QED
  BY <1>1 DEF FetchBegins

\* They keep the types of the fetch, and only load's is fetched by load.
LEMMA FetchTypes ==
    ASSUME KeyCacheConstants, KeyTypeOK, NEW p \in Authorizer,
           NEW who \in Request \cup {Loader, NoRequest}, FetchBegins(p, who)
    PROVE  /\ holder' \in [Authorizer -> Request \cup {NoRequest, Loader}]
           /\ response' \in [Authorizer -> KeySet] /\ spent' \in [Authorizer -> 0 .. Timeout]
           /\ fresh' \in [Authorizer -> Entry(StaleCap)]
           /\ holder'[p] = who /\ \A q \in Authorizer \ {p} : holder'[q] = holder[q]
<1>1. /\ holder' = [holder EXCEPT ![p] = who] /\ fresh' = [fresh EXCEPT ![p] = NoEntry]
      /\ response' = [response EXCEPT ![p] = NoKeys] /\ spent' = [spent EXCEPT ![p] = 0]
  BY DEF FetchBegins
<1>2. 0 \in 0 .. Timeout /\ NoKeys \in KeySet /\ NoEntry \in Entry(StaleCap)
  BY Caps, SMTT(30) DEF NoKeys, NoEntry, KeySet, Entry
<1>3. /\ holder \in [Authorizer -> Request \cup {NoRequest, Loader}]
      /\ response \in [Authorizer -> KeySet] /\ spent \in [Authorizer -> 0 .. Timeout]
      /\ fresh \in [Authorizer -> Entry(StaleCap)]
  BY DEF KeyTypeOK
<1> QED
  BY <1>1, <1>2, <1>3

\* A key set just obtained is one, with keys and the age zero.
LEMMA ObtainedEntry ==
    ASSUME KeyCacheConstants, KeyTypeOK, NEW p \in Authorizer
    PROVE  /\ Obtained(p) \in Entry(StaleCap)
           /\ Obtained(p).set = response[p] /\ Obtained(p).age = 0
<1>1. 0 \in 0 .. StaleCap /\ response[p] \in KeySet
  BY Caps, SMTT(30) DEF KeyTypeOK
<1> QED
  BY <1>1, SMTT(30) DEF Obtained, Entry

\* persist_jwks replaces one cache file by the key set just obtained.
LEMMA PersistMoves ==
    ASSUME KeyCacheConstants, KeyTypeOK, NEW p \in Authorizer, Persist(p)
    PROVE  /\ disk' \in [File -> Entry(StaleCap)]
           /\ disk'[FileOf[p]] = Obtained(p)
           /\ \A f \in File \ {FileOf[p]} : disk'[f] = disk[f]
           /\ response[p] # NoKeys
<1>1. disk' = [disk EXCEPT ![FileOf[p]] = Obtained(p)] /\ response[p] # NoKeys
  BY DEF Persist
<1>2. disk \in [File -> Entry(StaleCap)] /\ FileOf[p] \in File
  BY DEF KeyTypeOK, File
<1>3. Obtained(p) \in Entry(StaleCap)
  BY ObtainedEntry
<1> QED
  BY <1>1, <1>2, <1>3

\* load_cached_jwks replaces the keys of one authorizer by those of its file.
LEMMA CachedMoves ==
    ASSUME KeyTypeOK, NEW p \in Authorizer, LoadCached(p)
    PROVE  /\ keys'[p] = disk[FileOf[p]] /\ disk' = disk
           /\ \A q \in Authorizer \ {p} : keys'[q] = keys[q]
<1>1. keys' = [keys EXCEPT ![p] = disk[FileOf[p]]] /\ disk' = disk
  BY DEF LoadCached
<1>2. DOMAIN keys = Authorizer
  BY DEF KeyTypeOK
<1> QED
  BY <1>1, <1>2

\* In the initial state no key is withdrawn and none is held.
LEMMA KeyStarts == ASSUME KeyCacheConstants PROVE KeyInit => KeyInv
<1> SUFFICES ASSUME KeyInit PROVE KeyInv
  OBVIOUS
<1>1. KeyTypeOK
  BY SMTT(30) DEF KeyCacheConstants, KeyInit, KeyTypeOK, KeySet, NoKeys, NoEntry, Entry,
         StaleCap, AttemptCap, GoneCap, Larger, Place
<1> QED
  BY <1>1 DEF KeyInit, KeyInv, Bounded, NoKeys

\* Rotation, outages and the disk keep the types.
LEMMA EnvironmentType ==
    ASSUME KeyCacheConstants, KeyTypeOK, Environment
    PROVE  KeyTypeOK'
<1> USE DEF KeyTypeOK, fetching, tasks, provider
<1>1. ASSUME NEW k \in Kid, PublishKey(k) PROVE KeyTypeOK'
  BY <1>1 DEF PublishKey
<1>2. ASSUME NEW k \in Kid, WithdrawKey(k) PROVE KeyTypeOK'
  BY <1>2 DEF WithdrawKey
<1>3. ASSUME NEW i \in Issuer, ProviderChanges(i) PROVE KeyTypeOK'
  BY <1>3 DEF ProviderChanges
<1>4. CASE DiskChanges
  BY <1>4 DEF DiskChanges
<1> QED
  BY <1>1, <1>2, <1>3, <1>4 DEF Environment

\* A key set that grows older stays a key set with its age below the cap.
LEMMA OlderEntry ==
    ASSUME KeyCacheConstants, NEW e \in Entry(StaleCap)
    PROVE  /\ [e EXCEPT !.age = Older(@, StaleCap)] \in Entry(StaleCap)
           /\ [e EXCEPT !.age = Older(@, StaleCap)].set = e.set
           /\ [e EXCEPT !.age = Older(@, StaleCap)].age = Older(e.age, StaleCap)
<1>1. Older(e.age, StaleCap) \in 0 .. StaleCap
  BY Caps, OlderAge DEF Entry
<1> QED
  BY <1>1 DEF Entry

\* The clock keeps every age below its cap.
LEMMA TickType ==
    ASSUME KeyCacheConstants, KeyTypeOK, Tick
    PROVE  KeyTypeOK'
<1>1. gone' \in [Kid -> 0 .. GoneCap] /\ attempt' \in [Authorizer -> 0 .. AttemptCap]
  <2>1. \A k \in Kid : Older(gone[k], GoneCap) \in 0 .. GoneCap
    BY Caps, OlderAge DEF KeyTypeOK
  <2>2. \A p \in Authorizer : Older(attempt[p], AttemptCap) \in 0 .. AttemptCap
    BY Caps, OlderAge DEF KeyTypeOK
  <2> QED
    BY <2>1, <2>2, Caps, SMTT(30) DEF Tick
<1>2. spent' \in [Authorizer -> 0 .. Timeout]
  BY SMTT(30) DEF KeyCacheConstants, Tick, KeyTypeOK
<1>5. fresh' \in [Authorizer -> Entry(StaleCap)]
  <2>1. \A p \in Authorizer : [fresh[p] EXCEPT !.age = Older(@, StaleCap)] \in Entry(StaleCap)
    BY OlderEntry DEF KeyTypeOK
  <2>2. NoEntry \in Entry(StaleCap)
    BY Caps, SMTT(30) DEF NoEntry, NoKeys, Entry, KeySet
  <2> QED
    BY <2>1, <2>2 DEF Tick
<1>3. disk' \in [File -> Entry(StaleCap)]
  <2>1. \A f \in File : [disk[f] EXCEPT !.age = Older(@, StaleCap)] \in Entry(StaleCap)
    BY OlderEntry DEF KeyTypeOK
  <2> QED
    BY <2>1 DEF Tick
<1>4. keys' \in [Authorizer -> Entry(StaleCap)] /\ \A p \in Authorizer : keys'[p].set = keys[p].set
  <2>1. \A p \in Authorizer : /\ [keys[p] EXCEPT !.age = Older(@, StaleCap)] \in Entry(StaleCap)
                          /\ [keys[p] EXCEPT !.age = Older(@, StaleCap)].set = keys[p].set
    BY OlderEntry DEF KeyTypeOK
  <2> QED
    BY <2>1 DEF Tick
<1> QED
  BY <1>1, <1>2, <1>3, <1>4, <1>5 DEF Tick, KeyTypeOK, tasks

\* Loading an authorizer and the provider's answers keep the types.
LEMMA LoadingType ==
    ASSUME KeyCacheConstants, KeyTypeOK, NEW p \in Authorizer, Loading(p)
    PROVE  KeyTypeOK'
<1> DEFINE FetchOK(st) ==
              /\ holder' \in [Authorizer -> Request \cup {NoRequest, Loader}]
              /\ response' \in [Authorizer -> KeySet] /\ spent' \in [Authorizer -> 0 .. Timeout]
              /\ fresh' \in [Authorizer -> Entry(StaleCap)]
              /\ state' = [state EXCEPT ![p] = st]
              /\ (st = "load") <=> (holder'[p] = Loader)
              /\ \A q \in Authorizer \ {p} : holder'[q] = holder[q]
<1>a. Loader # NoRequest /\ 0 \in 0 .. AttemptCap /\ 0 \in 0 .. StaleCap
  BY Caps, SMTT(30) DEF KeyCacheConstants
<1>b. ASSUME NEW st \in {"down", "load", "ready"}, NEW who \in {NoRequest, Loader},
             FetchBegins(p, who), state' = [state EXCEPT ![p] = st],
             (st = "load") <=> (who = Loader)
      PROVE  FetchOK(st)
  BY <1>b, FetchTypes
<1>B. ASSUME NEW st \in {"down", "ready"}, FetchEnds(p), state' = [state EXCEPT ![p] = st]
      PROVE  FetchOK(st)
  BY <1>a, <1>b, <1>B DEF FetchEnds
<1>c. ASSUME NEW st \in {"down", "load", "ready"}, FetchOK(st)
      PROVE  /\ holder' \in [Authorizer -> Request \cup {NoRequest, Loader}]
             /\ response' \in [Authorizer -> KeySet] /\ spent' \in [Authorizer -> 0 .. Timeout]
             /\ fresh' \in [Authorizer -> Entry(StaleCap)]
             /\ state' \in [Authorizer -> {"down", "load", "ready"}]
             /\ \A q \in Authorizer : (state'[q] = "load") <=> (holder'[q] = Loader)
             /\ state'[p] = st /\ \A q \in Authorizer \ {p} : state'[q] = state[q]
  BY <1>c DEF KeyTypeOK
<1> HIDE DEF FetchOK
<1>d. ASSUME keys' \in [Authorizer -> Entry(StaleCap)], keys'[p].set # NoKeys,
             \A q \in Authorizer \ {p} : keys'[q] = keys[q],
             disk' \in [File -> Entry(StaleCap)], FetchOK("ready"),
             attempt' = [attempt EXCEPT ![p] = 0], UNCHANGED <<provider, writable, tasks>>
      PROVE  KeyTypeOK'
  <2>1. attempt' \in [Authorizer -> 0 .. AttemptCap]
    BY <1>a, <1>d DEF KeyTypeOK
  <2>2. \A q \in Authorizer : state'[q] = "ready" => keys'[q].set # NoKeys
    BY <1>c, <1>d DEF KeyTypeOK
  <2> QED
    BY <1>c, <1>d, <2>1, <2>2 DEF KeyTypeOK, provider, tasks
<1>e. ASSUME NEW st \in {"down", "load"}, FetchOK(st), pc' \in [Request -> Place],
             UNCHANGED <<provider, writable, disk, keys, attempt, at, token>>
      PROVE  KeyTypeOK'
  <2>1. \A q \in Authorizer : state'[q] = "ready" => keys'[q].set # NoKeys
    BY <1>c, <1>e DEF KeyTypeOK
  <2> QED
    BY <1>c, <1>e, <2>1 DEF KeyTypeOK, provider
<1>1. CASE LoadStarts(p)
  <2>1. FetchOK("load")
    <3>1. state' = [state EXCEPT ![p] = "load"] /\ FetchBegins(p, Loader)
      BY <1>1 DEF LoadStarts
    <3> QED
      BY <3>1, <1>b
  <2> QED
    BY <1>1, <1>e, <2>1 DEF LoadStarts, tasks, KeyTypeOK
<1>2. CASE LoadFetched(p)
  <2>1. FetchOK("ready") /\ Persist(p)
    BY <1>2, <1>B DEF LoadFetched
  <2>2. disk' \in [File -> Entry(StaleCap)] /\ response[p] # NoKeys
    BY <2>1, PersistMoves
  <2>3. /\ keys' = [keys EXCEPT ![p] = Obtained(p)]
        /\ Obtained(p) \in Entry(StaleCap) /\ Obtained(p).set = response[p]
    BY <1>2, ObtainedEntry DEF LoadFetched
  <2>4. /\ keys' \in [Authorizer -> Entry(StaleCap)] /\ keys'[p].set # NoKeys
        /\ \A q \in Authorizer \ {p} : keys'[q] = keys[q]
    BY <2>2, <2>3 DEF KeyTypeOK
  <2> QED
    BY <1>2, <1>d, <2>1, <2>2, <2>4 DEF LoadFetched
<1>3. CASE LoadNotPersisted(p)
  <2>1. FetchOK("down")
    BY <1>3, <1>B DEF LoadNotPersisted
  <2> QED
    BY <1>3, <1>e, <2>1 DEF LoadNotPersisted, tasks, KeyTypeOK
<1>4. CASE LoadCached(p)
  <2>1. FetchOK("ready") /\ disk[FileOf[p]].set # NoKeys
    BY <1>4, <1>B DEF LoadCached
  <2>2. keys' = [keys EXCEPT ![p] = disk[FileOf[p]]] /\ disk[FileOf[p]] \in Entry(StaleCap)
    BY <1>4 DEF LoadCached, KeyTypeOK, File
  <2>3. /\ keys' \in [Authorizer -> Entry(StaleCap)] /\ keys'[p].set # NoKeys
        /\ \A q \in Authorizer \ {p} : keys'[q] = keys[q]
    BY <2>1, <2>2 DEF KeyTypeOK
  <2> QED
    BY <1>4, <1>d, <2>1, <2>3 DEF LoadCached, KeyTypeOK
<1>5. CASE LoadFails(p)
  <2>1. FetchOK("down")
    BY <1>5, <1>B DEF LoadFails
  <2> QED
    BY <1>5, <1>e, <2>1 DEF LoadFails, tasks, KeyTypeOK
<1>6. CASE LoadDropped(p)
  <2>1. FetchOK("down")
    BY <1>6, <1>B DEF LoadDropped
  <2> QED
    BY <1>6, <1>e, <2>1 DEF LoadDropped, tasks, KeyTypeOK
<1>8. CASE Released(p)
  <2>1. /\ state' \in [Authorizer -> {"down", "load", "ready"}] /\ state'[p] = "down"
        /\ \A q \in Authorizer \ {p} : state'[q] = state[q]
    BY <1>8 DEF Released, KeyTypeOK
  <2>2. holder[p] # Loader
    BY <1>8 DEF Released, KeyTypeOK
  <2> QED
    BY <1>8, <2>1, <2>2 DEF Released, KeyTypeOK, provider, fetching, tasks
<1>7. CASE FetchServed(p)
  <2>1. response' = [response EXCEPT ![p] = Served(IssuerOf[p])] /\ Served(IssuerOf[p]) \in KeySet
    BY <1>7 DEF FetchServed, Served, KeySet, KeyTypeOK
  <2>2. response' \in [Authorizer -> KeySet]
    BY <2>1 DEF KeyTypeOK
  <2> QED
    BY <1>7, <2>2 DEF FetchServed, KeyTypeOK, provider, tasks
<1> QED
  BY <1>1, <1>2, <1>3, <1>4, <1>5, <1>6, <1>7, <1>8 DEF Loading

\* authorize_token of a request, finished or dropped, keeps the types.
LEMMA AuthorizingType ==
    ASSUME KeyCacheConstants, KeyTypeOK, NEW r \in Request, Authorizing(r) \/ Dropped(r)
    PROVE  KeyTypeOK'
<1>a. /\ at[r] \in Authorizer /\ Loader # NoRequest /\ r \notin {Loader, NoRequest}
      /\ 0 \in 0 .. AttemptCap /\ 0 \in 0 .. StaleCap
  BY Caps, SMTT(30) DEF KeyCacheConstants, KeyTypeOK
<1>b. AfterRefresh(r) \in Place /\ {"denied", "accepted", "force", "idle"} \subseteq Place
  BY DEF Place, AfterRefresh
<1>c. ASSUME NEW place \in Place, Goto(r, place)
      PROVE  pc' \in [Request -> Place]
  BY <1>c DEF Goto, KeyTypeOK
<1> DEFINE FetchTyped ==
              /\ holder' \in [Authorizer -> Request \cup {NoRequest, Loader}]
              /\ response' \in [Authorizer -> KeySet] /\ spent' \in [Authorizer -> 0 .. Timeout]
              /\ fresh' \in [Authorizer -> Entry(StaleCap)]
              /\ \A q \in Authorizer : (state[q] = "load") <=> (holder'[q] = Loader)
<1>d. ASSUME NEW who \in {r, NoRequest}, holder[at[r]] # Loader, FetchBegins(at[r], who)
      PROVE  FetchTyped
  <2>1. /\ holder' \in [Authorizer -> Request \cup {NoRequest, Loader}]
        /\ response' \in [Authorizer -> KeySet] /\ spent' \in [Authorizer -> 0 .. Timeout]
        /\ fresh' \in [Authorizer -> Entry(StaleCap)]
        /\ holder'[at[r]] = who /\ \A q \in Authorizer \ {at[r]} : holder'[q] = holder[q]
    BY <1>a, <1>d, FetchTypes
  <2>2. \A q \in Authorizer : (state[q] = "load") <=> (holder[q] = Loader)
    BY DEF KeyTypeOK
  <2> QED
    BY <1>a, <1>d, <2>1, <2>2
<1>e. holder[at[r]] = r /\ FetchEnds(at[r]) => FetchTyped
  BY <1>a, <1>d DEF FetchEnds
<1> HIDE DEF FetchTyped
<1>f. ASSUME FetchTyped \/ UNCHANGED fetching, NEW place \in Place, Goto(r, place),
             UNCHANGED <<provider, writable, disk, state, keys, attempt, at, token>>
      PROVE  KeyTypeOK'
  <2>1. pc' \in [Request -> Place]
    BY <1>c, <1>f
  <2>2. FetchTyped
    BY <1>f DEF FetchTyped, fetching, KeyTypeOK
  <2> QED
    BY <1>f, <2>1, <2>2 DEF FetchTyped, KeyTypeOK, provider
<1>1. CASE RefreshNotDue(r)
  BY <1>1, <1>b, <1>f DEF RefreshNotDue
<1>2. CASE RefreshStarts(r)
  <2>1. FetchTyped
    <3>1. holder[at[r]] # Loader /\ FetchBegins(at[r], r)
      BY <1>2, <1>a DEF RefreshStarts
    <3> QED
      BY <1>a, <1>d, <3>1
  <2>2. attempt' \in [Authorizer -> 0 .. AttemptCap]
    BY <1>2, <1>a DEF RefreshStarts, KeyTypeOK
  <2> QED
    BY <1>2, <2>1, <2>2 DEF RefreshStarts, FetchTyped, KeyTypeOK, provider, tasks
<1>3. CASE RefreshStored(r)
  <2>1. FetchTyped /\ fresh[at[r]].set # NoKeys /\ fresh[at[r]] \in Entry(StaleCap)
    BY <1>3, <1>a, <1>e DEF RefreshStored, KeyTypeOK
  <2>2. keys' = [keys EXCEPT ![at[r]] = fresh[at[r]]]
    BY <1>3 DEF RefreshStored
  <2>3. /\ keys' \in [Authorizer -> Entry(StaleCap)]
        /\ \A q \in Authorizer : state[q] = "ready" => keys'[q].set # NoKeys
    BY <2>1, <2>2 DEF KeyTypeOK
  <2>4. pc' \in [Request -> Place]
    BY <1>3, <1>b, <1>c DEF RefreshStored
  <2> QED
    BY <1>3, <2>1, <2>3, <2>4 DEF RefreshStored, FetchTyped, KeyTypeOK, provider
<1>8. CASE RefreshPersisted(r)
  <2>1. disk' \in [File -> Entry(StaleCap)]
    BY <1>8, <1>a, PersistMoves DEF RefreshPersisted
  <2>2. fresh' \in [Authorizer -> Entry(StaleCap)]
    BY <1>8, <1>a, ObtainedEntry DEF RefreshPersisted, KeyTypeOK
  <2>3. 0 \in 0 .. Timeout /\ NoKeys \in KeySet
    BY Caps, SMTT(30) DEF NoKeys, KeySet
  <2>4. response' \in [Authorizer -> KeySet] /\ spent' \in [Authorizer -> 0 .. Timeout]
    BY <1>8, <2>3 DEF RefreshPersisted, KeyTypeOK
  <2> QED
    BY <1>8, <2>1, <2>2, <2>4 DEF RefreshPersisted, KeyTypeOK, provider, tasks
<1>9. CASE Dropped(r)
  <2>1. FetchTyped \/ UNCHANGED fetching
    BY <1>9, <1>e DEF Dropped
  <2> QED
    BY <1>9, <1>b, <1>f, <2>1 DEF Dropped
<1>4. CASE RefreshNotPersisted(r)
  BY <1>4, <1>b, <1>e, <1>f DEF RefreshNotPersisted
<1>5. CASE RefreshFails(r)
  <2>1. (IF AgeOK(keys[at[r]]) THEN AfterRefresh(r) ELSE "denied") \in Place
    BY <1>b
  <2> QED
    BY <1>5, <1>e, <1>f, <2>1 DEF RefreshFails
<1>6. CASE Lookup(r)
  <2>1. PICK place \in {"denied", "accepted", "force"} : Goto(r, place)
    BY <1>6 DEF Lookup
  <2> QED
    BY <1>6, <1>b, <1>f, <2>1 DEF Lookup
<1>7. CASE Answer(r)
  BY <1>7, <1>b, <1>f DEF Answer
<1> QED
  BY <1>1, <1>2, <1>3, <1>4, <1>5, <1>6, <1>7, <1>8, <1>9 DEF Authorizing

\* A request that arrives keeps the types.
LEMMA ArriveType ==
    ASSUME KeyTypeOK, NEW r \in Request, NEW p \in Authorizer, NEW k \in Kid, Arrive(r, p, k)
    PROVE  KeyTypeOK'
  BY DEF KeyTypeOK, Arrive, Goto, Place, provider, fetching

\* A step that leaves the provider's history alone and, for every answer, key
\* set and cache file, either leaves it, empties it or takes it over from one
\* that satisfies the bound keeps the invariant.
LEMMA HistoryKept ==
    ASSUME KeyCacheConstants, KeyInv, KeyTypeOK',
           UNCHANGED <<published, gone, retired>>,
           \A p \in Authorizer :
              \/ /\ holder'[p] = holder[p] /\ spent'[p] = spent[p]
                 /\ response'[p] = response[p] /\ fresh'[p] = fresh[p]
              \/ response'[p] = NoKeys
              \/ Fetching(p)' /\ response'[p] \subseteq published,
           \A p \in Authorizer :
              /\ keys'[p] \in {keys[p], fresh[p], disk[FileOf[p]], Obtained(p)}
              /\ fresh'[p] \in {fresh[p], NoEntry, Obtained(p)},
           \A f \in File : \/ disk'[f] = disk[f]
                           \/ \E p \in Authorizer : disk'[f] = Obtained(p)
    PROVE  KeyInv'
<1> USE DEF KeyInv
<1>1. \A p \in Authorizer : (~Fetching(p) => response[p] = NoKeys)'
  BY DEF Fetching
<1>2. \A p \in Authorizer : \A k \in response'[p] \cap retired' : gone'[k] <= spent'[p]
  BY DEF NoKeys
<1>3. \A p \in Authorizer : Bounded(Obtained(p))
  <2> SUFFICES ASSUME NEW p \in Authorizer, NEW k \in response[p] \cap retired
               PROVE  gone[k] <= 0 + Timeout
    BY ObtainedEntry DEF Bounded
  <2>1. gone[k] <= spent[p] /\ spent[p] \in 0 .. Timeout /\ gone[k] \in 0 .. GoneCap
    BY DEF KeyTypeOK
  <2> QED
    BY <2>1, SMTT(30) DEF KeyCacheConstants, GoneCap
<1>4. \A p \in Authorizer : FileOf[p] \in File
  BY DEF File
<1>5. Bounded(NoEntry)
  BY DEF Bounded, NoEntry, NoKeys
<1>6. \A p \in Authorizer : Bounded(keys'[p]) /\ Bounded(fresh'[p])
  BY <1>3, <1>4, <1>5
<1>7. \A f \in File : Bounded(disk'[f])
  BY <1>3
<1>8. \A p \in Authorizer : Bounded(keys[p])' /\ Bounded(fresh[p])'
  BY <1>6 DEF Bounded
<1>9. \A f \in File : Bounded(disk[f])'
  BY <1>7 DEF Bounded
<1> QED
  BY <1>1, <1>2, <1>8, <1>9

\* Rotation keeps the invariant: a key is withdrawn with its time at zero.
LEMMA EnvironmentInv ==
    ASSUME KeyCacheConstants, KeyInv, KeyTypeOK', Environment
    PROVE  KeyInv'
<1> USE DEF KeyInv, Fetching, Bounded, NoKeys, fetching, tasks
<1>1. ASSUME NEW k \in Kid, PublishKey(k) PROVE KeyInv'
  BY <1>1 DEF PublishKey
<1>2. ASSUME NEW k \in Kid, WithdrawKey(k) PROVE KeyInv'
  <2>1. gone[k] = 0 /\ retired' = retired \cup {k} /\ published' = published \ {k}
    BY <1>2 DEF WithdrawKey
  <2>2. \A p \in Authorizer : /\ spent[p] \in 0 .. Timeout /\ keys[p].age \in 0 .. StaleCap
                               /\ fresh[p].age \in 0 .. StaleCap
    BY DEF KeyTypeOK, Entry
  <2>3. \A f \in File : disk[f].age \in 0 .. StaleCap
    BY DEF KeyTypeOK, Entry
  <2>4. UNCHANGED <<gone, holder, response, spent, fresh, keys, disk>>
    BY <1>2 DEF WithdrawKey
  <2>5. \A p \in Authorizer : \A j \in response'[p] \cap retired' : gone'[j] <= spent'[p]
    BY <2>1, <2>2, <2>4, SMTT(30) DEF KeyCacheConstants
  <2>6. \A age \in 0 .. StaleCap : 0 <= age + Timeout
    BY Caps, SMTT(30)
  <2>7. (\A p \in Authorizer : Bounded(keys[p]) /\ Bounded(fresh[p]))'
    BY <2>1, <2>2, <2>4, <2>6
  <2>8. (\A f \in File : Bounded(disk[f]))'
    BY <2>1, <2>3, <2>4, <2>6
  <2> QED
    BY <2>1, <2>4, <2>5, <2>7, <2>8
<1>3. ASSUME NEW i \in Issuer, ProviderChanges(i) PROVE KeyInv'
  BY <1>3 DEF ProviderChanges
<1>4. CASE DiskChanges
  BY <1>4 DEF DiskChanges, provider
<1> QED
  BY <1>1, <1>2, <1>3, <1>4 DEF Environment

\* The clock keeps the invariant: a withdrawn key and the copies of it grow
\* older together, up to caps that respect the bound.
LEMMA TickInv ==
    ASSUME KeyCacheConstants, KeyInv, KeyTypeOK', Tick
    PROVE  KeyInv'
<1> USE DEF KeyInv
<1>1. \A k \in Kid : /\ gone[k] \in 0 .. GoneCap
                     /\ gone'[k] = IF k \in retired THEN Older(gone[k], GoneCap) ELSE 0
  BY DEF Tick, KeyTypeOK
<1>2. UNCHANGED <<published, retired, holder, response>>
  BY DEF Tick
<1>3. ASSUME NEW e \in Entry(StaleCap), Bounded(e)
      PROVE  \A k \in e.set \cap retired : gone'[k] <= Older(e.age, StaleCap) + Timeout
  <2> SUFFICES ASSUME NEW k \in e.set \cap retired
               PROVE  gone'[k] <= Older(e.age, StaleCap) + Timeout
    OBVIOUS
  <2>1. k \in Kid /\ e.age \in 0 .. StaleCap /\ gone[k] <= e.age + Timeout
    BY <1>3 DEF KeyTypeOK, Entry, Bounded
  <2>2. gone[k] \in 0 .. GoneCap /\ gone'[k] = Older(gone[k], GoneCap)
    BY <1>1, <2>1
  <2>3. gone'[k] \in 0 .. GoneCap /\ gone'[k] <= gone[k] + 1
    BY <2>2, OlderAge, Caps
  <2>4. \/ Older(e.age, StaleCap) = e.age + 1
        \/ Older(e.age, StaleCap) = StaleCap
    BY <2>1, OlderAge, Caps
  <2> QED
    BY <2>1, <2>2, <2>3, <2>4, Caps, SMTT(30)
<1>4. ASSUME NEW p \in Authorizer PROVE Bounded(keys[p])'
  <2>1. keys[p] \in Entry(StaleCap) /\ keys'[p] = [keys[p] EXCEPT !.age = Older(@, StaleCap)]
    BY DEF Tick, KeyTypeOK
  <2>2. keys'[p].set = keys[p].set /\ keys'[p].age = Older(keys[p].age, StaleCap)
    BY <2>1, OlderEntry
  <2> QED
    BY <1>2, <1>3, <2>1, <2>2 DEF Bounded
<1>5. ASSUME NEW f \in File PROVE Bounded(disk[f])'
  <2>1. disk[f] \in Entry(StaleCap) /\ disk'[f] = [disk[f] EXCEPT !.age = Older(@, StaleCap)]
    BY DEF Tick, KeyTypeOK
  <2>2. disk'[f].set = disk[f].set /\ disk'[f].age = Older(disk[f].age, StaleCap)
    BY <2>1, OlderEntry
  <2> QED
    BY <1>2, <1>3, <2>1, <2>2 DEF Bounded
<1>6. ASSUME NEW p \in Authorizer PROVE Bounded(fresh[p])' /\ (Fetching(p)' <=> Fetching(p))
  <2>1. fresh[p] \in Entry(StaleCap) /\ holder'[p] = holder[p]
    BY <1>2 DEF KeyTypeOK
  <2>2. CASE fresh[p].set = NoKeys
    <3>1. fresh'[p].set = NoKeys
      BY <2>2 DEF Tick, NoEntry
    <3> QED
      BY <2>1, <2>2, <3>1 DEF Bounded, Fetching, NoKeys
  <2>3. CASE fresh[p].set # NoKeys
    <3>1. fresh'[p] = [fresh[p] EXCEPT !.age = Older(@, StaleCap)]
      BY <2>3 DEF Tick
    <3>2. fresh'[p].set = fresh[p].set /\ fresh'[p].age = Older(fresh[p].age, StaleCap)
      BY <2>1, <3>1, OlderEntry
    <3> QED
      BY <1>2, <1>3, <2>1, <3>2 DEF Bounded, Fetching
  <2> QED
    BY <2>2, <2>3
<1>7. ASSUME NEW p \in Authorizer, NEW k \in response'[p] \cap retired'
      PROVE  gone'[k] <= spent'[p]
  <2>1. Fetching(p) /\ gone[k] <= spent[p] /\ k \in Kid /\ spent[p] \in 0 .. Timeout
    BY <1>2 DEF KeyTypeOK, NoKeys
  <2>2. spent'[p] = spent[p] + 1
    BY <2>1 DEF Tick
  <2>3. gone[k] \in 0 .. GoneCap /\ gone'[k] = Older(gone[k], GoneCap)
    BY <1>1, <1>2, <2>1
  <2>4. gone'[k] \in 0 .. GoneCap /\ gone'[k] <= gone[k] + 1
    BY <2>3, OlderAge, Caps
  <2> QED
    BY <2>1, <2>2, <2>3, <2>4, Caps, SMTT(30)
<1>8. \A k \in Kid \ retired' : gone'[k] = 0
  BY <1>1, <1>2
<1>9. \A p \in Authorizer : (~Fetching(p) => response[p] = NoKeys)'
  BY <1>2, <1>6
<1> QED
  BY <1>2, <1>4, <1>5, <1>6, <1>7, <1>8, <1>9

\* Loading an authorizer keeps the invariant.
LEMMA LoadingInv ==
    ASSUME KeyCacheConstants, KeyInv, KeyTypeOK', NEW p \in Authorizer, Loading(p)
    PROVE  KeyInv'
<1> USE DEF fetching, tasks, provider, FetchEnds
<1>0. KeyTypeOK
  BY DEF KeyInv
<1>1. UNCHANGED <<published, gone, retired>>
  BY DEF Loading, LoadStarts, LoadFetched, LoadNotPersisted, LoadCached, LoadFails,
         LoadDropped, Released, FetchServed
<1>2. \A q \in Authorizer :
         /\ \/ /\ holder'[q] = holder[q] /\ spent'[q] = spent[q]
               /\ response'[q] = response[q] /\ fresh'[q] = fresh[q]
            \/ response'[q] = NoKeys
            \/ Fetching(q)' /\ response'[q] \subseteq published
         /\ fresh'[q] \in {fresh[q], NoEntry}
  <2>1. CASE FetchServed(p)
    BY <1>0, <2>1 DEF FetchServed, Fetching, Served, KeyTypeOK
  <2>2. CASE FetchBegins(p, Loader) \/ FetchBegins(p, NoRequest)
    BY <1>0, <2>2, FetchMoves
  <2>3. CASE UNCHANGED fetching
    BY <2>3
  <2>4. \/ FetchServed(p) \/ UNCHANGED fetching
        \/ FetchBegins(p, Loader) \/ FetchBegins(p, NoRequest)
    BY DEF Loading, LoadStarts, LoadFetched, LoadNotPersisted, LoadCached, LoadFails,
           LoadDropped, Released
  <2> QED
    BY <2>1, <2>2, <2>3, <2>4
<1>3. /\ \A q \in Authorizer : keys'[q] \in {keys[q], disk[FileOf[q]], Obtained(q)}
      /\ \A f \in File : disk'[f] = disk[f] \/ disk'[f] = Obtained(p)
  <2>1. CASE LoadFetched(p)
    <3>1. Persist(p) /\ keys' = [keys EXCEPT ![p] = Obtained(p)]
      BY <2>1 DEF LoadFetched
    <3> QED
      BY <1>0, <3>1, PersistMoves DEF KeyTypeOK
  <2>2. CASE LoadCached(p)
    BY <1>0, <2>2, CachedMoves
  <2>3. CASE UNCHANGED <<disk, keys>>
    BY <2>3
  <2>4. LoadFetched(p) \/ LoadCached(p) \/ UNCHANGED <<disk, keys>>
    BY DEF Loading, LoadStarts, LoadNotPersisted, LoadFails, LoadDropped, Released, FetchServed
  <2> QED
    BY <2>1, <2>2, <2>3, <2>4
<1> QED
  BY <1>1, <1>2, <1>3, HistoryKept

\* authorize_token keeps the invariant: a file takes what was obtained, and
\* the keys what was written to the file.
LEMMA AuthorizingInv ==
    ASSUME KeyCacheConstants, KeyInv, KeyTypeOK', NEW r \in Request, Authorizing(r) \/ Dropped(r)
    PROVE  KeyInv'
<1> USE DEF fetching, tasks, provider, FetchEnds
<1>0. KeyTypeOK /\ at[r] \in Authorizer
  BY DEF KeyInv, KeyTypeOK
<1>1. UNCHANGED <<published, gone, retired>>
  BY DEF Authorizing, RefreshNotDue, RefreshStarts, RefreshPersisted, RefreshStored,
         RefreshNotPersisted, RefreshFails, Lookup, Answer, Dropped
<1>2. \A q \in Authorizer :
         /\ \/ /\ holder'[q] = holder[q] /\ spent'[q] = spent[q]
               /\ response'[q] = response[q] /\ fresh'[q] = fresh[q]
            \/ response'[q] = NoKeys
         /\ fresh'[q] \in {fresh[q], NoEntry, Obtained(q)}
  <2>1. CASE FetchBegins(at[r], r) \/ FetchBegins(at[r], NoRequest)
    BY <1>0, <2>1, FetchMoves
  <2>2. CASE UNCHANGED fetching
    BY <2>2
  <2>3. CASE RefreshPersisted(r)
    BY <1>0, <2>3 DEF RefreshPersisted, KeyTypeOK
  <2>4. \/ FetchBegins(at[r], r) \/ FetchBegins(at[r], NoRequest)
        \/ UNCHANGED fetching \/ RefreshPersisted(r)
    BY DEF Authorizing, RefreshNotDue, RefreshStarts, RefreshStored,
           RefreshNotPersisted, RefreshFails, Lookup, Answer, Dropped
  <2> QED
    BY <2>1, <2>2, <2>3, <2>4
<1>3. \A q \in Authorizer : keys'[q] \in {keys[q], fresh[q]}
  <2>1. CASE RefreshStored(r)
    BY <1>0, <2>1 DEF RefreshStored, KeyTypeOK
  <2>2. RefreshStored(r) \/ UNCHANGED keys
    BY DEF Authorizing, RefreshNotDue, RefreshStarts, RefreshPersisted, RefreshNotPersisted,
           RefreshFails, Lookup, Answer, Dropped
  <2> QED
    BY <2>1, <2>2
<1>4. \A f \in File : disk'[f] = disk[f] \/ disk'[f] = Obtained(at[r])
  <2>1. CASE RefreshPersisted(r)
    BY <1>0, <2>1, PersistMoves DEF RefreshPersisted
  <2>2. RefreshPersisted(r) \/ UNCHANGED disk
    BY DEF Authorizing, RefreshNotDue, RefreshStarts, RefreshStored, RefreshNotPersisted,
           RefreshFails, Lookup, Answer, Dropped
  <2> QED
    BY <2>1, <2>2
<1> QED
  BY <1>0, <1>1, <1>2, <1>3, <1>4, HistoryKept

\* Every step keeps the invariant.
LEMMA KeyStep == ASSUME KeyCacheConstants PROVE KeyInv /\ [KeyNext]_keyVars => KeyInv'
<1> SUFFICES ASSUME KeyInv, [KeyNext]_keyVars PROVE KeyInv'
  OBVIOUS
<1>0. KeyTypeOK
  BY DEF KeyInv
<1>1. CASE Environment
  BY <1>0, <1>1, EnvironmentType, EnvironmentInv
<1>2. CASE Tick
  BY <1>0, <1>2, TickType, TickInv
<1>3. ASSUME NEW p \in Authorizer, Loading(p) PROVE KeyInv'
  BY <1>0, <1>3, LoadingType, LoadingInv
<1>4. ASSUME NEW r \in Request, Authorizing(r) \/ Dropped(r) PROVE KeyInv'
  BY <1>0, <1>4, AuthorizingType, AuthorizingInv
<1>5. ASSUME NEW r \in Request, NEW p \in Authorizer, NEW k \in Kid, Arrive(r, p, k)
      PROVE  KeyInv'
  <2>1. KeyTypeOK'
    BY <1>0, <1>5, ArriveType
  <2> QED
    BY <1>5, <2>1 DEF KeyInv, Fetching, Bounded, Arrive, provider, fetching
<1>6. CASE UNCHANGED keyVars
  BY <1>6 DEF KeyInv, KeyTypeOK, Fetching, Bounded, keyVars, provider, fetching, tasks
<1> QED
  BY <1>1, <1>2, <1>3, <1>4, <1>5, <1>6 DEF KeyNext

\* KeyInv holds in every reachable state, however refreshes, failures,
\* reloads and rotations follow each other.
THEOREM KeyInvariant == ASSUME KeyCacheConstants PROVE KeySpec => []KeyInv
  BY KeyStarts, KeyStep, PTL DEF KeySpec

\* Only a lookup accepts a token, and it finds a key within its limit.
LEMMA AcceptedKeys ==
    ASSUME KeyCacheConstants, KeyInv, [KeyNext]_keyVars, NEW r \in Request,
           pc[r] # "accepted", pc'[r] = "accepted"
    PROVE  Found(r)
<1> USE DEF KeyTypeOK, Goto
<1>0. KeyTypeOK
  BY DEF KeyInv
<1>1. CASE Environment \/ Tick \/ UNCHANGED keyVars
  BY <1>0, <1>1 DEF Environment, PublishKey, WithdrawKey, ProviderChanges, DiskChanges, Tick,
         keyVars, tasks
<1>2. ASSUME NEW p \in Authorizer, Loading(p) PROVE FALSE
  BY <1>2 DEF Loading, LoadStarts, LoadFetched, LoadNotPersisted, LoadCached,
         LoadFails, LoadDropped, Released, FetchServed, tasks
<1>3. ASSUME NEW q \in Request, Authorizing(q) \/ Dropped(q) PROVE Found(r)
  <2>1. CASE Lookup(q)
    BY <1>0, <2>1 DEF Lookup
  <2> QED
    <3>1. CASE RefreshStarts(q) \/ RefreshPersisted(q)
      BY <3>1 DEF RefreshStarts, RefreshPersisted, tasks
    <3>2. CASE \E place \in {"look", "relook", "denied", "idle"} : Goto(q, place)
      BY <1>0, <3>2
    <3>3. \/ RefreshStarts(q) \/ RefreshPersisted(q) \/ Lookup(q)
          \/ \E place \in {"look", "relook", "denied", "idle"} : Goto(q, place)
      BY <1>3 DEF Authorizing, RefreshNotDue, RefreshStored, RefreshNotPersisted,
             RefreshFails, Answer, AfterRefresh, Dropped
    <3> QED
      BY <2>1, <3>1, <3>2, <3>3
<1>4. ASSUME NEW q \in Request, NEW p \in Authorizer, NEW k \in Kid, Arrive(q, p, k) PROVE FALSE
  BY <1>0, <1>4 DEF Arrive
<1> QED
  BY <1>1, <1>2, <1>3, <1>4 DEF KeyNext

\* ensure_cache_age: a withdrawn key is accepted at most max-stale and the
\* time of one fetch after it was withdrawn.
THEOREM WithdrawnKeyEnds == ASSUME KeyCacheConstants PROVE KeySpec => WithdrawnKeyBounded
<1>1. KeyInv /\ [KeyNext]_keyVars =>
        [\A r \in Request :
            (pc[r] # "accepted" /\ pc'[r] = "accepted" /\ token[r] \in retired /\ MaxStale > 0)
               => gone[token[r]] <= MaxStale + Timeout]_keyVars
  <2> SUFFICES ASSUME KeyInv, [KeyNext]_keyVars, NEW r \in Request, pc[r] # "accepted",
                      pc'[r] = "accepted", token[r] \in retired, MaxStale > 0
               PROVE  gone[token[r]] <= MaxStale + Timeout
    OBVIOUS
  <2>1. at[r] \in Authorizer /\ token[r] \in Kid /\ keys[at[r]].age \in 0 .. StaleCap
        /\ gone[token[r]] \in 0 .. GoneCap
    BY DEF KeyInv, KeyTypeOK, Entry
  <2>2. keys[at[r]].age <= MaxStale /\ token[r] \in keys[at[r]].set
    <3>1. Found(r)
      BY AcceptedKeys
    <3>2. MaxStale # 0
      BY Caps, SMTT(30)
    <3> QED
      BY <3>1, <3>2 DEF Found, AgeOK
  <2>3. gone[token[r]] <= keys[at[r]].age + Timeout
    BY <2>1, <2>2 DEF KeyInv, Bounded
  <2>4. /\ gone[token[r]] \in Int /\ keys[at[r]].age \in Int
        /\ MaxStale \in Int /\ Timeout \in Int
    BY <2>1, Caps, SMTT(30)
  <2> QED
    BY <2>2, <2>3, <2>4, SMTT(30)
<1> QED
  BY <1>1, KeyInvariant, PTL DEF KeySpec, WithdrawnKeyBounded

\* A cache file that is written gets younger: what it backs stays backed.
LEMMA StaysBacked ==
    ASSUME KeyCacheConstants, KeyTypeOK, NEW p \in Authorizer, Persist(p),
           NEW e \in Entry(StaleCap), NEW f \in File, Backed(e, f)
    PROVE  disk'[f].set # NoKeys /\ disk'[f].age <= e.age
<1>1. CASE f = FileOf[p]
  <2>1. disk'[f].set # NoKeys /\ disk'[f].age = 0
    BY <1>1, PersistMoves, ObtainedEntry
  <2> QED
    BY <2>1, SMTT(30) DEF Entry
<1>2. CASE f # FileOf[p]
  BY <1>2, PersistMoves DEF Backed
<1> QED
  BY <1>1, <1>2

\* The clock ages a cache file and what it backs together.
LEMMA TickBacked ==
    ASSUME KeyCacheConstants, KeyTypeOK, Tick,
           NEW e \in Entry(StaleCap), NEW f \in File, Backed(e, f)
    PROVE  disk'[f].set # NoKeys /\ disk'[f].age <= Older(e.age, StaleCap)
<1>1. disk[f] \in Entry(StaleCap) /\ disk'[f] = [disk[f] EXCEPT !.age = Older(@, StaleCap)]
  BY DEF Tick, KeyTypeOK
<1>2. disk'[f].set = disk[f].set /\ disk'[f].age = Older(disk[f].age, StaleCap)
  BY <1>1, OlderEntry
<1>3. disk[f].age \in 0 .. StaleCap /\ e.age \in 0 .. StaleCap /\ disk[f].age <= e.age
  BY <1>1 DEF Entry, Backed
<1>4. Older(disk[f].age, StaleCap) <= Older(e.age, StaleCap)
  BY <1>3, Caps, SMTT(30) DEF Older
<1> QED
  BY <1>2, <1>4 DEF Backed

\* Loading keeps every key set in use, or about to be, backed by its file.
LEMMA LoadingBacked ==
    ASSUME KeyCacheConstants, KeyTypeOK, CacheInv, NEW q \in Authorizer, Loading(q)
    PROVE  CacheInv'
<1> USE DEF FetchEnds
<1>a. \A p \in Authorizer : FileOf[p] \in File /\ keys[p] \in Entry(StaleCap)
                             /\ fresh[p] \in Entry(StaleCap)
  BY DEF KeyTypeOK, File
<1>b. \A p \in Authorizer : fresh'[p] \in {fresh[p], NoEntry}
  <2>1. CASE FetchBegins(q, Loader) \/ FetchBegins(q, NoRequest)
    BY <2>1, FetchMoves
  <2>2. FetchBegins(q, Loader) \/ FetchBegins(q, NoRequest) \/ UNCHANGED fresh
    BY DEF Loading, LoadStarts, LoadFetched, LoadNotPersisted, LoadCached, LoadFails,
           LoadDropped, Released, FetchServed, fetching
  <2> QED
    BY <2>1, <2>2
<1>c. NoEntry.set = NoKeys
  BY DEF NoEntry
<1>1. CASE LoadFetched(q)
  <2>1. Persist(q) /\ keys' = [keys EXCEPT ![q] = Obtained(q)]
        /\ state' = [state EXCEPT ![q] = "ready"]
    BY <1>1 DEF LoadFetched
  <2>2. disk'[FileOf[q]] = Obtained(q) /\ Obtained(q).set # NoKeys /\ Obtained(q).age \in Int
    BY <2>1, PersistMoves, ObtainedEntry, SMTT(30)
  <2>3. ASSUME NEW p \in Authorizer, state'[p] = "ready" PROVE Backed(keys[p], FileOf[p])'
    <3>1. CASE p = q
      <4>1. keys'[q] = Obtained(q)
        BY <2>1 DEF KeyTypeOK
      <4> QED
        BY <2>2, <3>1, <4>1, SMTT(30) DEF Backed
    <3>2. CASE p # q
      <4>1. keys'[p] = keys[p] /\ state[p] = "ready"
        BY <2>1, <2>3, <3>2 DEF KeyTypeOK
      <4> QED
        BY <1>a, <2>1, <4>1, StaysBacked DEF Backed, CacheInv
    <3> QED
      BY <3>1, <3>2
  <2>4. ASSUME NEW p \in Authorizer, fresh'[p].set # NoKeys PROVE Backed(fresh[p], FileOf[p])'
    BY <1>a, <1>b, <1>c, <2>1, <2>4, StaysBacked DEF Backed, CacheInv
  <2> QED
    BY <2>3, <2>4 DEF CacheInv
<1>2. CASE LoadCached(q)
  <2>1. disk' = disk /\ state' = [state EXCEPT ![q] = "ready"]
        /\ keys' = [keys EXCEPT ![q] = disk[FileOf[q]]] /\ disk[FileOf[q]].set # NoKeys
    BY <1>2 DEF LoadCached
  <2>2. disk[FileOf[q]].age \in Int
    BY <1>a, Caps, SMTT(30) DEF KeyTypeOK, Entry
  <2>3. ASSUME NEW p \in Authorizer, state'[p] = "ready" PROVE Backed(keys[p], FileOf[p])'
    <3>1. CASE p = q
      <4>1. keys'[q] = disk[FileOf[q]]
        BY <2>1 DEF KeyTypeOK
      <4> QED
        BY <2>1, <2>2, <3>1, <4>1, SMTT(30) DEF Backed
    <3>2. CASE p # q
      BY <2>1, <2>3, <3>2 DEF KeyTypeOK, Backed, CacheInv
    <3> QED
      BY <3>1, <3>2
  <2> QED
    BY <1>b, <1>c, <2>1, <2>3 DEF CacheInv, Backed
<1>3. CASE /\ UNCHANGED <<disk, keys>>
           /\ \A p \in Authorizer : state'[p] = "ready" => state[p] = "ready"
  BY <1>b, <1>c, <1>3 DEF CacheInv, Backed
<1>4. \/ LoadFetched(q) \/ LoadCached(q)
      \/ /\ UNCHANGED <<disk, keys>>
         /\ \A p \in Authorizer : state'[p] = "ready" => state[p] = "ready"
  BY DEF Loading, LoadStarts, LoadNotPersisted, LoadFails, LoadDropped, Released,
         FetchServed, KeyTypeOK
<1> QED
  BY <1>1, <1>2, <1>3, <1>4

\* So does authorize_token, also when it is dropped between the file and the
\* keys (refresh_if_due).
LEMMA AuthorizingBacked ==
    ASSUME KeyCacheConstants, KeyTypeOK, CacheInv, NEW r \in Request, Authorizing(r) \/ Dropped(r)
    PROVE  CacheInv'
<1> USE DEF FetchEnds
<1>a. \A p \in Authorizer : FileOf[p] \in File /\ keys[p] \in Entry(StaleCap)
                             /\ fresh[p] \in Entry(StaleCap)
  BY DEF KeyTypeOK, File
<1>b. at[r] \in Authorizer /\ NoEntry.set = NoKeys
  BY DEF KeyTypeOK, NoEntry
<1>1. CASE RefreshPersisted(r)
  <2>1. /\ Persist(at[r]) /\ keys' = keys /\ state' = state
        /\ fresh' = [fresh EXCEPT ![at[r]] = Obtained(at[r])]
    BY <1>1 DEF RefreshPersisted
  <2>2. disk'[FileOf[at[r]]] = Obtained(at[r]) /\ Obtained(at[r]).set # NoKeys
        /\ Obtained(at[r]).age \in Int
    BY <1>b, <2>1, PersistMoves, ObtainedEntry, SMTT(30)
  <2>3. ASSUME NEW p \in Authorizer, state'[p] = "ready" PROVE Backed(keys[p], FileOf[p])'
    BY <1>a, <1>b, <2>1, <2>3, StaysBacked DEF Backed, CacheInv
  <2>4. ASSUME NEW p \in Authorizer, fresh'[p].set # NoKeys PROVE Backed(fresh[p], FileOf[p])'
    <3>1. CASE p = at[r]
      <4>1. fresh'[p] = Obtained(p)
        BY <2>1, <3>1 DEF KeyTypeOK
      <4> QED
        BY <2>2, <3>1, <4>1, SMTT(30) DEF Backed
    <3>2. CASE p # at[r]
      <4>1. fresh'[p] = fresh[p]
        BY <2>1, <3>2 DEF KeyTypeOK
      <4> QED
        BY <1>a, <1>b, <2>1, <2>4, <4>1, StaysBacked DEF Backed, CacheInv
    <3> QED
      BY <3>1, <3>2
  <2> QED
    BY <2>3, <2>4 DEF CacheInv
<1>2. CASE ~RefreshPersisted(r)
  <2>1. disk' = disk /\ state' = state
    BY <1>2 DEF Authorizing, RefreshNotDue, RefreshStarts, RefreshStored, RefreshNotPersisted,
           RefreshFails, Lookup, Answer, Dropped
  <2>2. \A p \in Authorizer : fresh'[p] \in {fresh[p], NoEntry}
    <3>1. CASE FetchBegins(at[r], r) \/ FetchBegins(at[r], NoRequest)
      BY <1>b, <3>1, FetchMoves
    <3>2. FetchBegins(at[r], r) \/ FetchBegins(at[r], NoRequest) \/ UNCHANGED fresh
      BY <1>2 DEF Authorizing, RefreshNotDue, RefreshStarts, RefreshStored,
             RefreshNotPersisted, RefreshFails, Lookup, Answer, Dropped, fetching
    <3> QED
      BY <3>1, <3>2
  <2>3. \A p \in Authorizer : \/ keys'[p] = keys[p]
                              \/ keys'[p] = fresh[p] /\ fresh[p].set # NoKeys
    <3>1. CASE RefreshStored(r)
      BY <1>b, <3>1 DEF RefreshStored, KeyTypeOK
    <3>2. RefreshStored(r) \/ UNCHANGED keys
      BY <1>2 DEF Authorizing, RefreshNotDue, RefreshStarts, RefreshNotPersisted,
             RefreshFails, Lookup, Answer, Dropped
    <3> QED
      BY <3>1, <3>2
  <2> QED
    BY <1>b, <2>1, <2>2, <2>3 DEF CacheInv, Backed
<1> QED
  BY <1>1, <1>2

\* persist_jwks before the keys are replaced: a session that is started again
\* finds a file it may load for as long as the keys of any authorizer that
\* writes to the file may be used.
THEOREM CacheOutlastsKeys == ASSUME KeyCacheConstants PROVE KeySpec => []CacheCarriesOver
<1>1. KeyInit => CacheInv
  BY SMTT(30) DEF KeyInit, CacheInv, NoEntry
<1>2. KeyInv /\ CacheInv /\ [KeyNext]_keyVars => CacheInv'
  <2> SUFFICES ASSUME KeyInv, CacheInv, [KeyNext]_keyVars PROVE CacheInv'
    OBVIOUS
  <2>a. KeyTypeOK
    BY DEF KeyInv
  <2>1. CASE Environment \/ UNCHANGED keyVars
    <3>1. UNCHANGED <<disk, keys, state, fresh>>
      BY <2>1 DEF Environment, PublishKey, WithdrawKey, ProviderChanges, DiskChanges, keyVars,
             fetching
    <3> QED
      BY <3>1 DEF CacheInv, Backed
  <2>2. CASE Tick
    <3>1. ASSUME NEW p \in Authorizer
          PROVE  /\ (state[p] = "ready" => Backed(keys[p], FileOf[p]))'
                 /\ (fresh[p].set # NoKeys => Backed(fresh[p], FileOf[p]))'
      <4>1. FileOf[p] \in File /\ keys[p] \in Entry(StaleCap) /\ fresh[p] \in Entry(StaleCap)
        BY <2>a DEF KeyTypeOK, File
      <4>2. keys'[p].age = Older(keys[p].age, StaleCap) /\ state'[p] = state[p]
        BY <2>2, <4>1, OlderEntry DEF Tick
      <4>3. fresh'[p].set # NoKeys =>
              fresh[p].set # NoKeys /\ fresh'[p].age = Older(fresh[p].age, StaleCap)
        BY <2>2, <4>1, OlderEntry DEF Tick, NoEntry
      <4> QED
        BY <2>2, <2>a, <4>1, <4>2, <4>3, TickBacked DEF CacheInv, Backed
    <3> QED
      BY <3>1 DEF CacheInv
  <2>3. ASSUME NEW q \in Authorizer, Loading(q) PROVE CacheInv'
    BY <2>a, <2>3, LoadingBacked
  <2>4. ASSUME NEW r \in Request, Authorizing(r) \/ Dropped(r) PROVE CacheInv'
    BY <2>a, <2>4, AuthorizingBacked
  <2>5. ASSUME NEW r \in Request, NEW q \in Authorizer, NEW k \in Kid, Arrive(r, q, k)
        PROVE  CacheInv'
    BY <2>5 DEF Arrive, fetching, CacheInv, Backed
  <2> QED
    BY <2>1, <2>2, <2>3, <2>4, <2>5 DEF KeyNext
<1>3. KeyInv /\ CacheInv => CacheCarriesOver
  <2> SUFFICES ASSUME KeyInv, CacheInv, NEW p \in Authorizer,
                      state[p] = "ready", AgeOK(keys[p])
               PROVE  disk[FileOf[p]].set # NoKeys /\ AgeOK(disk[FileOf[p]])
    BY DEF CacheCarriesOver
  <2>1. Backed(keys[p], FileOf[p]) /\ keys[p].age \in 0 .. StaleCap
        /\ disk[FileOf[p]].age \in 0 .. StaleCap
    BY DEF CacheInv, KeyInv, KeyTypeOK, Entry, File
  <2> QED
    BY <2>1, Caps, SMTT(30) DEF Backed, AgeOK
<1> QED
  BY <1>1, <1>2, <1>3, KeyInvariant, PTL DEF KeySpec
-----------------------------------------------------------------------------
(***************************************************************************)
(* Presence: the record of a replica is as new as what it was told.        *)
(***************************************************************************)
(* In the initial state nobody is known and the invariant holds.           *)
LEMMA PresenceStarts ==
  ASSUME PresenceConstants PROVE PresenceInit => PresenceInv
  BY SMTT(30) DEF PresenceConstants, PresenceInit, PresenceInv, Unknown, Dev, Stamped

(* Recording a stamped contact (deviceRegistry.record) keeps a replica's   *)
(* record stamped and at least as late as what the replica has heard.      *)
LEMMA RecordKeeps ==
  ASSUME PresenceConstants, PresenceInv, NEW r \in Replica, NEW d \in Dev, Record(r, d),
         d.real <= d.stamp, d.stamp <= d.real + MaxSkew, d.real <= since',
         NEW h \in Int, h <= d.stamp \/ h = heard[r],
         heard' = [heard EXCEPT ![r] = h],
         since' \in Nat, since <= since'
  PROVE  /\ reg' \in [Replica -> Dev] /\ heard' \in [Replica -> Int]
         /\ \A o \in Replica : Stamped(reg[o])' /\ heard'[o] <= reg'[o].stamp
<1>1. reg' \in [Replica -> Dev] /\ heard' \in [Replica -> Int]
  BY DEF PresenceInv, Record
<1>2. ASSUME NEW o \in Replica
      PROVE  Stamped(reg[o])' /\ heard'[o] <= reg'[o].stamp
  <2>1. CASE o # r
    BY <2>1, SMTT(30) DEF PresenceConstants, PresenceInv, Record, Stamped, Dev
  <2>2. CASE o = r /\ d.stamp > reg[r].stamp
    <3>1. reg'[r] = d /\ heard'[r] = h
      BY <2>2 DEF PresenceInv, Record
    <3>2. heard[r] <= d.stamp
      BY <2>2, SMTT(30) DEF PresenceInv, Dev
    <3> QED
      BY <2>2, <3>1, <3>2 DEF Stamped
  <2>3. CASE o = r /\ ~(d.stamp > reg[r].stamp)
    <3>1. reg'[r] = reg[r] /\ heard'[r] = h
      BY <2>3 DEF PresenceInv, Record
    <3>2. d.stamp <= reg[r].stamp
      BY <2>3, SMTT(30) DEF PresenceInv, Dev
    <3> QED
      BY <2>3, <3>1, <3>2, SMTT(30) DEF PresenceConstants, PresenceInv, Stamped, Dev
  <2> QED
    BY <2>1, <2>2, <2>3
<1> QED
  BY <1>1, <1>2

(* A contact (recordDevicePresence) at any replica keeps the invariant.    *)
LEMMA TouchKeeps ==
  ASSUME PresenceConstants, PresenceInv, NEW r \in Replica, Touch(r),
         now' = now, skew' = skew,
         conn' \in Replica \cup {"none"}
  PROVE  PresenceInv'
<1> DEFINE d == [stamp |-> now + skew[r], real |-> now]
<1>1. /\ d \in Dev /\ d.real = now /\ d.stamp = now + skew[r]
      /\ d.real <= d.stamp /\ d.stamp <= d.real + MaxSkew
  BY SMTT(30) DEF PresenceConstants, PresenceInv, Dev
<1>2. /\ Record(r, d) /\ heard' = [heard EXCEPT ![r] = now] /\ since' = now
      /\ msgs' = msgs \cup {[to |-> o, dev |-> d] : o \in Replica \ {r}}
  BY DEF Touch
<1>3. now \in Int /\ since' \in Nat /\ since <= since'
  BY <1>2, SMTT(30) DEF PresenceInv
<1>4. /\ reg' \in [Replica -> Dev] /\ heard' \in [Replica -> Int]
      /\ \A o \in Replica : Stamped(reg[o])' /\ heard'[o] <= reg'[o].stamp
  <2>1. PICK e \in Dev : e = d
    BY <1>1
  <2>2. /\ Record(r, e) /\ e.real <= e.stamp /\ e.stamp <= e.real + MaxSkew
        /\ e.real <= since'
    BY <1>1, <1>2, <2>1, SMTT(30) DEF PresenceInv
  <2>3. now <= e.stamp
    BY <1>1, <2>1 DEF PresenceConstants, PresenceInv
  <2> HIDE DEF d
  <2> QED
    BY <1>2, <1>3, <2>2, <2>3, RecordKeeps
<1>5. ASSUME NEW m \in msgs'
      PROVE  m \in [to : Replica, dev : Dev] /\ Stamped(m.dev)'
  <2>1. CASE m \in msgs
    BY <2>1, <1>2, <1>3, SMTT(30) DEF PresenceConstants, PresenceInv, Stamped, Dev
  <2>2. CASE \E o \in Replica : m = [to |-> o, dev |-> d]
    BY <2>2, <1>1, <1>2, <1>3, SMTT(30) DEF Stamped, Dev, PresenceInv
  <2> QED
    BY <1>2, <2>1, <2>2
<1> QED
  BY <1>2, <1>3, <1>4, <1>5, SMTT(30) DEF PresenceInv

(* Every step keeps the invariant.                                         *)
LEMMA PresenceStep ==
  ASSUME PresenceConstants PROVE PresenceInv /\ [PresenceNext]_presenceVars => PresenceInv'
<1> SUFFICES ASSUME PresenceInv, [PresenceNext]_presenceVars PROVE PresenceInv'
  OBVIOUS
<1>1. CASE TimePasses
  BY <1>1, SMTT(30) DEF PresenceConstants, PresenceInv, TimePasses, stream, Stamped
<1>2. CASE StreamBeats
  BY <1>2, TouchKeeps DEF PresenceInv, StreamBeats
<1>3. CASE StreamEnds
  BY <1>3 DEF PresenceInv, StreamEnds, Stamped
<1>4. ASSUME NEW r \in Replica, StreamOpens(r) \/ OtherContact(r) PROVE PresenceInv'
  BY <1>4, TouchKeeps DEF StreamOpens, OtherContact, PresenceInv
<1>5. ASSUME NEW m \in msgs, Deliver(m) PROVE PresenceInv'
  <2> DEFINE h == IF m.dev.real > heard[m.to] THEN m.dev.real ELSE heard[m.to]
  <2>1. m.to \in Replica /\ m.dev \in Dev /\ Stamped(m.dev)
    BY DEF PresenceInv
  <2>2. /\ h \in Int /\ heard' = [heard EXCEPT ![m.to] = h]
        /\ h <= m.dev.stamp \/ h = heard[m.to]
    BY <1>5, <2>1 DEF Deliver, PresenceInv, Dev, Stamped
  <2>3. since' = since /\ since' \in Nat
    BY <1>5 DEF Deliver, stream, PresenceInv
  <2>4. /\ reg' \in [Replica -> Dev] /\ heard' \in [Replica -> Int]
        /\ \A o \in Replica : Stamped(reg[o])' /\ heard'[o] <= reg'[o].stamp
    <3>1. Record(m.to, m.dev)
      BY <1>5 DEF Deliver
    <3>2. since <= since'
      BY <2>3, SMTT(30)
    <3> HIDE DEF h
    <3> QED
      BY <2>1, <2>2, <2>3, <3>1, <3>2, RecordKeeps DEF Stamped
  <2>5. \A n \in msgs' : n \in [to : Replica, dev : Dev] /\ Stamped(n.dev)'
    BY <1>5, <2>3 DEF Deliver, PresenceInv, Stamped
  <2> QED
    BY <1>5, <2>3, <2>4, <2>5 DEF Deliver, stream, PresenceInv
<1>6. ASSUME NEW m \in msgs, Lose(m) PROVE PresenceInv'
  BY <1>6 DEF PresenceInv, Lose, stream, Stamped
<1>7. CASE UNCHANGED presenceVars
  BY <1>7 DEF PresenceInv, presenceVars, stream, Stamped
<1> QED
  BY <1>1, <1>2, <1>3, <1>4, <1>5, <1>6, <1>7 DEF PresenceNext

(* PresenceInv holds in every reachable state, whatever is delayed, lost   *)
(* or reordered between the replicas.                                      *)
THEOREM PresenceInvariant ==
  ASSUME PresenceConstants PROVE PresenceSpec => []PresenceInv
  BY PresenceStarts, PresenceStep, PTL DEF PresenceSpec

(* deviceRegistry.record: what a replica shows is never older than what it *)
(* was told by more than the difference of the clocks.                     *)
THEOREM RecordIsNewest ==
  ASSUME PresenceConstants PROVE PresenceSpec => []NewestKept
<1>1. PresenceInv => NewestKept
  <2> SUFFICES ASSUME PresenceInv, NEW r \in Replica
               PROVE  reg[r].real >= heard[r] - MaxSkew
    BY DEF NewestKept
  <2>1. /\ reg[r].real \in Int /\ reg[r].stamp \in Int /\ heard[r] \in Int
        /\ reg[r].stamp <= reg[r].real + MaxSkew /\ heard[r] <= reg[r].stamp
    BY DEF PresenceInv, Stamped, Dev
  <2> QED
    BY <2>1, SMTT(30) DEF PresenceConstants
<1> QED
  BY <1>1, PresenceInvariant, PTL

(* managedClientStates: a client without a contact for the lease and the   *)
(* difference of the clocks is shown as offline by every replica.          *)
THEOREM SilenceShown ==
  ASSUME PresenceConstants PROVE PresenceSpec => []SilentIsOffline
<1>1. PresenceInv => SilentIsOffline
  BY SMTT(30) DEF PresenceConstants, PresenceInv, SilentIsOffline, Online, Known, Stamped, Dev
<1> QED
  BY <1>1, PresenceInvariant, PTL
-----------------------------------------------------------------------------
(***************************************************************************)
(* Presence: the lease covers lost and delayed heartbeats.                 *)
(***************************************************************************)
(* What the proofs need of counting finite sets: facts of the library that *)
(* the theorem at the end takes from it.                                   *)
Counting ==
    /\ IsFiniteSet({}) /\ Cardinality({}) = 0
    /\ \A S : IsFiniteSet(S) => Cardinality(S) \in Nat
    /\ \A S : IsFiniteSet(S) =>
          \A T \in SUBSET S : IsFiniteSet(T) /\ Cardinality(T) <= Cardinality(S)
    /\ \A S, x : IsFiniteSet(S) =>
          /\ IsFiniteSet(S \cup {x})
          /\ x \in S => Cardinality(S \cup {x}) = Cardinality(S)
          /\ x \notin S => Cardinality(S \cup {x}) = Cardinality(S) + 1
    /\ \A x : IsFiniteSet({x}) /\ Cardinality({x}) = 1

(* What is on its way to a replica: contacts each within its delay, and    *)
(* finitely many of them in any interval.                                  *)
LEMMA WaitingFacts ==
  ASSUME PresenceConstants, Counting, PresenceInv, BeatsInv, NEW r \in Replica
  PROVE  /\ heard[r] \in Int
         /\ \A t \in Waiting(r) : t \in Int /\ now <= t + MaxDelay
         /\ \A x, y : IsFiniteSet(Within(Waiting(r), x, y)) /\ Cardinality(Within(Waiting(r), x, y)) \in Nat
<1>1. heard[r] \in Int
  BY DEF PresenceInv
<1>2. ASSUME NEW t \in Waiting(r) PROVE t \in Int /\ now <= t + MaxDelay
  <2>1. PICK m \in msgs : m.to = r /\ t = m.dev.real
    BY DEF Waiting
  <2> QED
    BY <2>1 DEF PresenceInv, BeatsInv, Dev
<1>3. ASSUME NEW x, NEW y
      PROVE  IsFiniteSet(Within(Waiting(r), x, y)) /\ Cardinality(Within(Waiting(r), x, y)) \in Nat
  <2>1. IsFiniteSet(Waiting(r)) /\ Within(Waiting(r), x, y) \in SUBSET Waiting(r)
    BY DEF BeatsInv, Within
  <2>2. IsFiniteSet(Within(Waiting(r), x, y))
    BY <2>1 DEF Counting
  <2> QED
    BY <2>2 DEF Counting
<1> QED
  BY <1>1, <1>2, <1>3

(* A contact sends one message to every other replica (recordDevicePresence). *)
LEMMA TouchSends ==
  ASSUME NEW r \in Replica, NEW o \in Replica, Touch(r)
  PROVE  Waiting(o)' = IF o = r THEN Waiting(o) ELSE Waiting(o) \cup {now}
<1> DEFINE d == [stamp |-> now + skew[r], real |-> now]
<1>1. msgs' = msgs \cup {[to |-> q, dev |-> d] : q \in Replica \ {r}}
  BY DEF Touch
<1>2. d.real = now
  OBVIOUS
<1>3. ASSUME NEW t PROVE t \in Waiting(o)' <=> t \in Waiting(o) \/ (o # r /\ t = now)
  <2>1. t \in Waiting(o)' <=> \E m \in msgs' : m.to = o /\ t = m.dev.real
    BY DEF Waiting
  <2>2. t \in Waiting(o) <=> \E m \in msgs : m.to = o /\ t = m.dev.real
    BY DEF Waiting
  <2>3. \A q : [to |-> q, dev |-> d].to = q /\ [to |-> q, dev |-> d].dev = d
    OBVIOUS
  <2> HIDE DEF d
  <2>4. \A m : m \in msgs' <=>
                 m \in msgs \/ \E q \in Replica \ {r} : m = [to |-> q, dev |-> d]
    BY <1>1
  <2>5. ASSUME NEW m \in msgs', m.to = o, t = m.dev.real
        PROVE  t \in Waiting(o) \/ (o # r /\ t = now)
    <3>1. CASE m \in msgs
      BY <3>1, <2>5, <2>2
    <3>2. CASE \E q \in Replica \ {r} : m = [to |-> q, dev |-> d]
      BY <3>2, <2>5, <2>3, <1>2
    <3> QED
      BY <3>1, <3>2, <2>4
  <2>6. ASSUME o # r, t = now PROVE \E m \in msgs' : m.to = o /\ t = m.dev.real
    <3>1. [to |-> o, dev |-> d] \in msgs'
      BY <2>4, <2>6
    <3> QED
      BY <3>1, <2>3, <2>6, <1>2
  <2>7. msgs \subseteq msgs'
    BY <2>4
  <2> QED
    BY <2>1, <2>2, <2>5, <2>6, <2>7
<1> QED
  BY <1>3

(* A message that is delivered or lost is one contact less to come.        *)
LEMMA MessageGone ==
  ASSUME NEW m \in msgs, msgs' = msgs \ {m}, NEW o \in Replica
  PROVE  /\ Waiting(o)' \subseteq Waiting(o)
         /\ Waiting(o) \subseteq Waiting(o)' \cup {m.dev.real}
         /\ m.to # o => Waiting(o)' = Waiting(o)
         /\ m.dev.real \in Waiting(m.to)
<1>1. \A t : t \in Waiting(o)' <=> \E n \in msgs' : n.to = o /\ t = n.dev.real
  BY DEF Waiting
<1>2. \A t : t \in Waiting(o) <=> \E n \in msgs : n.to = o /\ t = n.dev.real
  BY DEF Waiting
<1>3. m.dev.real \in Waiting(m.to)
  BY DEF Waiting
<1>4. Waiting(o)' \subseteq Waiting(o)
  BY <1>1, <1>2
<1>5. Waiting(o) \subseteq Waiting(o)' \cup {m.dev.real}
  <2> SUFFICES ASSUME NEW t \in Waiting(o), t # m.dev.real PROVE t \in Waiting(o)'
    OBVIOUS
  <2>1. PICK n \in msgs : n.to = o /\ t = n.dev.real
    BY <1>2
  <2>2. n \in msgs'
    BY <2>1
  <2> QED
    BY <2>1, <2>2, <1>1
<1>6. ASSUME m.to # o, NEW t \in Waiting(o) PROVE t \in Waiting(o)'
  <2>1. PICK n \in msgs : n.to = o /\ t = n.dev.real
    BY <1>2
  <2>2. n \in msgs'
    BY <2>1, <1>6
  <2> QED
    BY <2>1, <2>2, <1>1
<1> QED
  BY <1>3, <1>4, <1>5, <1>6

(* One heartbeat more is one interval more.                                *)
LEMMA OneMore == \A b \in Nat, c \in Nat : b * (c + 1) = b * c + b
  BY SMTT(30)

(* More heartbeats take longer.                                            *)
LEMMA MoreLast == \A b \in Nat, c \in Nat, d \in Nat : c <= d => b * c <= b * d
  BY SMTT(30)

(* A contact adds to what is on its way and takes nothing from it.         *)
LEMMA TouchAdds ==
  ASSUME PresenceConstants, Counting, PresenceInv, BeatsInv, NEW r \in Replica, Touch(r),
         NEW o \in Replica
  PROVE  \A x, y : /\ IsFiniteSet(Within(Waiting(o)', x, y))
                   /\ Cardinality(Within(Waiting(o)', x, y)) \in Nat
                   /\ Cardinality(Within(Waiting(o), x, y)) <= Cardinality(Within(Waiting(o)', x, y))
<1>1. Waiting(o) \subseteq Waiting(o)' /\ IsFiniteSet(Waiting(o)')
  <2>1. IsFiniteSet(Waiting(o)) /\ IsFiniteSet(Waiting(o) \cup {now})
    BY DEF BeatsInv, Counting
  <2> QED
    BY <2>1, TouchSends
<1> SUFFICES ASSUME NEW x, NEW y
             PROVE  /\ IsFiniteSet(Within(Waiting(o)', x, y))
                    /\ Cardinality(Within(Waiting(o)', x, y)) \in Nat
                    /\ Cardinality(Within(Waiting(o), x, y)) <= Cardinality(Within(Waiting(o)', x, y))
  OBVIOUS
<1>2. Within(Waiting(o)', x, y) \in SUBSET Waiting(o)' /\ Within(Waiting(o), x, y) \in SUBSET Within(Waiting(o)', x, y)
  BY <1>1 DEF Within
<1>3. IsFiniteSet(Within(Waiting(o)', x, y))
  BY <1>1, <1>2 DEF Counting
<1> QED
  BY <1>2, <1>3 DEF Counting

(* A replica that knows of the present owes nothing.                       *)
LEMMA NothingOwed ==
  ASSUME Beat \in Nat \ {0}, losses' \in Nat, beat' \in Nat, NEW o \in Replica,
         \A x, y : Cardinality(Within(Waiting(o)', x, y)) \in Nat,
         \A x \in Unseen(o)' : x = beat'
  PROVE  Owed(o)' /\ Spaced(o)'
<1> DEFINE n(x, y) == Cardinality(Within(Waiting(o)', x, y))
<1>1. ASSUME NEW x \in Unseen(o)' PROVE beat' - x <= Beat * (n(x, beat') + losses')
  <2>1. x = beat' /\ n(x, beat') \in Nat
    BY <1>1
  <2> HIDE DEF n
  <2>2. Beat * (n(x, beat') + losses') \in Nat
    BY <2>1, SMTT(30)
  <2> QED
    BY <2>1, <2>2, SMTT(30)
<1>2. ASSUME NEW x \in Unseen(o)', NEW y \in x .. beat'
      PROVE  y - x < Beat * (n(x, y) + losses' + 1)
  <2>1. x = beat' /\ n(x, y) \in Nat
    BY <1>2
  <2> HIDE DEF n
  <2>2. n(x, y) + losses' \in Nat
    BY <2>1, SMTT(30)
  <2>3. Beat * (n(x, y) + losses' + 1) = Beat * (n(x, y) + losses') + Beat
    BY <2>2, OneMore
  <2>4. Beat * (n(x, y) + losses') \in Nat
    BY <2>2, SMTT(30)
  <2> QED
    BY <2>1, <2>3, <2>4, SMTT(30)
<1> QED
  BY <1>1, <1>2 DEF Owed, Spaced

(* More on its way, or lost, owes no less.                                 *)
LEMMA OwedByMore ==
  ASSUME Beat \in Nat \ {0}, losses \in Nat, losses' \in Nat, beat \in Nat, joined \in Nat,
         NEW o \in Replica, Owed(o), Spaced(o), beat' = beat, joined' = joined,
         \A x \in Unseen(o)' : x \in Unseen(o),
         \A x \in Unseen(o)' : \A y :
            /\ Cardinality(Within(Waiting(o), x, y)) \in Nat /\ Cardinality(Within(Waiting(o)', x, y)) \in Nat
            /\ Cardinality(Within(Waiting(o), x, y)) + losses <= Cardinality(Within(Waiting(o)', x, y)) + losses'
  PROVE  Owed(o)' /\ Spaced(o)'
<1> DEFINE n(x, y) == Cardinality(Within(Waiting(o), x, y))
           k(x, y) == Cardinality(Within(Waiting(o)', x, y))
<1>1. ASSUME NEW x \in Unseen(o)' PROVE beat' - x <= Beat * (k(x, beat') + losses')
  <2>1. beat - x <= Beat * (n(x, beat) + losses) /\ x \in Int
    <3>1. beat - x <= Beat * (n(x, beat) + losses) /\ x \in joined .. beat
      BY <1>1 DEF Owed, Unseen
    <3>2. x \in Int
      BY <3>1, SMTT(30)
    <3> QED
      BY <3>1, <3>2
  <2>2. n(x, beat) \in Nat /\ k(x, beat) \in Nat /\ n(x, beat) + losses <= k(x, beat) + losses'
    BY <1>1
  <2> HIDE DEF n, k
  <2>3. n(x, beat) + losses \in Nat /\ k(x, beat) + losses' \in Nat
    BY <2>2, SMTT(30)
  <2>4. Beat * (n(x, beat) + losses) <= Beat * (k(x, beat) + losses')
    BY <2>2, <2>3, MoreLast
  <2>5. Beat * (n(x, beat) + losses) \in Int /\ Beat * (k(x, beat) + losses') \in Int
    BY <2>3, SMTT(30)
  <2> QED
    BY <2>1, <2>4, <2>5, SMTT(30)
<1>2. ASSUME NEW x \in Unseen(o)', NEW y \in x .. beat'
      PROVE  y - x < Beat * (k(x, y) + losses' + 1)
  <2>1. y - x < Beat * (n(x, y) + losses + 1) /\ x \in Int /\ y \in Int
    <3>1. y - x < Beat * (n(x, y) + losses + 1) /\ x \in joined .. beat
      BY <1>2 DEF Spaced, Unseen
    <3>2. x \in Int /\ y \in Int
      BY <1>2, <3>1, SMTT(30)
    <3> QED
      BY <3>1, <3>2
  <2>2. n(x, y) \in Nat /\ k(x, y) \in Nat /\ n(x, y) + losses <= k(x, y) + losses'
    BY <1>2
  <2> HIDE DEF n, k
  <2>3. /\ n(x, y) + losses + 1 \in Nat /\ k(x, y) + losses' + 1 \in Nat
        /\ n(x, y) + losses + 1 <= k(x, y) + losses' + 1
    BY <2>2, SMTT(30)
  <2>4. Beat * (n(x, y) + losses + 1) <= Beat * (k(x, y) + losses' + 1)
    BY <2>3, MoreLast
  <2>5. Beat * (n(x, y) + losses + 1) \in Int /\ Beat * (k(x, y) + losses' + 1) \in Int
    BY <2>3, SMTT(30)
  <2> QED
    BY <2>1, <2>4, <2>5, SMTT(30)
<1> QED
  BY <1>1, <1>2 DEF Owed, Spaced

(* A stream that opens owes nothing: its only contact is the present one.  *)
LEMMA OpenOwesNothing ==
  ASSUME PresenceConstants, Counting, PresenceInv, BeatsInv, NEW r \in Replica, StreamOpens(r),
         NEW o \in Replica
  PROVE  Owed(o)' /\ Spaced(o)'
<1>1. /\ joined' = now /\ beat' = now /\ losses' = losses /\ now \in Nat
      /\ losses \in Nat /\ Beat \in Nat \ {0} /\ Touch(r)
  BY DEF StreamOpens, PresenceInv, BeatsInv, PresenceConstants
<1>2. \A x \in Unseen(o)' : x = beat'
  BY <1>1, SMTT(30) DEF Unseen
<1> QED
  BY <1>1, <1>2, TouchAdds, NothingOwed

(* A contact that is none of the stream's changes nothing about what is    *)
(* owed, except that its own replica knows of the present.                 *)
LEMMA ContactOwesNothing ==
  ASSUME PresenceConstants, Counting, PresenceInv, BeatsInv, conn # "none",
         NEW r \in Replica, OtherContact(r), NEW o \in Replica
  PROVE  Owed(o)' /\ Spaced(o)'
<1>1. /\ UNCHANGED <<joined, beat, losses, conn>> /\ Touch(r) /\ heard' = [heard EXCEPT ![r] = now]
      /\ losses \in Nat /\ joined \in Nat /\ beat \in Nat /\ now \in Nat /\ beat <= now
      /\ Beat \in Nat \ {0} /\ Owed(o) /\ Spaced(o)
  BY DEF OtherContact, Touch, PresenceInv, BeatsInv, PresenceConstants
<1>2. \A x, y : /\ Cardinality(Within(Waiting(o), x, y)) \in Nat /\ Cardinality(Within(Waiting(o)', x, y)) \in Nat
                /\ Cardinality(Within(Waiting(o), x, y)) <= Cardinality(Within(Waiting(o)', x, y))
  BY <1>1, TouchAdds, WaitingFacts
<1>3. CASE o = r
  <2>1. heard'[o] = now
    BY <1>1, <1>3 DEF PresenceInv
  <2>2. \A x \in Unseen(o)' : x = beat'
    BY <1>1, <2>1, SMTT(30) DEF Unseen
  <2> QED
    BY <1>1, <1>2, <2>2, NothingOwed
<1>4. CASE o # r
  <2>1. heard'[o] = heard[o]
    BY <1>1, <1>4 DEF PresenceInv
  <2>2. Unseen(o)' = Unseen(o)
    BY <1>1, <2>1 DEF Unseen
  <2>3. \A n, k \in Nat : n <= k => n + losses <= k + losses
    BY <1>1, SMTT(30)
  <2> QED
    BY <1>1, <1>2, <2>2, <2>3, OwedByMore
<1> QED
  BY <1>3, <1>4

(* A heartbeat comes exactly one interval after the last; it is one more   *)
(* message to every other replica (getMachineClientEvents).                *)
LEMMA BeatKeepsPace ==
  ASSUME PresenceConstants, Counting, PresenceInv, BeatsInv, StreamBeats, NEW o \in Replica
  PROVE  Owed(o)' /\ Spaced(o)'
<1> DEFINE n(x, y) == Cardinality(Within(Waiting(o), x, y))
           k(x, y) == Cardinality(Within(Waiting(o)', x, y))
<1>1. /\ conn # "none" /\ Touch(conn) /\ conn \in Replica
      /\ joined' = joined /\ losses' = losses /\ beat' = now
      /\ losses \in Nat /\ joined \in Nat /\ beat \in Nat /\ now \in Nat
      /\ Beat \in Nat \ {0} /\ joined <= beat /\ Owed(o) /\ Spaced(o)
      /\ heard' = [heard EXCEPT ![conn] = now]
  BY DEF StreamBeats, Touch, PresenceInv, BeatsInv, PresenceConstants
<1>2. now = beat + Beat
  <2>1. now >= beat + Beat /\ now <= beat + Beat
    BY <1>1 DEF StreamBeats, BeatsInv
  <2> QED
    BY <1>1, <2>1, SMTT(30)
<1>3. \A x, y : n(x, y) \in Nat /\ k(x, y) \in Nat /\ n(x, y) <= k(x, y)
  BY <1>1, TouchAdds, WaitingFacts
<1>4. CASE o = conn
  <2>1. heard'[o] = now
    BY <1>1, <1>4 DEF PresenceInv
  <2>2. \A x \in Unseen(o)' : x = beat'
    BY <1>1, <2>1, SMTT(30) DEF Unseen
  <2> QED
    BY <1>1, <1>3, <2>2, NothingOwed
<1>5. CASE o # conn
  <2>1. Waiting(o)' = Waiting(o) \cup {now} /\ heard'[o] = heard[o]
    BY <1>1, <1>5, TouchSends DEF PresenceInv
  <2>2. ASSUME NEW x \in Int, x < now PROVE 1 <= k(x, now)
    <3>1. now \in Within(Waiting(o)', x, now)
      BY <1>1, <2>1, <2>2, SMTT(30) DEF Within
    <3>2. {now} \in SUBSET Within(Waiting(o)', x, now) /\ IsFiniteSet(Within(Waiting(o)', x, now))
      BY <1>1, <3>1, TouchAdds
    <3> QED
      BY <3>2 DEF Counting
  <2>3. ASSUME NEW x \in Unseen(o)', x <= beat
        PROVE  x \in Unseen(o) /\ x \in Int /\ n(x, beat) + 1 <= k(x, now)
    <3>1. x \in Unseen(o) /\ x \in Int /\ x < now
      BY <1>1, <1>2, <2>1, <2>3, SMTT(30) DEF Unseen
    <3>2. now \notin Within(Waiting(o), x, beat)
      BY <1>1, <1>2, SMTT(30) DEF Within
    <3>3. \A t \in Waiting(o) : t \in Int /\ (t <= beat => t <= now)
      <4>1. \A t \in Waiting(o) : t \in Int
        BY WaitingFacts
      <4> QED
        BY <1>1, <1>2, <4>1, SMTT(30)
    <3>4. now <= now
      BY <1>1, SMTT(30)
    <3>5. Within(Waiting(o), x, beat) \cup {now} \in SUBSET Within(Waiting(o)', x, now)
      BY <1>1, <2>1, <3>1, <3>3, <3>4 DEF Within
    <3>6. IsFiniteSet(Within(Waiting(o), x, beat)) /\ IsFiniteSet(Within(Waiting(o)', x, now))
      BY <1>1, TouchAdds, WaitingFacts
    <3>7. Cardinality(Within(Waiting(o), x, beat) \cup {now}) = n(x, beat) + 1
      BY <3>2, <3>6 DEF Counting
    <3>8. Cardinality(Within(Waiting(o), x, beat) \cup {now}) <= k(x, now)
      BY <3>5, <3>6 DEF Counting
    <3> QED
      BY <3>1, <3>7, <3>8
  <2>4. ASSUME NEW x \in Unseen(o)' PROVE beat' - x <= Beat * (k(x, beat') + losses')
    <3>0. x \in Int /\ x <= now /\ k(x, now) \in Nat
      BY <1>1, <1>3, <2>4, SMTT(30) DEF Unseen
    <3>1. CASE x <= beat
      <4>1. n(x, beat) + 1 <= k(x, now) /\ beat - x <= Beat * (n(x, beat) + losses)
        BY <1>1, <2>3, <2>4, <3>1 DEF Owed
      <4>2. n(x, beat) \in Nat
        BY <1>3
      <4> HIDE DEF n, k
      <4>3. n(x, beat) + losses \in Nat /\ k(x, now) + losses \in Nat
            /\ n(x, beat) + losses + 1 \in Nat /\ n(x, beat) + losses + 1 <= k(x, now) + losses
        BY <1>1, <3>0, <4>1, <4>2, SMTT(30)
      <4>4. /\ Beat * (n(x, beat) + losses + 1) = Beat * (n(x, beat) + losses) + Beat
            /\ Beat * (n(x, beat) + losses + 1) <= Beat * (k(x, now) + losses)
        BY <1>1, <4>3, OneMore, MoreLast
      <4>5. Beat * (n(x, beat) + losses) \in Int /\ Beat * (k(x, now) + losses) \in Int
        BY <1>1, <4>3, SMTT(30)
      <4> QED
        BY <1>1, <1>2, <3>0, <4>1, <4>4, <4>5, SMTT(30)
    <3>2. CASE x > beat /\ x < now
      <4>1. 1 <= k(x, now)
        BY <2>2, <3>0, <3>2
      <4> HIDE DEF k
      <4>2. 1 <= k(x, now) + losses /\ k(x, now) + losses \in Nat /\ 1 \in Nat
        BY <1>1, <3>0, <4>1, SMTT(30)
      <4>3. Beat * 1 <= Beat * (k(x, now) + losses)
        BY <1>1, <4>2, MoreLast
      <4>4. Beat * (k(x, now) + losses) \in Int
        BY <1>1, <4>2, SMTT(30)
      <4> QED
        BY <1>1, <1>2, <3>0, <3>2, <4>3, <4>4, SMTT(30)
    <3>3. CASE x = now
      <4> HIDE DEF k
      <4>1. Beat * (k(x, now) + losses) \in Nat
        BY <1>1, <3>0, SMTT(30)
      <4> QED
        BY <1>1, <3>3, <4>1, SMTT(30)
    <3>4. x <= beat \/ (x > beat /\ x < now) \/ x = now
      BY <1>1, <3>0, SMTT(30)
    <3> QED
      BY <3>1, <3>2, <3>3, <3>4
  <2>5. ASSUME NEW x \in Unseen(o)', NEW y \in x .. beat'
        PROVE  y - x < Beat * (k(x, y) + losses' + 1)
    <3>0. x \in Int /\ y \in Int /\ x <= y /\ y <= now /\ k(x, y) \in Nat /\ n(x, y) \in Nat
      <4>1. x \in Int
        BY <1>1, <2>5, SMTT(30) DEF Unseen
      <4>2. x \in Int /\ y \in Int /\ x <= y /\ y <= now
        BY <1>1, <2>5, <4>1, SMTT(30)
      <4> QED
        BY <1>3, <4>2
    <3>9. k(x, y) + losses \in Nat /\ k(x, y) + losses + 1 \in Nat
          /\ Beat * (k(x, y) + losses + 1) = Beat * (k(x, y) + losses) + Beat
          /\ Beat * (k(x, y) + losses) \in Nat
      <4> HIDE DEF k
      <4>1. k(x, y) + losses \in Nat /\ k(x, y) + losses + 1 \in Nat
        BY <1>1, <3>0, SMTT(30)
      <4> QED
        BY <1>1, <4>1, OneMore, SMTT(30)
    <3>1. CASE y <= beat
      <4>1. x \in Unseen(o) /\ y \in x .. beat
        BY <1>1, <2>3, <2>5, <3>0, <3>1, SMTT(30)
      <4>2. y - x < Beat * (n(x, y) + losses + 1) /\ n(x, y) <= k(x, y)
        BY <1>1, <1>3, <4>1 DEF Spaced
      <4> HIDE DEF n, k
      <4>3. n(x, y) + losses + 1 <= k(x, y) + losses + 1 /\ n(x, y) + losses + 1 \in Nat
        BY <1>1, <3>0, <4>2, SMTT(30)
      <4>4. Beat * (n(x, y) + losses + 1) <= Beat * (k(x, y) + losses + 1)
        BY <1>1, <3>9, <4>3, MoreLast
      <4>5. Beat * (n(x, y) + losses + 1) \in Int
        BY <1>1, <4>3, SMTT(30)
      <4> QED
        BY <1>1, <3>0, <3>9, <4>2, <4>4, <4>5, SMTT(30)
    <3>2. CASE y > beat /\ y < now /\ x <= beat
      <4>1. x \in Unseen(o) /\ beat - x <= Beat * (n(x, beat) + losses) /\ n(x, beat) \in Nat
        BY <1>1, <1>3, <2>3, <2>5, <3>2 DEF Owed
      <4>2. n(x, beat) <= k(x, y)
        <5>1. \A t \in Waiting(o) : t \in Int
          BY WaitingFacts
        <5>2. \A t \in Waiting(o) : t <= beat => t <= y
          BY <1>1, <3>0, <3>2, <5>1, SMTT(30)
        <5>3. Within(Waiting(o), x, beat) \in SUBSET Within(Waiting(o)', x, y)
          BY <2>1, <5>2 DEF Within
        <5>4. IsFiniteSet(Within(Waiting(o)', x, y))
          BY <1>1, TouchAdds
        <5> QED
          BY <5>3, <5>4 DEF Counting
      <4> HIDE DEF n, k
      <4>3. n(x, beat) + losses <= k(x, y) + losses /\ n(x, beat) + losses \in Nat
        BY <1>1, <3>0, <4>1, <4>2, SMTT(30)
      <4>4. Beat * (n(x, beat) + losses) <= Beat * (k(x, y) + losses)
        BY <1>1, <3>9, <4>3, MoreLast
      <4>5. Beat * (n(x, beat) + losses) \in Int
        BY <1>1, <4>3, SMTT(30)
      <4> QED
        BY <1>1, <1>2, <3>0, <3>2, <3>9, <4>1, <4>4, <4>5, SMTT(30)
    <3>3. CASE y = now
      <4>1. y - x <= Beat * (k(x, y) + losses)
        BY <1>1, <2>4, <2>5, <3>3
      <4> HIDE DEF k
      <4> QED
        BY <1>1, <3>0, <3>9, <4>1, SMTT(30)
    <3>4. CASE x > beat /\ y < now
      <4> HIDE DEF k
      <4> QED
        BY <1>1, <1>2, <3>0, <3>4, <3>9, SMTT(30)
    <3>5. \/ y <= beat \/ y = now \/ (x > beat /\ y < now)
          \/ (y > beat /\ y < now /\ x <= beat)
      BY <1>1, <3>0, SMTT(30)
    <3> QED
      BY <3>1, <3>2, <3>3, <3>4, <3>5
  <2> QED
    BY <2>4, <2>5 DEF Owed, Spaced
<1> QED
  BY <1>4, <1>5

(* A lost message is one more heartbeat the lease has to cover, and        *)
(* nothing else changes.                                                   *)
LEMMA LossKeepsPace ==
  ASSUME PresenceConstants, Counting, PresenceInv, BeatsInv, conn # "none",
         NEW m \in msgs, Lose(m), NEW o \in Replica
  PROVE  Owed(o)' /\ Spaced(o)'
<1> DEFINE n(x, y) == Cardinality(Within(Waiting(o), x, y))
           k(x, y) == Cardinality(Within(Waiting(o)', x, y))
<1>1. /\ UNCHANGED <<joined, beat, heard>> /\ losses' = losses + 1
      /\ msgs' = msgs \ {m} /\ Owed(o) /\ Spaced(o)
      /\ losses \in Nat /\ joined \in Nat /\ beat \in Nat /\ Beat \in Nat \ {0}
  BY DEF Lose, stream, PresenceInv, BeatsInv, PresenceConstants
<1>2. Waiting(o)' \subseteq Waiting(o) /\ Waiting(o) \subseteq Waiting(o)' \cup {m.dev.real}
  BY <1>1, MessageGone
<1>3. ASSUME NEW x, NEW y
      PROVE  n(x, y) \in Nat /\ k(x, y) \in Nat /\ n(x, y) + losses <= k(x, y) + losses'
  <2>1. IsFiniteSet(Within(Waiting(o), x, y)) /\ n(x, y) \in Nat
    BY WaitingFacts
  <2>2. Within(Waiting(o)', x, y) \in SUBSET Within(Waiting(o), x, y)
    BY <1>2 DEF Within
  <2>3. IsFiniteSet(Within(Waiting(o)', x, y))
    BY <2>1, <2>2 DEF Counting
  <2>4. k(x, y) \in Nat
    BY <2>3 DEF Counting
  <2>5. Within(Waiting(o), x, y) \in SUBSET (Within(Waiting(o)', x, y) \cup {m.dev.real})
    BY <1>2 DEF Within
  <2>6. /\ IsFiniteSet(Within(Waiting(o)', x, y) \cup {m.dev.real})
        /\ \/ Cardinality(Within(Waiting(o)', x, y) \cup {m.dev.real}) = k(x, y)
           \/ Cardinality(Within(Waiting(o)', x, y) \cup {m.dev.real}) = k(x, y) + 1
    BY <2>3 DEF Counting
  <2>7. n(x, y) <= Cardinality(Within(Waiting(o)', x, y) \cup {m.dev.real})
    BY <2>5, <2>6 DEF Counting
  <2>8. n(x, y) <= k(x, y) \/ n(x, y) <= k(x, y) + 1
    BY <2>6, <2>7
  <2> HIDE DEF n, k
  <2> QED
    BY <1>1, <2>1, <2>4, <2>8, SMTT(30)
<1>4. Unseen(o)' = Unseen(o) /\ losses' \in Nat
  BY <1>1, SMTT(30) DEF Unseen
<1> QED
  BY <1>1, <1>3, <1>4, OwedByMore

(* A message that is delivered makes its contact the newest known or is    *)
(* about an older one, which no longer matters (the presence subscription  *)
(* of New).                                                                *)
LEMMA DeliveryKeepsPace ==
  ASSUME PresenceConstants, Counting, PresenceInv, BeatsInv, conn # "none",
         NEW m \in msgs, Deliver(m), NEW o \in Replica
  PROVE  Owed(o)' /\ Spaced(o)'
<1>1. /\ UNCHANGED <<joined, beat, losses>> /\ msgs' = msgs \ {m} /\ Owed(o) /\ Spaced(o)
      /\ losses \in Nat /\ joined \in Nat /\ beat \in Nat /\ Beat \in Nat \ {0}
      /\ m.to \in Replica
  BY DEF Deliver, stream, PresenceInv, BeatsInv, PresenceConstants
<1>2. /\ Waiting(o)' \subseteq Waiting(o)
      /\ Waiting(o) \subseteq Waiting(o)' \cup {m.dev.real}
      /\ m.to # o => Waiting(o)' = Waiting(o)
      /\ m.dev.real \in Waiting(m.to)
  BY <1>1, MessageGone
<1>3. heard[o] \in Int /\ \A t \in Waiting(o) : t \in Int
  BY WaitingFacts
<1>4. /\ heard'[o] \in Int /\ heard'[o] >= heard[o]
      /\ m.to = o => heard'[o] >= m.dev.real
  <2>1. CASE m.to # o
    <3>1. heard'[o] = heard[o]
      BY <2>1 DEF Deliver, PresenceInv
    <3>2. heard[o] >= heard[o]
      BY <1>3, SMTT(30)
    <3> QED
      BY <1>3, <2>1, <3>1, <3>2
  <2>2. CASE m.to = o
    <3>1. heard'[o] = IF m.dev.real > heard[o] THEN m.dev.real ELSE heard[o]
      BY <2>2 DEF Deliver, PresenceInv
    <3>2. m.dev.real \in Int
      BY <1>2, <1>3, <2>2
    <3>3. heard'[o] >= heard[o] /\ heard'[o] >= m.dev.real /\ heard'[o] \in Int
      BY <1>3, <3>1, <3>2, SMTT(30)
    <3> QED
      BY <3>3
  <2> QED
    BY <2>1, <2>2
<1>5. ASSUME NEW x \in Unseen(o)'
      PROVE  x \in Unseen(o) /\ \A y : Within(Waiting(o)', x, y) = Within(Waiting(o), x, y)
  <2>1. x \in Int /\ x >= heard'[o] /\ x \in joined .. beat
    BY <1>1, <1>5, SMTT(30) DEF Unseen
  <2>2. x >= heard[o]
    BY <1>3, <1>4, <2>1, SMTT(30)
  <2>3. m.to = o => ~(x < m.dev.real)
    <3>1. m.to = o => m.dev.real \in Int
      BY <1>2, <1>3
    <3> QED
      BY <1>4, <2>1, <3>1, SMTT(30)
  <2> QED
    BY <1>2, <2>1, <2>2, <2>3 DEF Unseen, Within
<1>6. \A x, y : Cardinality(Within(Waiting(o), x, y)) \in Nat
  BY WaitingFacts
<1>7. \A n \in Nat : n + losses <= n + losses
  BY <1>1, SMTT(30)
<1> QED
  BY <1>1, <1>5, <1>6, <1>7, OwedByMore

(* Every step keeps the account of the heartbeats.                         *)
LEMMA BeatsStep ==
  ASSUME PresenceConstants, Counting, PresenceInv, BeatsInv, [PresenceNext]_presenceVars
  PROVE  BeatsInv'
<1>1. /\ now \in Nat /\ beat \in Nat /\ joined \in Nat /\ losses \in Nat
      /\ Beat \in Nat \ {0} /\ MaxDelay \in Nat
      /\ \A m \in msgs : m.dev.real \in Int /\ now <= m.dev.real + MaxDelay
      /\ \A r \in Replica : heard[r] \in Int
  BY DEF PresenceConstants, PresenceInv, BeatsInv, Dev
<1>2. ASSUME NEW r \in Replica, Touch(r), now' = now
      PROVE  /\ \A m \in msgs' : now' <= m.dev.real + MaxDelay
             /\ \A o \in Replica : IsFiniteSet(Waiting(o)')
  <2>1. ASSUME NEW m \in msgs' PROVE now' <= m.dev.real + MaxDelay
    <3>1. CASE m \in msgs
      BY <1>1, <1>2, <3>1
    <3>2. CASE m \notin msgs
      <4>1. m.dev.real = now
        BY <1>2, <3>2, SMTT(30) DEF Touch
      <4> QED
        BY <1>1, <1>2, <4>1, SMTT(30)
    <3> QED
      BY <3>1, <3>2
  <2>2. ASSUME NEW o \in Replica PROVE IsFiniteSet(Waiting(o)')
    <3>1. IsFiniteSet(Waiting(o)) /\ IsFiniteSet(Waiting(o) \cup {now})
      BY DEF BeatsInv, Counting
    <3> QED
      BY <1>2, <3>1, TouchSends
  <2> QED
    BY <2>1, <2>2
<1>3. CASE TimePasses
  <2>1. UNCHANGED <<conn, joined, beat, losses, heard, msgs>> /\ now' = now + 1
    BY <1>3 DEF TimePasses, stream
  <2>2. \A m \in msgs : now' <= m.dev.real + MaxDelay
    BY <1>1, <1>3, <2>1, SMTT(30) DEF TimePasses
  <2>3. conn # "none" => beat <= now' /\ now' <= beat + Beat
    <3>1. conn # "none" => beat <= now
      BY DEF BeatsInv
    <3> QED
      BY <1>1, <1>3, <2>1, <3>1, SMTT(30) DEF TimePasses
  <2>4. \A o \in Replica : Waiting(o)' = Waiting(o) /\ Unseen(o)' = Unseen(o)
    BY <2>1 DEF Waiting, Unseen
  <2>5. \A o \in Replica : (Owed(o) => Owed(o)') /\ (Spaced(o) => Spaced(o)')
    BY <2>1, <2>4 DEF Owed, Spaced
  <2> QED
    BY <2>1, <2>2, <2>3, <2>4, <2>5 DEF BeatsInv
<1>4. CASE StreamBeats
  <2>1. /\ conn # "none" /\ conn \in Replica /\ Touch(conn) /\ beat' = now
        /\ UNCHANGED <<now, conn, joined, losses>>
    BY <1>4 DEF StreamBeats, PresenceInv
  <2>2. \A o \in Replica : Owed(o)' /\ Spaced(o)'
    BY <1>4, BeatKeepsPace
  <2>3. joined' <= beat' /\ beat' <= now' /\ now' <= beat' + Beat
    <3>1. joined <= beat /\ beat <= now
      BY <2>1 DEF BeatsInv
    <3> QED
      BY <1>1, <2>1, <3>1, SMTT(30)
  <2> QED
    BY <1>1, <1>2, <2>1, <2>2, <2>3 DEF BeatsInv
<1>5. CASE StreamEnds
  <2>1. UNCHANGED <<now, joined, beat, losses, msgs>> /\ conn' = "none"
    BY <1>5 DEF StreamEnds
  <2> QED
    BY <2>1 DEF BeatsInv, Waiting
<1>6. ASSUME NEW r \in Replica, StreamOpens(r) PROVE BeatsInv'
  <2>1. Touch(r) /\ beat' = now /\ joined' = now /\ UNCHANGED <<now, losses>>
    BY <1>6 DEF StreamOpens
  <2>2. \A o \in Replica : Owed(o)' /\ Spaced(o)'
    BY <1>6, OpenOwesNothing
  <2>3. joined' <= beat' /\ beat' <= now' /\ now' <= beat' + Beat
    BY <1>1, <2>1, SMTT(30)
  <2> QED
    BY <1>1, <1>2, <2>1, <2>2, <2>3 DEF BeatsInv
<1>9. ASSUME NEW r \in Replica, OtherContact(r) PROVE BeatsInv'
  <2>1. Touch(r) /\ UNCHANGED <<now, conn, joined, beat, losses>>
    BY <1>9 DEF OtherContact
  <2>2. conn # "none" => \A o \in Replica : Owed(o)' /\ Spaced(o)'
    BY <1>9, ContactOwesNothing
  <2> QED
    BY <1>1, <1>2, <2>1, <2>2 DEF BeatsInv
<1>7. ASSUME NEW m \in msgs, Deliver(m) \/ Lose(m) PROVE BeatsInv'
  <2>1. UNCHANGED <<now, conn, joined, beat>> /\ msgs' = msgs \ {m}
    BY <1>7 DEF Deliver, Lose, stream
  <2>2. losses' \in Nat
    BY <1>1, <1>7, SMTT(30) DEF Deliver, Lose
  <2>3. ASSUME NEW o \in Replica PROVE IsFiniteSet(Waiting(o)')
    <3>1. IsFiniteSet(Waiting(o)) /\ Waiting(o)' \in SUBSET Waiting(o)
      BY <2>1, MessageGone DEF BeatsInv
    <3> QED
      BY <3>1 DEF Counting
  <2>5. conn # "none" => \A o \in Replica : Owed(o)' /\ Spaced(o)'
    BY <1>7, DeliveryKeepsPace, LossKeepsPace
  <2> QED
    BY <2>1, <2>2, <2>3, <2>5 DEF BeatsInv
<1>8. CASE UNCHANGED presenceVars
  <2>1. UNCHANGED <<now, conn, joined, beat, losses, heard, msgs>>
    BY <1>8 DEF presenceVars, stream
  <2>2. \A o \in Replica : Waiting(o)' = Waiting(o) /\ Unseen(o)' = Unseen(o)
    BY <2>1 DEF Waiting, Unseen
  <2>3. \A o \in Replica : (Owed(o) => Owed(o)') /\ (Spaced(o) => Spaced(o)')
    BY <2>1, <2>2 DEF Owed, Spaced
  <2> QED
    BY <2>1, <2>2, <2>3 DEF BeatsInv
<1> QED
  BY <1>3, <1>4, <1>5, <1>6, <1>7, <1>8, <1>9 DEF PresenceNext

(* In the initial state nothing is on its way.                             *)
LEMMA BeatsStarts ==
  ASSUME PresenceConstants, Counting, PresenceInit PROVE BeatsInv
<1>1. joined \in Nat /\ beat \in Nat /\ losses \in Nat /\ conn = "none" /\ msgs = {}
  BY SMTT(30) DEF PresenceInit
<1>2. ASSUME NEW r \in Replica PROVE IsFiniteSet(Waiting(r))
  <2>1. Waiting(r) = {}
    BY <1>1 DEF Waiting
  <2> QED
    BY <2>1 DEF Counting
<1> QED
  BY <1>1, <1>2 DEF BeatsInv

(* By the account of the heartbeats the record of a replica is younger     *)
(* than the lease (managedClientStates).                                   *)
LEMMA BeatsShow ==
  ASSUME PresenceConstants, Counting, PresenceInv, BeatsInv PROVE ConnectedIsOnline
<1> SUFFICES ASSUME NEW r \in Replica,
                    conn # "none", heard[r] >= joined,
                    (losses + 1) * Beat + MaxDelay + MaxSkew < Lease
             PROVE  Online(r)
  BY DEF ConnectedIsOnline
<1> DEFINE x == heard[r]
<1> DEFINE n(y) == Cardinality(Within(Waiting(r), x, y))
<1> DEFINE span == Beat * (losses + 1)
<1>1. /\ now \in Nat /\ beat \in Nat /\ losses \in Nat /\ joined \in Nat
      /\ Beat \in Nat \ {0} /\ MaxDelay \in Nat /\ MaxSkew \in Nat /\ Lease \in Nat
      /\ now <= beat + Beat /\ joined <= x /\ Owed(r) /\ Spaced(r)
  <2>1. joined <= heard[r]
    BY SMTT(30) DEF PresenceInv, BeatsInv
  <2> QED
    BY <2>1 DEF PresenceConstants, PresenceInv, BeatsInv
<1>2. /\ x \in Int /\ \A t \in Waiting(r) : t \in Int /\ now <= t + MaxDelay
      /\ \A y : n(y) \in Nat
  BY WaitingFacts
<1>3. /\ span \in Nat /\ span = Beat * losses + Beat /\ Beat * losses \in Nat
      /\ (losses + 1) * Beat = span /\ Beat * (0 + losses) = Beat * losses
      /\ Beat * (0 + losses + 1) = span
  BY <1>1, SMTT(30)
<1> HIDE DEF span
<1>5. now <= x + span + MaxDelay
  <2>1. CASE \E t \in Waiting(r) : t <= x + span
    <3> HIDE DEF x
    <3> QED
      BY <1>1, <1>2, <1>3, <2>1, SMTT(30)
  <2>2. CASE x > beat
    <3> HIDE DEF x
    <3> QED
      BY <1>1, <1>2, <1>3, <2>2, SMTT(30)
  <2>3. CASE x <= beat /\ ~ \E t \in Waiting(r) : t <= x + span
    <3>1. ASSUME NEW y \in Int, y <= x + span PROVE n(y) = 0
      <4>1. \A t \in Waiting(r) : ~(t <= y)
        <5> HIDE DEF x
        <5> QED
          BY <1>2, <1>3, <2>3, <3>1, SMTT(30)
      <4>2. Within(Waiting(r), x, y) = {}
        BY <4>1 DEF Within
      <4> QED
        BY <4>2 DEF Counting
    <3>2. x \in Unseen(r)
      BY <1>1, <1>2, <2>3, SMTT(30) DEF Unseen
    <3>3. beat < x + span
      <4>1. SUFFICES ASSUME ~(beat < x + span) PROVE FALSE
        OBVIOUS
      <4>2. x + span \in x .. beat /\ x + span \in Int /\ x + span <= x + span
        <5> HIDE DEF x
        <5> QED
          BY <1>1, <1>2, <1>3, <4>1, SMTT(30)
      <4>3. (x + span) - x < Beat * (n(x + span) + losses + 1)
        BY <1>1, <3>2, <4>2 DEF Spaced
      <4>4. n(x + span) = 0
        BY <3>1, <4>2
      <4> HIDE DEF x, n
      <4> QED
        BY <1>2, <1>3, <4>3, <4>4, SMTT(30)
    <3>4. beat - x <= Beat * losses
      <4>1. beat - x <= Beat * (n(beat) + losses)
        BY <1>1, <3>2 DEF Owed
      <4>2. beat \in Int /\ beat <= x + span
        <5> HIDE DEF x
        <5> QED
          BY <1>1, <1>2, <1>3, <3>3, SMTT(30)
      <4>3. n(beat) = 0
        BY <3>1, <4>2
      <4> QED
        BY <1>3, <4>1, <4>3
    <3> HIDE DEF x
    <3> QED
      BY <1>1, <1>2, <1>3, <3>4, SMTT(30)
  <2> QED
    <3>1. x > beat \/ x <= beat
      <4> HIDE DEF x
      <4> QED
        BY <1>1, <1>2, SMTT(30)
    <3> QED
      BY <2>1, <2>2, <2>3, <3>1
<1>6. /\ reg[r].stamp \in Int /\ x <= reg[r].stamp /\ skew[r] \in 0 .. MaxSkew
      /\ reg[r].real \in Int
  BY DEF PresenceInv, Dev
<1>7. now + skew[r] - reg[r].stamp < Lease
  <2> HIDE DEF x
  <2> QED
    BY <1>1, <1>2, <1>3, <1>5, <1>6, SMTT(30)
<1>8. Known(r)
  <2>1. reg[r].stamp # -1
    BY <1>1, <1>2, <1>6, SMTT(30)
  <2> QED
    BY <2>1, SMTT(30) DEF Known, Unknown
<1> QED
  BY <1>7, <1>8 DEF Online

INSTANCE FiniteSetTheorems

(* managedClientStates: while a replica holds a client's stream open,      *)
(* every replica that has heard of a contact since it was opened shows the *)
(* client as online, whatever is delayed or reordered and wherever else    *)
(* there are contacts, as long as the lease exceeds one heartbeat more     *)
(* than were lost, the delay and the difference of the clocks.             *)
THEOREM LeaseCoversLosses ==
  ASSUME PresenceConstants PROVE PresenceSpec => []ConnectedIsOnline
<1>1. Counting
  <2>1. \A S : IsFiniteSet(S) => Cardinality(S) \in Nat
    BY FS_CardinalityType
  <2>2. \A S : IsFiniteSet(S) =>
          \A T \in SUBSET S : IsFiniteSet(T) /\ Cardinality(T) <= Cardinality(S)
    BY FS_Subset
  <2>3. \A S, x : IsFiniteSet(S) =>
          /\ IsFiniteSet(S \cup {x})
          /\ x \in S => Cardinality(S \cup {x}) = Cardinality(S)
          /\ x \notin S => Cardinality(S \cup {x}) = Cardinality(S) + 1
    BY FS_AddElement
  <2> QED
    BY <2>1, <2>2, <2>3, FS_EmptySet, FS_Singleton DEF Counting
<1>2. PresenceInit => PresenceInv /\ BeatsInv
  BY <1>1, PresenceStarts, BeatsStarts
<1>3. PresenceInv /\ BeatsInv /\ [PresenceNext]_presenceVars => PresenceInv' /\ BeatsInv'
  BY <1>1, PresenceStep, BeatsStep
<1>4. PresenceInv /\ BeatsInv => ConnectedIsOnline
  BY <1>1, BeatsShow
<1> QED
  BY <1>2, <1>3, <1>4, PTL DEF PresenceSpec
=============================================================================
