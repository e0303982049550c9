------------------------------ MODULE KeyCache ------------------------------
(***************************************************************************)
(* The verification keys of JWT policies (JwtAuthorizer in                 *)
(* client/src/authorization.rs): a key set in memory, a copy of it in the  *)
(* cache file, and requests that refresh both through one mutex while the  *)
(* identity provider rotates keys, fails, and the disk refuses writes.     *)
(*                                                                         *)
(* Every session of a route loads an authorizer of its own.  The one of an *)
(* earlier session stays in use in the request tasks and terminated        *)
(* connections that hold a clone, and both write one cache file; so may    *)
(* the policies of two routes.  A request is dropped at any await when its *)
(* connection ends.                                                        *)
(*                                                                         *)
(* Time is kept as ages, each capped where the code no longer tells it     *)
(* from a larger one, so that the clock never stops.  A key is its kid;    *)
(* usage, algorithm and signature checks are those of the library.         *)
(***************************************************************************)
EXTENDS Integers, FiniteSets

CONSTANTS
    Authorizer, \* the authorizers that may be in use at a time
    Request,    \* requests with a bearer token
    Issuer,     \* identity providers
    Kid,        \* signing keys
    IssuerOf,   \* the configured issuer
    SignerOf,   \* the issuer a key belongs to
    FileOf,     \* the jwks_cache_file
    NoRequest,  \* no request holds the refresh mutex
    Loader,     \* stands for JwtAuthorizer::load as the one that fetches
    Refresh,    \* jwks_refresh_seconds
    Throttle,   \* the ten seconds between two forced refreshes
    MaxStale,   \* jwks_max_stale_seconds, zero for no limit
    Timeout     \* the longest a fetch can take

File == {FileOf[p] : p \in Authorizer}
Larger(a, b) == IF a < b THEN b ELSE a

\* Ages beyond these are all alike.
StaleCap == MaxStale + 1
AttemptCap == Larger(Refresh, Throttle)
GoneCap == MaxStale + Timeout + 1

\* What the theorems assume of the constants.
KeyCacheConstants ==
    /\ IssuerOf \in [Authorizer -> Issuer]
    /\ SignerOf \in [Kid -> Issuer]
    /\ Refresh \in Nat /\ Throttle \in Nat /\ MaxStale \in Nat /\ Timeout \in Nat
    /\ Loader \notin Request /\ NoRequest \notin Request \cup {Loader}

VARIABLES
    published,  \* the keys the identity providers publish
    gone,       \* how long ago each withdrawn key was withdrawn
    retired,    \* the withdrawn keys
    up,         \* the identity providers that answer
    writable,   \* whether the cache directory accepts writes
    disk,       \* the cache files: key set and age
    state,      \* down, load, or ready for as long as somebody holds it
    keys,       \* KeyState: key set and age of obtained_at
    attempt,    \* age of the last refresh attempt, guarded by the mutex
    holder,     \* who holds the mutex and fetches
    response,   \* the key set in the answer to the fetch
    fresh,      \* the KeyState of a refresh that waits to replace the keys
    spent,      \* how long the fetch has taken
    pc,         \* where authorize_token of a request is
    at,         \* the authorizer a request is checked by
    token       \* the kid in the request's token

provider == <<published, gone, retired, up>>
fetching == <<holder, response, spent, fresh>>
tasks == <<pc, at, token>>
keyVars == <<provider, writable, disk, state, keys, attempt, fetching, tasks>>

\* A key set without keys is refused wherever it is read, so {} stands for none.
KeySet == SUBSET Kid
NoKeys == {}
NoEntry == [set |-> NoKeys, age |-> 0]
Served(i) == {k \in published : SignerOf[k] = i}

\* due and force wait for the mutex or fetch, look and relook call key_for.
Place == {"idle", "due", "look", "force", "relook", "accepted", "denied"}

KeyInit ==
    /\ published \in {K \in SUBSET Kid : \A i \in Issuer : \E k \in K : SignerOf[k] = i}
    /\ gone = [k \in Kid |-> 0]
    /\ retired = {}
    /\ up = Issuer
    /\ writable = TRUE
    /\ disk = [f \in File |-> NoEntry]
    /\ state = [p \in Authorizer |-> "down"]
    /\ keys = [p \in Authorizer |-> NoEntry]
    /\ attempt = [p \in Authorizer |-> 0]
    /\ holder = [p \in Authorizer |-> NoRequest]
    /\ response = [p \in Authorizer |-> NoKeys]
    /\ fresh = [p \in Authorizer |-> NoEntry]
    /\ spent = [p \in Authorizer |-> 0]
    /\ pc = [r \in Request |-> "idle"]
    /\ at \in [Request -> Authorizer]
    /\ token \in [Request -> Kid]
-----------------------------------------------------------------------------
(***************************************************************************)
(* The environment: rotation, outages, the disk and the clock.             *)
(***************************************************************************)
PublishKey(k) ==
    /\ k \notin published \cup retired
    /\ published' = published \cup {k}
    /\ UNCHANGED <<gone, retired, up, writable, disk, state, keys, attempt, fetching, tasks>>

\* A key set is never published empty (fetch_jwks would refuse it).
WithdrawKey(k) ==
    /\ k \in published
    /\ Served(SignerOf[k]) # {k}
    /\ published' = published \ {k}
    /\ retired' = retired \cup {k}
    /\ UNCHANGED <<gone, up, writable, disk, state, keys, attempt, fetching, tasks>>

ProviderChanges(i) ==
    /\ up' = IF i \in up THEN up \ {i} ELSE up \cup {i}
    /\ UNCHANGED <<published, gone, retired, writable, disk, state, keys, attempt,
                   fetching, tasks>>

DiskChanges ==
    /\ writable' = ~writable
    /\ UNCHANGED <<provider, disk, state, keys, attempt, fetching, tasks>>

Older(a, cap) == IF a < cap THEN a + 1 ELSE cap

\* A fetch is under way, and not merely the replacement of the keys.
Fetching(p) == holder[p] # NoRequest /\ fresh[p].set = NoKeys

\* The HTTP client gives up in time, so the clock does not pass its deadline.
Tick ==
    /\ \A p \in Authorizer : Fetching(p) => spent[p] < Timeout
    /\ gone' = [k \in Kid |-> IF k \in retired THEN Older(gone[k], GoneCap) ELSE 0]
    /\ disk' = [f \in File |-> [disk[f] EXCEPT !.age = Older(@, StaleCap)]]
    /\ keys' = [p \in Authorizer |-> [keys[p] EXCEPT !.age = Older(@, StaleCap)]]
    /\ attempt' = [p \in Authorizer |-> Older(attempt[p], AttemptCap)]
    /\ fresh' = [p \in Authorizer |-> IF fresh[p].set = NoKeys THEN NoEntry
                     ELSE [fresh[p] EXCEPT !.age = Older(@, StaleCap)]]
    /\ spent' = [p \in Authorizer |-> IF Fetching(p) THEN spent[p] + 1 ELSE 0]
    /\ UNCHANGED <<published, retired, up, writable, state, holder, response, tasks>>
-----------------------------------------------------------------------------
(***************************************************************************)
(* Fetching, for load and for refresh_if_due.                              *)
(***************************************************************************)
\* ensure_cache_age
AgeOK(entry) == MaxStale = 0 \/ entry.age <= MaxStale

FetchBegins(p, who) ==
    /\ holder' = [holder EXCEPT ![p] = who]
    /\ response' = [response EXCEPT ![p] = NoKeys]
    /\ spent' = [spent EXCEPT ![p] = 0]
    /\ fresh' = [fresh EXCEPT ![p] = NoEntry]

FetchEnds(p) == FetchBegins(p, NoRequest)

\* The key set is read at the provider; the answer is still on its way.
FetchServed(p) ==
    /\ Fetching(p)
    /\ response[p] = NoKeys
    /\ IssuerOf[p] \in up
    /\ response' = [response EXCEPT ![p] = Served(IssuerOf[p])]
    /\ UNCHANGED <<provider, writable, disk, state, keys, attempt, holder, spent, fresh,
                   tasks>>

\* persist_jwks replaces the file atomically.
Obtained(p) == [set |-> response[p], age |-> 0]
Persist(p) ==
    /\ response[p] # NoKeys
    /\ writable
    /\ disk' = [disk EXCEPT ![FileOf[p]] = Obtained(p)]
-----------------------------------------------------------------------------
(***************************************************************************)
(* Loading an authorizer, at the start of every session of its route.      *)
(***************************************************************************)
LoadStarts(p) ==
    /\ state[p] = "down"
    /\ state' = [state EXCEPT ![p] = "load"]
    /\ FetchBegins(p, Loader)
    /\ UNCHANGED <<provider, writable, disk, keys, attempt, tasks>>

LoadFetched(p) ==
    /\ holder[p] = Loader
    /\ Persist(p)
    /\ keys' = [keys EXCEPT ![p] = Obtained(p)]
    /\ state' = [state EXCEPT ![p] = "ready"]
    /\ attempt' = [attempt EXCEPT ![p] = 0]
    /\ FetchEnds(p)
    /\ UNCHANGED <<provider, writable, tasks>>

\* A key set that cannot be written fails the start of the session.
LoadNotPersisted(p) ==
    /\ holder[p] = Loader
    /\ response[p] # NoKeys
    /\ ~writable
    /\ state' = [state EXCEPT ![p] = "down"]
    /\ FetchEnds(p)
    /\ UNCHANGED <<provider, writable, disk, keys, attempt, tasks>>

\* load_cached_jwks: the fetch failed or its answer was lost; the age of the
\* keys is that of the file.
LoadCached(p) ==
    /\ holder[p] = Loader
    /\ disk[FileOf[p]].set # NoKeys
    /\ AgeOK(disk[FileOf[p]])
    /\ keys' = [keys EXCEPT ![p] = disk[FileOf[p]]]
    /\ state' = [state EXCEPT ![p] = "ready"]
    /\ attempt' = [attempt EXCEPT ![p] = 0]
    /\ FetchEnds(p)
    /\ UNCHANGED <<provider, writable, disk, tasks>>

LoadFails(p) ==
    /\ holder[p] = Loader
    /\ disk[FileOf[p]].set = NoKeys \/ ~AgeOK(disk[FileOf[p]])
    /\ state' = [state EXCEPT ![p] = "down"]
    /\ FetchEnds(p)
    /\ UNCHANGED <<provider, writable, disk, keys, attempt, tasks>>

\* The session ends before it listens: the load is dropped at its fetch.
LoadDropped(p) ==
    /\ holder[p] = Loader
    /\ state' = [state EXCEPT ![p] = "down"]
    /\ FetchEnds(p)
    /\ UNCHANGED <<provider, writable, disk, keys, attempt, tasks>>

\* The last of the session, its request tasks and its connections is gone;
\* until then requests go on arriving.
Released(p) ==
    /\ state[p] = "ready"
    /\ \A r \in Request : at[r] = p => pc[r] = "idle"
    /\ state' = [state EXCEPT ![p] = "down"]
    /\ UNCHANGED <<provider, writable, disk, keys, attempt, fetching, tasks>>
-----------------------------------------------------------------------------
(***************************************************************************)
(* authorize_token                                                         *)
(***************************************************************************)
Goto(r, place) == pc' = [pc EXCEPT ![r] = place]

Arrive(r, p, k) ==
    /\ pc[r] = "idle"
    /\ state[p] = "ready"
    /\ k \in published \cup retired
    /\ Goto(r, "due")
    /\ at' = [at EXCEPT ![r] = p]
    /\ token' = [token EXCEPT ![r] = k]
    /\ UNCHANGED <<provider, writable, disk, state, keys, attempt, fetching>>

Interval(r) == IF pc[r] = "force" THEN Throttle ELSE Refresh
AfterRefresh(r) == IF pc[r] = "force" THEN "relook" ELSE "look"

RefreshNotDue(r) ==
    /\ pc[r] \in {"due", "force"}
    /\ holder[at[r]] = NoRequest
    /\ attempt[at[r]] < Interval(r)
    /\ Goto(r, AfterRefresh(r))
    /\ UNCHANGED <<provider, writable, disk, state, keys, attempt, fetching, at, token>>

RefreshStarts(r) ==
    /\ pc[r] \in {"due", "force"}
    /\ holder[at[r]] = NoRequest
    /\ attempt[at[r]] >= Interval(r)
    /\ attempt' = [attempt EXCEPT ![at[r]] = 0]
    /\ FetchBegins(at[r], r)
    /\ UNCHANGED <<provider, writable, disk, state, keys, tasks>>

\* The time in the new KeyState is taken before the lock on the keys.
RefreshPersisted(r) ==
    /\ holder[at[r]] = r
    /\ Persist(at[r])
    /\ fresh' = [fresh EXCEPT ![at[r]] = Obtained(at[r])]
    /\ response' = [response EXCEPT ![at[r]] = NoKeys]
    /\ spent' = [spent EXCEPT ![at[r]] = 0]
    /\ UNCHANGED <<provider, writable, state, keys, attempt, holder, tasks>>

RefreshStored(r) ==
    /\ holder[at[r]] = r
    /\ fresh[at[r]].set # NoKeys
    /\ keys' = [keys EXCEPT ![at[r]] = fresh[at[r]]]
    /\ FetchEnds(at[r])
    /\ Goto(r, AfterRefresh(r))
    /\ UNCHANGED <<provider, writable, disk, state, attempt, at, token>>

\* The new keys are not used when they cannot be written, and the request
\* that fetched them is refused.
RefreshNotPersisted(r) ==
    /\ holder[at[r]] = r
    /\ response[at[r]] # NoKeys
    /\ ~writable
    /\ FetchEnds(at[r])
    /\ Goto(r, "denied")
    /\ UNCHANGED <<provider, writable, disk, state, keys, attempt, at, token>>

\* An error, a time-out or a lost answer keeps the keys within their limit.
RefreshFails(r) ==
    /\ holder[at[r]] = r
    /\ Fetching(at[r])
    /\ FetchEnds(at[r])
    /\ Goto(r, IF AgeOK(keys[at[r]]) THEN AfterRefresh(r) ELSE "denied")
    /\ UNCHANGED <<provider, writable, disk, state, keys, attempt, at, token>>

Found(r) == AgeOK(keys[at[r]]) /\ token[r] \in keys[at[r]].set

\* key_for, then the issuer among the validated claims; a key that is not
\* found the first time forces a refresh.
Lookup(r) ==
    /\ pc[r] \in {"look", "relook"}
    /\ Goto(r, CASE ~Found(r) /\ pc[r] = "look"           -> "force"
                 [] ~Found(r) /\ pc[r] = "relook"         -> "denied"
                 [] Found(r) /\ SignerOf[token[r]] # IssuerOf[at[r]] -> "denied"
                 [] OTHER                                 -> "accepted")
    /\ UNCHANGED <<provider, writable, disk, state, keys, attempt, fetching, at, token>>

\* The caller's connection ends at an await: the refresh it was in ends with
\* it, also when the cache file is written and the keys are not replaced.
Dropped(r) ==
    /\ pc[r] # "idle"
    /\ Goto(r, "idle")
    /\ IF holder[at[r]] = r THEN FetchEnds(at[r]) ELSE UNCHANGED fetching
    /\ UNCHANGED <<provider, writable, disk, state, keys, attempt, at, token>>

Answer(r) ==
    /\ pc[r] \in {"accepted", "denied"}
    /\ Goto(r, "idle")
    /\ UNCHANGED <<provider, writable, disk, state, keys, attempt, fetching, at, token>>
-----------------------------------------------------------------------------
Environment ==
    \/ \E k \in Kid : PublishKey(k) \/ WithdrawKey(k)
    \/ \E i \in Issuer : ProviderChanges(i)
    \/ DiskChanges

Loading(p) ==
    \/ LoadStarts(p) \/ LoadFetched(p) \/ LoadNotPersisted(p) \/ LoadCached(p)
    \/ LoadFails(p) \/ LoadDropped(p) \/ Released(p) \/ FetchServed(p)

Authorizing(r) ==
    \/ RefreshNotDue(r) \/ RefreshStarts(r) \/ RefreshPersisted(r) \/ RefreshStored(r)
    \/ RefreshNotPersisted(r) \/ RefreshFails(r) \/ Lookup(r) \/ Answer(r)

KeyNext ==
    \/ Environment
    \/ Tick
    \/ \E p \in Authorizer : Loading(p)
    \/ \E r \in Request : Authorizing(r) \/ Dropped(r)
    \/ \E r \in Request, p \in Authorizer, k \in Kid : Arrive(r, p, k)

KeySpec == KeyInit /\ [][KeyNext]_keyVars

\* The clock runs, an accepted task runs, a fetch ends by its time-out, a
\* provider that answers again and again answers some fetch, a session that
\* ended is started again, and callers keep sending tokens of published keys,
\* of whom not every one gives up before its refresh is through.
KeyFairness ==
    /\ WF_keyVars(Tick)
    /\ \A r \in Request :
          /\ WF_keyVars(Authorizing(r))
          /\ SF_keyVars(RefreshPersisted(r))
          /\ SF_keyVars(RefreshStored(r))
          /\ SF_keyVars(RefreshStarts(r))
          /\ \A p \in Authorizer, k \in Kid : SF_keyVars(k \in published /\ Arrive(r, p, k))
    /\ \A p \in Authorizer :
          /\ WF_keyVars(LoadStarts(p))
          /\ SF_keyVars(LoadFetched(p))
          /\ SF_keyVars(FetchServed(p))

KeyFairSpec == KeySpec /\ KeyFairness
-----------------------------------------------------------------------------
(***************************************************************************)
(* Properties.                                                             *)
(***************************************************************************)
Entry(cap) == [set : KeySet, age : 0 .. cap]

\* The type invariant: an authorizer in use has keys, ages stay below their
\* caps, and only one that is being loaded is fetched for by load.
KeyTypeOK ==
    /\ published \subseteq Kid /\ retired \subseteq Kid /\ up \subseteq Issuer
    /\ gone \in [Kid -> 0 .. GoneCap]
    /\ writable \in BOOLEAN
    /\ disk \in [File -> Entry(StaleCap)]
    /\ state \in [Authorizer -> {"down", "load", "ready"}]
    /\ keys \in [Authorizer -> Entry(StaleCap)]
    /\ attempt \in [Authorizer -> 0 .. AttemptCap]
    /\ holder \in [Authorizer -> Request \cup {NoRequest, Loader}]
    /\ response \in [Authorizer -> KeySet]
    /\ fresh \in [Authorizer -> Entry(StaleCap)]
    /\ spent \in [Authorizer -> 0 .. Timeout]
    /\ pc \in [Request -> Place]
    /\ at \in [Request -> Authorizer]
    /\ token \in [Request -> Kid]
    /\ \A p \in Authorizer : (state[p] = "load") <=> (holder[p] = Loader)
    /\ \A p \in Authorizer : state[p] = "ready" => keys[p].set # NoKeys

\* The inductive invariant behind WithdrawnKeyBounded: a withdrawn key in an
\* answer was withdrawn after the fetch began, and one among the keys in use,
\* about to be used or in a cache file at most one fetch before the age
\* recorded there.
Bounded(entry) ==
    \A k \in entry.set \cap retired : gone[k] <= entry.age + Timeout

KeyInv ==
    /\ KeyTypeOK
    /\ published \cap retired = {}
    /\ \A k \in Kid \ retired : gone[k] = 0
    /\ \A p \in Authorizer : ~Fetching(p) => response[p] = NoKeys
    /\ \A p \in Authorizer : \A k \in response[p] \cap retired : gone[k] <= spent[p]
    /\ \A f \in File : Bounded(disk[f])
    /\ \A p \in Authorizer : Bounded(keys[p]) /\ Bounded(fresh[p])

\* A key the provider has withdrawn is accepted at most max-stale after the
\* moment it was withdrawn plus the time one fetch may take, over any number
\* of refreshes, failed refreshes, reloads and restarts (ensure_cache_age).
WithdrawnKeyBounded ==
    [][\A r \in Request :
          (pc[r] # "accepted" /\ pc'[r] = "accepted" /\ token[r] \in retired /\ MaxStale > 0)
             => gone[token[r]] <= MaxStale + Timeout]_keyVars

\* A session that is started again while the provider is down finds a cache
\* file it may load for as long as the keys of any authorizer that writes to
\* the file may be used, whoever wrote last and whoever was dropped before
\* the keys were replaced (persist_jwks comes first).
CacheCarriesOver ==
    \A p \in Authorizer :
        state[p] = "ready" /\ AgeOK(keys[p])
            => disk[FileOf[p]].set # NoKeys /\ AgeOK(disk[FileOf[p]])

\* Why: a cache file is at least as young as the keys in use, and as those
\* that are about to be used.
Backed(entry, f) == disk[f].set # NoKeys /\ disk[f].age <= entry.age

CacheInv ==
    \A p \in Authorizer :
        /\ state[p] = "ready" => Backed(keys[p], FileOf[p])
        /\ fresh[p].set # NoKeys => Backed(fresh[p], FileOf[p])

\* Every request with a token is answered: nobody waits for the refresh mutex
\* for ever, whatever the provider and the disk do.
RequestSettles == \A r \in Request : pc[r] # "idle" ~> pc[r] = "idle"

Quiet == up = Issuer /\ writable

\* Once the provider answers, the disk accepts writes and an authorizer stays
\* in use, every published key comes to be among the keys in use: a stream of requests
\* gets past the throttle of forced refreshes (refresh_if_due).
RotationReached ==
    \A p \in Authorizer, k \in Kid :
        <>[](Quiet /\ state[p] # "down" /\ k \in Served(IssuerOf[p]))
            => []<>(state[p] = "ready" /\ k \in keys[p].set)
=============================================================================
