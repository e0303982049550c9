---------------------------- MODULE Provisioner ----------------------------
(***************************************************************************)
(* Provisioning the route application in Authentik: ProvisionApplication,  *)
(* ensureRouteApplication and ensureGroup in                               *)
(* controlplane/internal/authentik/provisioner.go.                         *)
(*                                                                         *)
(* The objects are looked for and created by separate remote calls.  The   *)
(* mutex is a replica's own.  Authentik is external: it keeps one provider *)
(* of a name, one application of a slug and one group of a name and        *)
(* refuses a second.  A provider is found by the application it is         *)
(* assigned to, so one that is assigned to none ("alone") is not found; an *)
(* application is found by its slug, whatever provider it has.             *)
(***************************************************************************)
EXTENDS ControlPlane

CONSTANT Grouped   \* the requests that name the access group

Nobody == "nobody"

\* What the theorems assume of the constants.
ProvisionConstants == Nobody \notin Requests

VARIABLES
    provider, \* "none", "alone" or "assigned"
    foreign,  \* the slug belongs to an application without the provider
    uris,     \* its redirect addresses, each known by its request
    group,    \* the access group exists
    holder,   \* who holds a replica's mutex
    step,     \* where a request is
    at,       \* the replica that serves it
    seen      \* the redirect addresses it has read

authentik == <<provider, foreign, uris, group>>
provisionVars == <<authentik, holder, step, at, seen, faults>>

Working == {"find", "create", "again", "app", "appfind", "patch", "group",
            "newgroup"}

ProvisionInit ==
    /\ provider = "none" /\ foreign \in BOOLEAN /\ uris = {} /\ group = FALSE
    /\ holder = [r \in Replicas |-> Nobody]
    /\ step = [q \in Requests |-> "unsent"]
    /\ at \in [Requests -> Replicas]
    /\ seen = [q \in Requests |-> {}]
    /\ faults = 0

(* The next step of q; the mutex is released when q is answered.           *)
Goto(q, s) ==
    /\ step' = [step EXCEPT ![q] = s]
    /\ holder' = IF s \in Working THEN holder
                 ELSE [holder EXCEPT ![at[q]] = Nobody]
    /\ UNCHANGED at
Fail(q) == Goto(q, "failed") /\ Fault

(* A request arrives, or is sent again after an error, and waits for the   *)
(* mutex of its replica.                                                   *)
Send(q) ==
    /\ step[q] \in {"unsent", "failed"}
    /\ \E r \in Replicas : at' = [at EXCEPT ![q] = r]
    /\ step' = [step EXCEPT ![q] = "waiting"]
    /\ UNCHANGED <<authentik, holder, seen, faults>>
Lock(q) ==
    /\ step[q] = "waiting" /\ holder[at[q]] = Nobody
    /\ holder' = [holder EXCEPT ![at[q]] = q]
    /\ step' = [step EXCEPT ![q] = "find"]
    /\ UNCHANGED <<authentik, at, seen, faults>>

(* Once there is a provider: add the callback address if it is missing,    *)
(* then see to the group.  One that is not public or has no client id      *)
(* fails the request, as the step that leads here may (Fail).              *)
Grouping(q) == IF q \in Grouped THEN "group" ELSE "ok"
Continue(q, known) ==
    /\ seen' = [seen EXCEPT ![q] = known]
    /\ Goto(q, IF q \in known THEN Grouping(q) ELSE "patch")

(* findProvider for the route application.                                 *)
Find(q) ==
    /\ step[q] = "find"
    /\ \/ provider = "assigned" /\ Continue(q, uris) /\ NoFault
       \/ provider # "assigned" /\ Goto(q, "create") /\ NoFault /\ UNCHANGED seen
       \/ Fail(q) /\ UNCHANGED seen
    /\ UNCHANGED authentik

(* The source provider is read, and without it the request fails; the      *)
(* route provider is created from it.  When that fails, also when only the *)
(* answer is lost, the provider is looked for again: another replica may   *)
(* have created it.                                                        *)
Create(q) ==
    /\ step[q] = "create"
    /\ \/ /\ provider = "none"
          /\ provider' = "alone" /\ uris' = {q}
          /\ \/ Goto(q, "app") /\ NoFault /\ seen' = [seen EXCEPT ![q] = {q}]
             \/ Goto(q, "again") /\ Fault /\ UNCHANGED seen
       \/ /\ \/ provider # "none" /\ NoFault
             \/ Fault
          /\ Goto(q, "again")
          /\ UNCHANGED <<provider, uris, seen>>
       \/ Fail(q) /\ UNCHANGED <<provider, uris, seen>>
    /\ UNCHANGED <<foreign, group>>
FindAgain(q) ==
    /\ step[q] = "again"
    /\ \/ provider = "assigned" /\ Continue(q, uris) /\ NoFault
       \/ provider # "assigned" /\ Goto(q, "failed") /\ NoFault /\ UNCHANGED seen
       \/ Fail(q) /\ UNCHANGED seen
    /\ UNCHANGED authentik

(* The application is created for the new provider unless there is one of  *)
(* its slug; when that fails, any application of the slug will do, and its *)
(* provider is not looked at.                                              *)
SlugTaken == foreign \/ provider = "assigned"
CreateApplication(q) ==
    /\ step[q] = "app"
    /\ \/ /\ ~SlugTaken /\ provider' = "assigned"
          /\ \/ Continue(q, seen[q]) /\ NoFault
             \/ Fail(q) /\ UNCHANGED seen
             \/ Goto(q, "appfind") /\ Fault /\ UNCHANGED seen
       \/ /\ \/ SlugTaken /\ NoFault
             \/ Fault
          /\ Goto(q, "appfind")
          /\ UNCHANGED <<provider, seen>>
    /\ UNCHANGED <<foreign, uris, group>>
FindApplication(q) ==
    /\ step[q] = "appfind"
    /\ \/ SlugTaken /\ Continue(q, seen[q]) /\ NoFault
       \/ ~SlugTaken /\ Goto(q, "failed") /\ NoFault /\ UNCHANGED seen
       \/ Fail(q) /\ UNCHANGED seen
    /\ UNCHANGED authentik

(* The whole list of redirect addresses is written, from the copy read.    *)
AddRedirect(q) ==
    /\ step[q] = "patch"
    /\ \/ uris' = seen[q] \cup {q} /\ Goto(q, Grouping(q)) /\ NoFault
       \/ uris' \in {uris, seen[q] \cup {q}} /\ Fail(q)
    /\ UNCHANGED <<provider, foreign, group, seen>>

(* ensureGroup: a group created by somebody else in between is an error.   *)
FindGroup(q) ==
    /\ step[q] = "group"
    /\ \/ Goto(q, IF group THEN "ok" ELSE "newgroup") /\ NoFault
       \/ Fail(q)
    /\ UNCHANGED <<authentik, seen>>
CreateGroup(q) ==
    /\ step[q] = "newgroup"
    /\ \/ ~group /\ group' = TRUE /\ Goto(q, "ok") /\ NoFault
       \/ group /\ Goto(q, "failed") /\ NoFault /\ UNCHANGED group
       \/ group' \in {group, TRUE} /\ Fail(q)
    /\ UNCHANGED <<provider, foreign, uris, seen>>

Handle(q) ==
    \/ Find(q) \/ Create(q) \/ FindAgain(q) \/ CreateApplication(q)
    \/ FindApplication(q) \/ AddRedirect(q) \/ FindGroup(q) \/ CreateGroup(q)
ProvisionNext == \E q \in Requests : Send(q) \/ Lock(q) \/ Handle(q)

ProvisionSpec == ProvisionInit /\ [][ProvisionNext]_provisionVars
ProvisionFairSpec ==
    /\ ProvisionSpec
    /\ \A q \in Requests : /\ WF_provisionVars(Send(q)) /\ SF_provisionVars(Lock(q))
                           /\ WF_provisionVars(Handle(q))
-----------------------------------------------------------------------------
(* A callback address that was reported as provisioned stays registered,   *)
(* whatever requests follow or fail, when one replica serves them all: the *)
(* list is read and written back under the mutex.                          *)
RegisteredStays == \A q \in Requests : step[q] = "ok" => q \in uris

(* Why: the mutex lets one request of a replica work at a time, and from   *)
(* reading the list to writing it back the working request's copy is the   *)
(* list.                                                                   *)
OneWriter ==
    /\ \A q \in Requests : step[q] \in Working => holder[at[q]] = q
    /\ provider = "none" => uris = {}
    /\ \A q \in Requests :
          /\ step[q] \in {"patch", "app", "appfind"} => seen[q] = uris
          /\ step[q] \in {"app", "appfind", "group", "newgroup", "ok"} => q \in uris

(* The provider belongs to the route application, or was made while an     *)
(* application without it had the slug.                                    *)
HasApplication == provider = "assigned" \/ (foreign /\ provider = "alone")

(* A request is only reported as provisioned once the group it named       *)
(* exists and the provider belongs to the route application, also when     *)
(* replicas race to create them or an answer of Authentik is lost, unless  *)
(* the slug belonged to an application without the provider before.        *)
ReportedComplete ==
    \A q \in Requests : step[q] = "ok" => HasApplication /\ (q \in Grouped => group)

(* Why: whoever goes on has seen the application with its provider, or has *)
(* made the provider and seen an application of the slug; none of them is  *)
(* ever removed.                                                           *)
SeenAssigned ==
    \A q \in Requests :
        /\ step[q] \in {"patch", "group", "newgroup", "ok"} => HasApplication
        /\ step[q] \in {"app", "appfind"} => provider # "none"

(* Every request is answered, with success or an error: the mutex is       *)
(* released on each return of ProvisionApplication.                        *)
RequestSettles ==
    \A q \in Requests : step[q] \in Working \cup {"waiting"} ~> step[q] \in {"ok", "failed"}

(* Once the route application exists, a request that is sent again after   *)
(* every error comes to succeed on any of the replicas.                    *)
RetryCompletes ==
    \A q \in Requests : (provider = "assigned" /\ step[q] # "ok") ~> step[q] = "ok"
=============================================================================
