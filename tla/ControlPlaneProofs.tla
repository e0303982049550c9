------------------------- MODULE ControlPlaneProofs -------------------------
(***************************************************************************)
(* Proofs about the control plane: module CentralConfig, for any number of *)
(* documents; module Enrollment, for any number of replicas, approvals,    *)
(* enrollments, polls and faults; and module Provisioner, for any set of   *)
(* requests and any number of faults.                                      *)
(***************************************************************************)
EXTENDS CentralConfig, Provisioner, Enrollment, TLAPS

\* A leaf is proved by Zenon, or by SMT where it says so: where it rests on
\* arithmetic or on what an update of a function leaves behind.
USE ZenonT(60), SMTT(30)
-----------------------------------------------------------------------------
(***************************************************************************)
(* CentralConfig: what a client reports is what it ran.                    *)
(***************************************************************************)
\* Whatever may still be reported was run: the applied revision, the document
\* of the open stream and those of the abandoned ones.  A response is under
\* way only while the client waits for one, and a stream is open only while
\* routes run (run_central_with_reporter, push_updates).
CentralInv ==
    /\ CentralTypeOK
    /\ response # None => mode \in {"fetch", "refresh"}
    /\ Running => active \in ran
    /\ listening => Running
    /\ applied # None => applied \in ran
    /\ lingering \subseteq ran
    /\ ReportedRan

\* The control plane's steps keep it (putServicePrincipalConfig,
\* getMachineClientConfig, getMachineClientEvents).
LEMMA ServerKeepsCentral ==
    ASSUME CentralInv,
           \/ \E v \in Revision : PutConfig(v)
           \/ FetchServed
           \/ Heartbeat
           \/ \E v \in lingering : StreamNoticed(v)
    PROVE  CentralInv'
<1> USE CentralAssumption DEF CentralInv, CentralTypeOK, ReportedRan, Reported, Running,
            server, runtime, push
<1>1. ASSUME NEW v \in Revision, PutConfig(v) PROVE CentralInv'
  BY <1>1, SMTT(30) DEF PutConfig
<1>2. CASE FetchServed
  BY <1>2 DEF FetchServed
<1>3. CASE Heartbeat
  BY <1>3 DEF Heartbeat
<1>4. ASSUME NEW v \in lingering, StreamNoticed(v) PROVE CentralInv'
  BY <1>4 DEF StreamNoticed
<1> QED
  BY <1>1, <1>2, <1>3, <1>4

\* So do the client's push and poll tasks.
LEMMA TasksKeepCentral ==
    ASSUME CentralInv, OpenStream \/ StreamDrops \/ PushUpdate \/ PollUpdate
    PROVE  CentralInv'
<1> USE CentralAssumption DEF CentralInv, CentralTypeOK, ReportedRan, Reported, Running,
            server, runtime, push
<1>1. CASE OpenStream
  BY <1>1 DEF OpenStream
<1>2. CASE StreamDrops
  BY <1>2 DEF StreamDrops, Abandoned
<1>3. CASE PushUpdate
  <2>1. updates' \in 0 .. ChannelCap
    BY <1>3, SMTT(30) DEF PushUpdate
  <2>2. {listening', signal'} \subseteq BOOLEAN
    BY <1>3 DEF PushUpdate
  <2> QED
    BY <1>3, <2>1, <2>2 DEF PushUpdate
<1>4. CASE PollUpdate
  BY <1>4, SMTT(30) DEF PollUpdate
<1> QED
  BY <1>1, <1>2, <1>3, <1>4

\* So does run_central_with_reporter.
LEMMA LoopKeepsCentral ==
    ASSUME CentralInv,
           \/ StartRoutes \/ FetchFails \/ ResponseLost \/ RetryFetch
           \/ TakeUpdate \/ KeepRoutes \/ ReplaceRoutes \/ RoutesStop
    PROVE  CentralInv'
<1> USE CentralAssumption DEF CentralInv, CentralTypeOK, ReportedRan, Reported, Running,
            server, runtime, push, Mode
<1>1. CASE StartRoutes
  BY <1>1 DEF StartRoutes
<1>2. CASE FetchFails
  BY <1>2 DEF FetchFails
<1>3. CASE ResponseLost
  BY <1>3 DEF ResponseLost
<1>4. CASE RetryFetch
  BY <1>4 DEF RetryFetch
<1>5. CASE TakeUpdate
  BY <1>5, SMTT(30) DEF TakeUpdate
<1>6. CASE KeepRoutes
  BY <1>6 DEF KeepRoutes
<1>7. CASE ReplaceRoutes \/ RoutesStop
  <2>1. PICK next \in {"fetch", "stopped"} : StopRoutes(next)
    BY <1>7 DEF ReplaceRoutes, RoutesStop
  <2>2. response' = None /\ Running
    BY <1>7 DEF ReplaceRoutes, RoutesStop
  <2>3. lingering' \subseteq ran /\ ran \subseteq Revision
    BY <2>1, <2>2 DEF StopRoutes, Abandoned
  <2>4. /\ listening' = FALSE /\ signal' = FALSE /\ updates' = 0
        /\ mode' = next /\ active' = None
        /\ UNCHANGED <<stored, puts, applied, ran, reported>>
    BY <2>1 DEF StopRoutes
  <2>5. {listening', signal'} \subseteq BOOLEAN
    BY <2>4
  <2> QED
    BY <2>2, <2>3, <2>4, <2>5, SMTT(30)
<1> QED
  BY <1>1, <1>2, <1>3, <1>4, <1>5, <1>6, <1>7

\* The invariant holds in every reachable state of a centrally managed client.
THEOREM CentralInvariant == CentralSpec => []CentralInv
<1>1. CentralInit => CentralInv
  <2> SUFFICES ASSUME CentralInit PROVE CentralInv
    OBVIOUS
  <2>1. {listening, signal} \subseteq BOOLEAN
    BY DEF CentralInit
  <2>2. CentralTypeOK
    BY <2>1, CentralAssumption, SMTT(30) DEF CentralInit, CentralTypeOK, Reported, Mode
  <2> QED
    BY <2>2 DEF CentralInit, CentralInv, ReportedRan, Running
<1>2. CentralInv /\ [CentralNext]_centralVars => CentralInv'
  <2> SUFFICES ASSUME CentralInv, [CentralNext]_centralVars PROVE CentralInv'
    OBVIOUS
  <2>1. CASE UNCHANGED centralVars
    BY <2>1 DEF CentralInv, CentralTypeOK, ReportedRan, Running, centralVars, server,
       runtime, push
  <2>2. CASE CentralNext
    BY <2>2, ServerKeepsCentral, TasksKeepCentral, LoopKeepsCentral DEF CentralNext
  <2> QED
    BY <2>1, <2>2
<1> QED
  BY <1>1, <1>2, PTL DEF CentralSpec

\* What the console shows as applied was really run, for any documents and any
\* capacity of the update channel: in every reachable state the registry holds
\* no revision whose routes the client did not start (recordDevicePresence).
THEOREM ReportedWasRun == CentralSpec => []ReportedRan
<1>1. CentralInv => ReportedRan
  BY DEF CentralInv
<1> QED
  BY <1>1, CentralInvariant, PTL

\* The update channel is never overfull and only documents that the client
\* accepts are run.
THEOREM CentralTypeCorrect == CentralSpec => []CentralTypeOK
<1>1. CentralInv => CentralTypeOK
  BY DEF CentralInv
<1> QED
  BY <1>1, CentralInvariant, PTL
-----------------------------------------------------------------------------
(***************************************************************************)
(* Enrollment: a device runs with credentials that belong together.        *)
(***************************************************************************)
Held == 0 .. MaxAccounts
Places == Replicas \cup {"unmade", "nowhere"}
Entries == [at : Places, claimed : BOOLEAN, expired : BOOLEAN, user : Held, secret : Held]
Approvals ==
    [st : {"unsent", "create", "store", "bind", "mark", "done", "failed"},
     at : Places, code : 0 .. MaxCodes, acct : Held]

\* The types of the device and of the records, and what an approval that is
\* under way knows.
DeviceTypes ==
    /\ pc \in {"off", "create", "polling", "saving", "run", "stopped"}
    /\ code \in 0 .. MaxCodes /\ polls \in 0 .. (MaxPolls - 1)
    /\ got \in Held /\ user \in Held /\ secret \in Held
    /\ removals \in Nat
    /\ pc = "polling" => code \in Codes

ServerTypes ==
    /\ entry \in [Codes -> Entries]
    /\ claim \in [Requests -> Approvals]
    /\ account \in [Accounts -> {"free", "bare", "managed"}]
    /\ bound \subseteq Accounts
    /\ \A q \in Requests :
          /\ claim[q].st \in {"create", "store", "bind", "mark"} => claim[q].code \in Codes
          /\ claim[q].st \in {"store", "bind", "mark"} => claim[q].acct \in Accounts

EnrollInv ==
    /\ DeviceTypes /\ ServerTypes
    /\ OneCredential /\ OwnedBeforeMark /\ OwnedBeforeUse

\* Accounts are numbered from one, so that 0 is none of them.
LEMMA AccountNumbers ==
    ASSUME EnrollConstants
    PROVE  /\ 0 \notin Accounts /\ 0 \in Held
           /\ \A k : k \in Accounts <=> k \in Held /\ k # 0
  BY SMTT(30) DEF EnrollConstants, Accounts, Held

\* The numbers of enrollments and of polls start at zero.
LEMMA EnrollRanges ==
    ASSUME EnrollConstants
    PROVE  /\ 0 \in 0 .. MaxCodes /\ Codes \subseteq 0 .. MaxCodes
           /\ 0 \in 0 .. (MaxPolls - 1)
<1>1. MaxCodes \in Nat /\ MaxPolls \in Nat /\ MaxPolls > 0
  BY SMTT(30) DEF EnrollConstants
<1> QED
  BY <1>1, SMTT(30) DEF Codes

\* At first there is no enrollment, no account and no credential.
LEMMA EnrollStarts ==
    ASSUME EnrollConstants, EnrollInit
    PROVE  EnrollInv
<1>1. \A c \in Codes : entry[c] = Absent
  BY DEF EnrollInit
<1>2. Absent \in Entries /\ Absent.user = 0 /\ Absent.secret = 0
  BY AccountNumbers DEF Absent, Entries, Places
<1>3. ServerTypes
  <2>1. entry \in [Codes -> Entries]
    BY <1>1, <1>2 DEF EnrollInit
  <2> DEFINE unsent == [st |-> "unsent", at |-> "nowhere", code |-> 0, acct |-> 0]
  <2>2. claim = [q \in Requests |-> unsent]
    BY DEF EnrollInit
  <2>3. unsent \in Approvals /\ unsent.st = "unsent"
    BY AccountNumbers, EnrollRanges DEF Approvals, Places
  <2> HIDE DEF unsent
  <2>4. claim \in [Requests -> Approvals] /\ \A q \in Requests : claim[q].st = "unsent"
    BY <2>2, <2>3
  <2> QED
    BY <2>1, <2>4 DEF EnrollInit, ServerTypes
<1>4. DeviceTypes
  BY AccountNumbers, EnrollRanges DEF EnrollInit, DeviceTypes
<1>5. OneCredential
  BY <1>1, <1>2 DEF EnrollInit, OneCredential
<1>6. OwnedBeforeMark /\ OwnedBeforeUse
  BY <1>1, <1>2 DEF EnrollInit, OwnedBeforeMark, OwnedBeforeUse
<1> QED
  BY <1>3, <1>4, <1>5, <1>6 DEF EnrollInv
-----------------------------------------------------------------------------
(***************************************************************************)
(* The device.                                                             *)
(***************************************************************************)
\* Starting, saving, ending and removing the secret file.  A client with a
\* name and a secret runs; only one without both asks for an enrollment.
LEMMA DeviceStep ==
    ASSUME EnrollConstants, EnrollInv,
           DeviceStarts \/ Save \/ Crash \/ StartAgain \/ RemoveSecret
    PROVE  EnrollInv'
<1>1. UNCHANGED records
  BY DEF DeviceStarts, Save, Crash, StartAgain, RemoveSecret
<1>2. ServerTypes' /\ OwnedBeforeMark'
  BY <1>1 DEF EnrollInv, ServerTypes, OwnedBeforeMark, records
<1>3. DeviceTypes'
  <2>1. code' = code /\ polls' = polls /\ got' = got
    BY DEF DeviceStarts, Save, Crash, StartAgain, RemoveSecret
  <2>2. user' \in {user, got} /\ secret' \in {secret, 0} /\ removals' \in {removals, removals + 1}
    BY DEF DeviceStarts, Save, Crash, StartAgain, RemoveSecret
  <2>3. pc' \in {"off", "create", "run"}
    BY DEF DeviceStarts, Save, Crash, StartAgain, RemoveSecret
  <2>4. removals' \in Nat /\ user' \in Held /\ secret' \in Held
    BY <2>2, AccountNumbers, SMTT(30) DEF EnrollInv, DeviceTypes
  <2> QED
    BY <2>1, <2>3, <2>4 DEF EnrollInv, DeviceTypes
<1>4. OneCredential'
  <2> USE DEF EnrollInv, OneCredential, DeviceTypes, records
  <2>1. CASE DeviceStarts
    BY <1>1, <2>1 DEF DeviceStarts, Enrolled
  <2>2. CASE Save
    BY <1>1, <2>2 DEF Save
  <2>3. CASE Crash
    BY <1>1, <2>3 DEF Crash
  <2>4. CASE StartAgain
    BY <1>1, <2>4 DEF StartAgain
  <2>5. CASE RemoveSecret
    <3>1. removals' = removals + 1 /\ pc = "off" /\ pc' = pc
      BY <2>5 DEF RemoveSecret
    <3>2. removals' # 0
      BY <3>1, SMTT(30)
    <3> QED
      BY <1>1, <3>1, <3>2
  <2> QED
    BY <2>1, <2>2, <2>3, <2>4, <2>5
<1>5. {user', secret', got'} \ {0} \subseteq {user, secret, got} \ {0}
  BY DEF DeviceStarts, Save, Crash, StartAgain, RemoveSecret
<1>6. OwnedBeforeUse'
  BY <1>1, <1>5 DEF EnrollInv, OwnedBeforeUse, records
<1> QED
  BY <1>2, <1>3, <1>4, <1>6 DEF EnrollInv

\* A new enrollment has no credential yet (createEnrollment).
LEMMA CreateStep ==
    ASSUME EnrollConstants, EnrollInv, NEW r \in Replicas, CreateEnrollment(r)
    PROVE  EnrollInv'
<1>1. PICK c \in Codes : /\ entry' = [entry EXCEPT ![c] = [Absent EXCEPT !.at = r]]
                         /\ code' = c
  BY DEF CreateEnrollment
<1>2. /\ pc = "create" /\ polls' = 0 /\ pc' \in {"polling", "stopped"}
      /\ UNCHANGED <<got, user, secret, claim, account, bound, removals>>
  BY DEF CreateEnrollment
<1>3. /\ [Absent EXCEPT !.at = r] \in Entries
      /\ [Absent EXCEPT !.at = r].user = 0 /\ [Absent EXCEPT !.at = r].secret = 0
  BY AccountNumbers DEF Absent, Entries, Places
<1>4. /\ entry' \in [Codes -> Entries]
      /\ \A d \in Codes : (entry'[d].user = 0 /\ entry'[d].secret = 0) \/ entry'[d] = entry[d]
  BY <1>1, <1>3 DEF EnrollInv, ServerTypes
<1>5. DeviceTypes'
  BY <1>1, <1>2, SMTT(30) DEF EnrollInv, DeviceTypes, EnrollConstants, Codes
<1>6. ServerTypes'
  BY <1>2, <1>4 DEF EnrollInv, ServerTypes
<1>7. OneCredential'
  BY <1>2, <1>4 DEF EnrollInv, OneCredential
<1>8. OwnedBeforeMark' /\ OwnedBeforeUse'
  BY <1>2, <1>4 DEF EnrollInv, OwnedBeforeMark, OwnedBeforeUse
<1> QED
  BY <1>5, <1>6, <1>7, <1>8 DEF EnrollInv

\* An answer carries both parts of an enrollment's credential or none, and
\* the loop of enroll ends before its last round (getEnrollment, enroll).
LEMMA PollStep ==
    ASSUME EnrollConstants, EnrollInv, NEW r \in Replicas, Poll(r)
    PROVE  EnrollInv'
<1>1. /\ pc = "polling" /\ code \in Codes
      /\ UNCHANGED <<code, user, claim, account, bound, removals>>
  BY DEF Poll, EnrollInv, DeviceTypes
<1>2. /\ entry' \in [Codes -> Entries]
      /\ \A c \in Codes : entry'[c].user = entry[c].user /\ entry'[c].secret = entry[c].secret
  <2>1. entry' = entry \/ entry' = [entry EXCEPT ![code].at = "nowhere"]
    BY DEF Poll
  <2>2. [entry[code] EXCEPT !.at = "nowhere"] \in Entries
    BY <1>1 DEF EnrollInv, ServerTypes, Entries, Places
  <2> QED
    BY <1>1, <2>1, <2>2, SMTT(30) DEF EnrollInv, ServerTypes, Entries
<1>3. \/ pc' = "saving" /\ secret' = entry[code].secret /\ got' = entry[code].user
      \/ pc' \in {"polling", "stopped"} /\ UNCHANGED <<secret, got>>
  BY <1>1 DEF Poll, PollDelivers, PollFails
<1>4. entry[code] \in Entries /\ entry[code].user \in Held /\ entry[code].secret \in Held
  BY <1>1 DEF EnrollInv, ServerTypes, Entries
<1>5. polls' \in 0 .. (MaxPolls - 1)
  BY SMTT(30) DEF Poll, Serves, EnrollInv, DeviceTypes, EnrollConstants
<1>6. DeviceTypes'
  BY <1>1, <1>3, <1>4, <1>5 DEF EnrollInv, DeviceTypes
<1>7. ServerTypes'
  BY <1>1, <1>2 DEF EnrollInv, ServerTypes
<1>8. OneCredential'
  BY <1>1, <1>2, <1>3 DEF EnrollInv, OneCredential
<1>9. OwnedBeforeMark'
  BY <1>1, <1>2 DEF EnrollInv, OwnedBeforeMark
<1>10. OwnedBeforeUse'
  <2>1. entry[code].user = entry[code].secret
    BY <1>1 DEF EnrollInv, OneCredential
  <2>2. entry[code].user # 0 => account[entry[code].user] = "managed"
    BY <1>1 DEF EnrollInv, OwnedBeforeMark
  <2> QED
    BY <1>1, <1>3, <2>1, <2>2 DEF EnrollInv, OwnedBeforeUse
<1> QED
  BY <1>6, <1>7, <1>8, <1>9, <1>10 DEF EnrollInv
-----------------------------------------------------------------------------
(***************************************************************************)
(* The records.                                                             *)
(***************************************************************************)
\* The device and every account with an owner stay as they are.
Apart ==
    /\ UNCHANGED <<device, removals>>
    /\ \A k \in Accounts : account[k] = "managed" => account'[k] = "managed"

\* What is enough for a step of the records: types, one credential in each
\* enrollment, and owners.
LEMMA ServerKeeps ==
    ASSUME EnrollConstants, EnrollInv, Apart, ServerTypes', OwnedBeforeMark',
           \A c \in Codes : entry'[c].user = entry'[c].secret
    PROVE  EnrollInv'
<1>1. DeviceTypes'
  BY DEF EnrollInv, DeviceTypes, Apart, device
<1>2. OneCredential'
  BY DEF EnrollInv, OneCredential, Apart, device
<1>3. {user, secret, got} \ {0} \subseteq Accounts
  BY AccountNumbers DEF EnrollInv, DeviceTypes
<1>4. OwnedBeforeUse'
  BY <1>3 DEF EnrollInv, OwnedBeforeUse, Apart, device
<1> QED
  BY <1>1, <1>2, <1>4 DEF EnrollInv

\* Time passes, a replica restarts and an approval begins: no credential and
\* no account is touched.
LEMMA QuietServerStep ==
    ASSUME EnrollConstants, EnrollInv,
           \/ \E c \in Codes : Expire(c)
           \/ \E r \in Replicas : ReplicaRestarts(r)
           \/ \E q \in Requests, r \in Replicas : ClaimBegins(q, r)
    PROVE  EnrollInv'
<1>1. UNCHANGED <<device, account, bound, removals>>
  BY DEF Expire, ReplicaRestarts, ClaimBegins
<1>2. /\ entry' \in [Codes -> Entries]
      /\ \A c \in Codes : entry'[c].user = entry[c].user /\ entry'[c].secret = entry[c].secret
  <2>1. ASSUME NEW c \in Codes, Expire(c)
        PROVE  /\ entry' \in [Codes -> Entries]
               /\ \A d \in Codes : entry'[d].user = entry[d].user /\ entry'[d].secret = entry[d].secret
    <3>1. entry' = [entry EXCEPT ![c].expired = TRUE] /\ entry \in [Codes -> Entries]
      BY <2>1 DEF Expire, EnrollInv, ServerTypes
    <3>2. \A d \in Codes : entry'[d] = entry[d] \/ entry'[d] = [entry[d] EXCEPT !.expired = TRUE]
      BY <3>1
    <3>3. \A e \in Entries : /\ [e EXCEPT !.expired = TRUE] \in Entries
                             /\ [e EXCEPT !.expired = TRUE].user = e.user
                             /\ [e EXCEPT !.expired = TRUE].secret = e.secret
      BY DEF Entries
    <3>4. \A d \in Codes : entry[d] \in Entries
      BY <3>1
    <3>5. entry' = [d \in Codes |-> entry'[d]]
      BY <3>1
    <3> QED
      BY <3>2, <3>3, <3>4, <3>5
  <2>2. ASSUME NEW r \in Replicas, ReplicaRestarts(r)
        PROVE  /\ entry' \in [Codes -> Entries]
               /\ \A d \in Codes : entry'[d].user = entry[d].user /\ entry'[d].secret = entry[d].secret
    BY <2>2 DEF ReplicaRestarts, EnrollInv, ServerTypes, Entries, Places
  <2>3. ASSUME NEW q \in Requests, NEW r \in Replicas, ClaimBegins(q, r)
        PROVE  entry' = entry
    BY <2>3 DEF ClaimBegins
  <2> QED
    BY <2>1, <2>2, <2>3 DEF EnrollInv, ServerTypes
<1>3. /\ claim' \in [Requests -> Approvals]
      /\ \A q \in Requests :
            \/ claim'[q] = claim[q]
            \/ claim'[q].st = "create" /\ claim'[q].code \in Codes
            \/ claim'[q].st = "failed"
  <2>1. ASSUME NEW c \in Codes, Expire(c)
        PROVE  claim' = claim
    BY <2>1 DEF Expire
  <2>2. ASSUME NEW r \in Replicas, ReplicaRestarts(r)
        PROVE  /\ claim' \in [Requests -> Approvals]
               /\ \A q \in Requests : claim'[q] = claim[q] \/ claim'[q].st = "failed"
    BY <2>2 DEF ReplicaRestarts, EnrollInv, ServerTypes, Approvals
  <2>3. ASSUME NEW q \in Requests, NEW r \in Replicas, ClaimBegins(q, r)
        PROVE  /\ claim' \in [Requests -> Approvals]
               /\ \A p \in Requests :
                     claim'[p] = claim[p] \/ (claim'[p].st = "create" /\ claim'[p].code \in Codes)
    <3>1. PICK c \in Codes :
              claim' = [claim EXCEPT ![q] = [st |-> "create", at |-> r, code |-> c, acct |-> 0]]
      BY <2>3 DEF ClaimBegins
    <3> DEFINE begun == [st |-> "create", at |-> r, code |-> c, acct |-> 0]
    <3>2. begun \in Approvals /\ begun.st = "create" /\ begun.code \in Codes
      BY AccountNumbers, EnrollRanges DEF Approvals, Places
    <3>3. claim' = [claim EXCEPT ![q] = begun]
      BY <3>1
    <3> HIDE DEF begun
    <3>4. claim \in [Requests -> Approvals]
      BY DEF EnrollInv, ServerTypes
    <3>5. claim' \in [Requests -> Approvals]
      BY <3>2, <3>3, <3>4
    <3>6. \A p \in Requests : claim'[p] = claim[p] \/ claim'[p] = begun
      BY <3>3, <3>4
    <3> QED
      BY <3>2, <3>5, <3>6
  <2> QED
    BY <2>1, <2>2, <2>3 DEF EnrollInv, ServerTypes
<1>4. ServerTypes'
  BY <1>1, <1>2, <1>3 DEF EnrollInv, ServerTypes
<1>5. OwnedBeforeMark'
  BY <1>1, <1>2, <1>3 DEF EnrollInv, OwnedBeforeMark
<1>6. Apart /\ \A c \in Codes : entry'[c].user = entry'[c].secret
  BY <1>1, <1>2 DEF Apart, EnrollInv, OneCredential
<1> QED
  BY <1>4, <1>5, <1>6, ServerKeeps

\* An approval's remote calls: it writes the credential of its own account,
\* both parts at once, after the account was given its owner, and never takes
\* an account that is in use (claimEnrollment).
LEMMA ClaimStep ==
    ASSUME EnrollConstants, EnrollInv, NEW q \in Requests, Claim(q)
    PROVE  EnrollInv'
<1> USE DEF EnrollInv, ServerTypes
<1>0. \A p \in Requests : claim[p] \in Approvals
  OBVIOUS
<1>1. CASE ClaimCreates(q)
  <2>1. PICK k \in Accounts :
          /\ account[k] = "free"
          /\ \/ /\ claim' = [claim EXCEPT ![q].st = "store", ![q].acct = k]
                /\ account' = [account EXCEPT ![k] = "bare"]
             \/ /\ claim' = [claim EXCEPT ![q].st = "failed"]
                /\ account' \in {account, [account EXCEPT ![k] = "bare"]}
    BY <1>1 DEF ClaimCreates, Next1
  <2>2. claim[q].st = "create" /\ UNCHANGED <<device, entry, bound, removals>>
    BY <1>1 DEF ClaimCreates
  <2>3. /\ claim' \in [Requests -> Approvals]
        /\ \A p \in Requests : claim'[p].code = claim[p].code
        /\ \A p \in Requests :
              \/ claim'[p] = claim[p]
              \/ p = q /\ claim'[p].st = "store" /\ claim'[p].acct \in Accounts
              \/ claim'[p].st = "failed"
    BY <1>0, <2>1, AccountNumbers, SMTT(30) DEF Approvals
  <2>4. /\ account' \in [Accounts -> {"free", "bare", "managed"}]
        /\ \A j \in Accounts : account[j] = "managed" => account'[j] = "managed"
    BY <2>1
  <2>5. ServerTypes'
    BY <2>2, <2>3, <2>4
  <2>6. OwnedBeforeMark'
    <3>1. \A c \in Codes : entry[c].user # 0 => entry[c].user \in Accounts
      BY AccountNumbers DEF Entries
    <3> QED
      BY <2>2, <2>3, <2>4, <3>1 DEF OwnedBeforeMark
  <2> QED
    BY <2>2, <2>4, <2>5, <2>6, ServerKeeps DEF Apart, OneCredential
<1>2. CASE ClaimStores(q)
  <2>1. \/ /\ claim' = [claim EXCEPT ![q].st = "bind"]
           /\ account' = [account EXCEPT ![claim[q].acct] = "managed"]
        \/ /\ claim' = [claim EXCEPT ![q].st = "failed"]
           /\ account' = account
    BY <1>2 DEF ClaimStores, Next1
  <2>2. claim[q].st = "store" /\ UNCHANGED <<device, entry, bound, removals>>
    BY <1>2 DEF ClaimStores
  <2>3. claim[q].acct \in Accounts /\ claim[q].code \in Codes
    BY <2>2
  <2>4. /\ account' \in [Accounts -> {"free", "bare", "managed"}]
        /\ \A j \in Accounts : account[j] = "managed" => account'[j] = "managed"
    BY <2>1, <2>3
  <2>5. /\ claim' \in [Requests -> Approvals]
        /\ \A p \in Requests :
              \/ claim'[p] = claim[p]
              \/ /\ p = q /\ claim'[p].st = "bind" /\ claim'[p].acct = claim[p].acct
                 /\ claim'[p].code = claim[p].code /\ account'[claim[q].acct] = "managed"
              \/ claim'[p].st = "failed"
    BY <1>0, <2>1, <2>3, SMTT(30) DEF Approvals
  <2>6. ServerTypes'
    BY <2>2, <2>3, <2>4, <2>5
  <2>7. OwnedBeforeMark'
    <3>1. \A c \in Codes : entry[c].user # 0 => entry[c].user \in Accounts
      BY AccountNumbers DEF Entries
    <3>2. \A c \in Codes : entry'[c].user # 0 => account'[entry'[c].user] = "managed"
      BY <2>2, <2>4, <3>1 DEF OwnedBeforeMark
    <3>3. ASSUME NEW p \in Requests, claim'[p].st \in {"bind", "mark"}
          PROVE  account'[claim'[p].acct] = "managed"
      <4>1. CASE claim'[p] = claim[p]
        BY <2>4, <3>3, <4>1 DEF OwnedBeforeMark
      <4>2. CASE p = q /\ claim'[p].acct = claim[p].acct /\ account'[claim[q].acct] = "managed"
        BY <4>2
      <4> QED
        BY <2>5, <3>3, <4>1, <4>2
    <3> QED
      BY <3>2, <3>3 DEF OwnedBeforeMark
  <2> QED
    BY <2>2, <2>4, <2>6, <2>7, ServerKeeps DEF Apart, OneCredential
<1>3. CASE ClaimBinds(q)
  <2>1. /\ claim[q].st = "bind" /\ UNCHANGED <<device, entry, account, removals>>
        /\ claim' = [claim EXCEPT ![q].st = "mark"]
        /\ bound' \in {bound, bound \cup {claim[q].acct}}
    BY <1>3 DEF ClaimBinds, Next1
  <2>2. /\ claim' \in [Requests -> Approvals]
        /\ \A p \in Requests :
              \/ claim'[p] = claim[p]
              \/ /\ p = q /\ claim'[p].st = "mark" /\ claim'[p].acct = claim[p].acct
                 /\ claim'[p].code = claim[p].code
    BY <1>0, <2>1 DEF Approvals
  <2>3. ServerTypes'
    BY <2>1, <2>2
  <2>4. OwnedBeforeMark'
    BY <2>1, <2>2 DEF OwnedBeforeMark
  <2> QED
    BY <2>1, <2>3, <2>4, ServerKeeps DEF Apart, OneCredential
<1>4. CASE ClaimMarks(q)
  <2> DEFINE k == claim[q].acct
             marked == [entry[claim[q].code] EXCEPT !.claimed = TRUE, !.user = k, !.secret = k]
  <2>1. /\ claim[q].st = "mark" /\ UNCHANGED <<device, account, bound, removals>>
        /\ claim' = [claim EXCEPT ![q].st = "done"]
        /\ entry' = [entry EXCEPT ![claim[q].code] = marked]
    BY <1>4 DEF ClaimMarks, Next1
  <2>2. claim[q].code \in Codes /\ k \in Accounts /\ account[k] = "managed"
    BY <2>1 DEF OwnedBeforeMark
  <2>3. marked \in Entries /\ marked.user = k /\ marked.secret = k
    BY <2>2, AccountNumbers DEF Entries
  <2> HIDE DEF marked
  <2>4. /\ entry' \in [Codes -> Entries]
        /\ \A c \in Codes : entry'[c] = entry[c] \/ (entry'[c].user = k /\ entry'[c].secret = k)
    <3>1. entry \in [Codes -> Entries]
      OBVIOUS
    <3>2. entry' \in [Codes -> Entries]
      BY <2>1, <2>3, <3>1
    <3>3. \A c \in Codes : entry'[c] = entry[c] \/ entry'[c] = marked
      BY <2>1, <3>1
    <3> QED
      BY <2>3, <3>2, <3>3
  <2>5. /\ claim' \in [Requests -> Approvals]
        /\ \A p \in Requests : claim'[p] = claim[p] \/ claim'[p].st = "done"
    BY <1>0, <2>1 DEF Approvals
  <2> HIDE DEF k
  <2>6. ServerTypes'
    BY <2>1, <2>4, <2>5
  <2>7. OwnedBeforeMark'
    BY <2>1, <2>2, <2>4, <2>5 DEF OwnedBeforeMark
  <2>8. \A c \in Codes : entry'[c].user = entry'[c].secret
    BY <2>4 DEF OneCredential
  <2> QED
    BY <2>1, <2>6, <2>7, <2>8, ServerKeeps DEF Apart
<1> QED
  BY <1>1, <1>2, <1>3, <1>4 DEF Claim
-----------------------------------------------------------------------------
\* Every step keeps the invariant.
LEMMA EnrollStep ==
    ASSUME EnrollConstants, EnrollInv, [EnrollNext]_enrollVars
    PROVE  EnrollInv'
<1>1. CASE UNCHANGED enrollVars
  BY <1>1 DEF enrollVars, device, records, EnrollInv, DeviceTypes, ServerTypes, OneCredential,
         OwnedBeforeMark, OwnedBeforeUse
<1>2. CASE EnrollNext
  BY <1>2, DeviceStep, CreateStep, PollStep, QuietServerStep, ClaimStep DEF EnrollNext
<1> QED
  BY <1>1, <1>2

\* The user name and the secret of a device come from one approval, however
\* approvals, polls, lost answers, crashes and restarts interleave, as long as
\* nobody removes its secret file (enroll, save, claimEnrollment).
THEOREM CredentialMatches ==
    ASSUME EnrollConstants
    PROVE  EnrollSpec => []PairMatches
<1>1. EnrollInit => EnrollInv
  BY EnrollStarts
<1>2. EnrollInv /\ [EnrollNext]_enrollVars => EnrollInv'
  BY EnrollStep
<1>3. EnrollInv => PairMatches
  BY DEF EnrollInv, OneCredential, PairMatches, Enrolled
<1> QED
  BY <1>1, <1>2, <1>3, PTL DEF EnrollSpec

\* A device holds credentials only of accounts that carry their owner, and
\* never uses up the rounds of its polling loop (claimEnrollment, enroll).
THEOREM CredentialOwned ==
    ASSUME EnrollConstants
    PROVE  EnrollSpec => [](OwnedBeforeUse /\ EnrollTypeOK)
<1>1. EnrollInit => EnrollInv
  BY EnrollStarts
<1>2. EnrollInv /\ [EnrollNext]_enrollVars => EnrollInv'
  BY EnrollStep
<1>3. EnrollInv => OwnedBeforeUse /\ EnrollTypeOK
  <2> SUFFICES ASSUME EnrollInv PROVE OwnedBeforeUse /\ EnrollTypeOK
    OBVIOUS
  <2>1. \A c \in Codes : entry[c].at \in Replicas \cup {"unmade", "nowhere"}
    BY DEF EnrollInv, ServerTypes, Entries, Places
  <2> QED
    BY <2>1 DEF EnrollInv, EnrollTypeOK, DeviceTypes, ServerTypes, Held
<1> QED
  BY <1>1, <1>2, <1>3, PTL DEF EnrollSpec
-----------------------------------------------------------------------------
(***************************************************************************)
(* Provisioner: success is reported when everything asked for is there;    *)
(* the second theorem is about a single replica.                           *)
(***************************************************************************)
Steps == Working \cup {"unsent", "waiting", "ok", "failed"}

\* The types of the variables.
ProvisionTypes ==
    /\ step \in [Requests -> Steps]
    /\ at \in [Requests -> Replicas]
    /\ holder \in [Replicas -> Requests \cup {Nobody}]
    /\ seen \in [Requests -> SUBSET Requests]
    /\ uris \subseteq Requests
    /\ provider \in {"none", "alone", "assigned"} /\ group \in BOOLEAN
    /\ foreign \in BOOLEAN

\* What a step of request q does: it leaves the other requests where they
\* are, and what exists in Authentik stays there.
Moves(q, s, known) ==
    /\ step' = [step EXCEPT ![q] = s]
    /\ seen' = [seen EXCEPT ![q] = known]
    /\ holder' = IF s \in Working THEN holder ELSE [holder EXCEPT ![at[q]] = Nobody]
    /\ at' = at

\* Initially nothing exists.
LEMMA ProvisionStarts == ProvisionInit => ProvisionTypes /\ SeenAssigned /\ ReportedComplete
BY DEF ProvisionInit, ProvisionTypes, SeenAssigned, ReportedComplete, Steps, Working

\* Each remote call of a request, by what it read and found: where the request
\* goes on, and what has changed in Authentik.
LEMMA HandleMoves ==
    ASSUME ProvisionTypes, SeenAssigned, NEW q \in Requests, Handle(q)
    PROVE  \E s \in Steps \ {"unsent", "waiting"}, known \in SUBSET Requests :
              /\ Moves(q, s, known)
              /\ uris' \subseteq Requests
              /\ provider' \in {"none", "alone", "assigned"} /\ group' \in BOOLEAN
              /\ foreign' = foreign
              /\ HasApplication => HasApplication'
              /\ provider # "none" => provider' # "none"
              /\ group => group'
              /\ s \in {"patch", "group", "newgroup", "ok"} => HasApplication'
              /\ s \in {"app", "appfind"} => provider' # "none"
              /\ s = "ok" /\ q \in Grouped => group'
<1> DEFINE Result(s, known) ==
              /\ Moves(q, s, known)
              /\ uris' \subseteq Requests
              /\ provider' \in {"none", "alone", "assigned"} /\ group' \in BOOLEAN
              /\ foreign' = foreign
              /\ HasApplication => HasApplication'
              /\ provider # "none" => provider' # "none"
              /\ group => group'
              /\ s \in {"patch", "group", "newgroup", "ok"} => HasApplication'
              /\ s \in {"app", "appfind"} => provider' # "none"
              /\ s = "ok" /\ q \in Grouped => group'
           Ends == Steps \ {"unsent", "waiting"}
<1> SUFFICES \E s \in Ends, known \in SUBSET Requests : Result(s, known)
  OBVIOUS
<1> USE DEF HasApplication
<1>0. /\ seen[q] \in SUBSET Requests
      /\ seen = [seen EXCEPT ![q] = seen[q]]
  BY DEF ProvisionTypes
<1>1. CASE Find(q) \/ FindAgain(q)
  <2>1. CASE provider = "assigned" /\ Continue(q, uris) /\ UNCHANGED authentik
    <3>1. Result(IF q \in uris THEN Grouping(q) ELSE "patch", uris)
      BY <2>1 DEF Continue, Goto, Grouping, Moves, ProvisionTypes, authentik
    <3> QED
      BY <3>1 DEF ProvisionTypes, Grouping, Steps, Working
  <2>2. CASE (\E s \in {"create", "failed"} : Goto(q, s)) /\ UNCHANGED <<seen, authentik>>
    <3>1. \E s \in {"create", "failed"} : Result(s, seen[q])
      BY <1>0, <2>2 DEF Goto, Moves, ProvisionTypes, authentik
    <3> QED
      BY <1>0, <3>1 DEF Steps, Working
  <2>3. \/ provider = "assigned" /\ Continue(q, uris) /\ UNCHANGED authentik
        \/ (\E s \in {"create", "failed"} : Goto(q, s)) /\ UNCHANGED <<seen, authentik>>
    BY <1>1 DEF Find, FindAgain, Fail
  <2> QED
    BY <2>1, <2>2, <2>3
<1>2. CASE Create(q)
  <2>0. UNCHANGED <<foreign, group>>
    BY <1>2 DEF Create
  <2>1. CASE /\ Goto(q, "app") /\ seen' = [seen EXCEPT ![q] = {q}]
             /\ provider = "none" /\ provider' = "alone" /\ uris' = {q}
    <3>1. Result("app", {q})
      BY <2>0, <2>1 DEF Goto, Moves, ProvisionTypes
    <3> QED
      BY <3>1 DEF Steps, Working
  <2>2. CASE /\ \E s \in {"again", "failed"} : Goto(q, s)
             /\ seen' = seen
             /\ \/ provider = "none" /\ provider' = "alone" /\ uris' = {q}
                \/ UNCHANGED <<provider, uris>>
    <3>1. \E s \in {"again", "failed"} : Result(s, seen[q])
      BY <1>0, <2>0, <2>2 DEF Goto, Moves, ProvisionTypes
    <3> QED
      BY <1>0, <3>1 DEF Steps, Working
  <2>3. \/ /\ Goto(q, "app") /\ seen' = [seen EXCEPT ![q] = {q}]
           /\ provider = "none" /\ provider' = "alone" /\ uris' = {q}
        \/ /\ \E s \in {"again", "failed"} : Goto(q, s)
           /\ seen' = seen
           /\ \/ provider = "none" /\ provider' = "alone" /\ uris' = {q}
              \/ UNCHANGED <<provider, uris>>
    BY <1>2 DEF Create, Fail
  <2> QED
    BY <2>1, <2>2, <2>3
<1>3. CASE CreateApplication(q) \/ FindApplication(q)
  <2>0. /\ provider # "none" /\ UNCHANGED <<foreign, uris, group>>
        /\ provider' = provider \/ provider' = "assigned"
    BY <1>3 DEF CreateApplication, FindApplication, SeenAssigned, authentik
  <2>1. CASE HasApplication' /\ Continue(q, seen[q])
    <3>1. Result(IF q \in seen[q] THEN Grouping(q) ELSE "patch", seen[q])
      BY <1>0, <2>0, <2>1 DEF Continue, Goto, Grouping, Moves, ProvisionTypes
    <3> QED
      BY <1>0, <3>1 DEF Grouping, Steps, Working
  <2>2. CASE (\E s \in {"appfind", "failed"} : Goto(q, s)) /\ UNCHANGED seen
    <3>1. \E s \in {"appfind", "failed"} : Result(s, seen[q])
      BY <1>0, <2>0, <2>2 DEF Goto, Moves, ProvisionTypes
    <3> QED
      BY <1>0, <3>1 DEF Steps, Working
  <2>3. \/ HasApplication' /\ Continue(q, seen[q])
        \/ (\E s \in {"appfind", "failed"} : Goto(q, s)) /\ UNCHANGED seen
    BY <1>3, <2>0 DEF CreateApplication, FindApplication, Fail, SlugTaken, ProvisionTypes,
           authentik
  <2> QED
    BY <2>1, <2>2, <2>3
<1>4. CASE AddRedirect(q) \/ FindGroup(q) \/ CreateGroup(q)
  <2>1. HasApplication
    BY <1>4 DEF AddRedirect, FindGroup, CreateGroup, SeenAssigned
  <2>2. /\ UNCHANGED <<provider, foreign, seen>>
        /\ uris' \subseteq Requests
        /\ group' \in BOOLEAN /\ (group => group')
    BY <1>0, <1>4 DEF AddRedirect, FindGroup, CreateGroup, ProvisionTypes, authentik
  <2>3. \E s \in Ends : Goto(q, s) /\ (s = "ok" /\ q \in Grouped => group')
    <3>0. {"ok", "group", "newgroup", "failed"} \subseteq Ends
      BY DEF Steps, Working
    <3> HIDE DEF Ends
    <3>1. CASE AddRedirect(q)
      <4>1. Goto(q, Grouping(q)) \/ Goto(q, "failed")
        BY <3>1 DEF AddRedirect, Fail
      <4>2. Grouping(q) \in Ends /\ (Grouping(q) = "ok" => q \notin Grouped)
        BY <3>0 DEF Grouping
      <4> QED
        BY <3>0, <4>1, <4>2
    <3>2. CASE FindGroup(q)
      <4>1. group' = group
        BY <3>2 DEF FindGroup, authentik
      <4>2. \/ group /\ Goto(q, "ok")
            \/ \E s \in {"newgroup", "failed"} : Goto(q, s)
        BY <3>2 DEF FindGroup, Fail
      <4> QED
        BY <3>0, <4>1, <4>2
    <3>3. CASE CreateGroup(q)
      <4>1. (group' = TRUE /\ Goto(q, "ok")) \/ Goto(q, "failed")
        BY <3>3 DEF CreateGroup, Fail
      <4> QED
        BY <3>0, <4>1
    <3> QED
      BY <1>4, <3>1, <3>2, <3>3
  <2>4. \E s \in Ends : Result(s, seen[q])
    BY <1>0, <2>1, <2>2, <2>3 DEF Goto, Moves, ProvisionTypes
  <2> QED
    BY <1>0, <2>4
<1> QED
  BY <1>1, <1>2, <1>3, <1>4 DEF Handle

\* Sending and locking leave Authentik alone.
LEMMA QueueMoves ==
    ASSUME ProvisionTypes, NEW q \in Requests, Send(q) \/ Lock(q)
    PROVE  /\ ProvisionTypes' /\ UNCHANGED <<authentik, seen>>
           /\ \E s \in {"waiting", "find"} : step' = [step EXCEPT ![q] = s]
<1>1. CASE Send(q)
  <2>1. PICK r \in Replicas : at' = [at EXCEPT ![q] = r]
    BY <1>1 DEF Send
  <2>2. step' = [step EXCEPT ![q] = "waiting"] /\ UNCHANGED <<authentik, holder, seen>>
    BY <1>1 DEF Send
  <2> QED
    BY <2>1, <2>2 DEF ProvisionTypes, Steps, authentik
<1>2. CASE Lock(q)
  <2>1. /\ step' = [step EXCEPT ![q] = "find"] /\ UNCHANGED <<authentik, at, seen>>
        /\ holder' = [holder EXCEPT ![at[q]] = q]
    BY <1>2 DEF Lock
  <2> QED
    BY <2>1 DEF ProvisionTypes, Steps, Working, authentik
<1> QED
  BY <1>1, <1>2

\* Every step keeps the types, and nothing is reported too early.
LEMMA CompleteStep ==
    ASSUME ProvisionTypes, SeenAssigned, ReportedComplete,
           [ProvisionNext]_provisionVars
    PROVE  (ProvisionTypes /\ SeenAssigned /\ ReportedComplete)'
<1>1. ASSUME NEW q \in Requests, Send(q) \/ Lock(q)
      PROVE  (ProvisionTypes /\ SeenAssigned /\ ReportedComplete)'
  BY <1>1, QueueMoves DEF ProvisionTypes, SeenAssigned, ReportedComplete, HasApplication, authentik
<1>2. ASSUME NEW q \in Requests, Handle(q)
      PROVE  (ProvisionTypes /\ SeenAssigned /\ ReportedComplete)'
  <2>1. PICK s \in Steps \ {"unsent", "waiting"}, known \in SUBSET Requests :
              /\ Moves(q, s, known)
              /\ uris' \subseteq Requests
              /\ provider' \in {"none", "alone", "assigned"} /\ group' \in BOOLEAN
              /\ foreign' = foreign
              /\ HasApplication => HasApplication'
              /\ provider # "none" => provider' # "none"
              /\ group => group'
              /\ s \in {"patch", "group", "newgroup", "ok"} => HasApplication'
              /\ s \in {"app", "appfind"} => provider' # "none"
              /\ s = "ok" /\ q \in Grouped => group'
    BY <1>2, HandleMoves
  <2>2. ProvisionTypes'
    BY <2>1 DEF Moves, ProvisionTypes
  <2>3. SeenAssigned'
    <3>1. step' = [step EXCEPT ![q] = s] /\ step \in [Requests -> Steps]
      BY <2>1 DEF Moves, ProvisionTypes
    <3> QED
      BY <2>1, <3>1 DEF SeenAssigned
  <2>4. ReportedComplete'
    <3>1. step' = [step EXCEPT ![q] = s] /\ step \in [Requests -> Steps]
      BY <2>1 DEF Moves, ProvisionTypes
    <3> QED
      BY <2>1, <3>1 DEF ReportedComplete
  <2> QED
    BY <2>2, <2>3, <2>4
<1>3. CASE UNCHANGED provisionVars
  BY <1>3 DEF provisionVars, authentik, ProvisionTypes, SeenAssigned, ReportedComplete,
         HasApplication
<1> QED
  BY <1>1, <1>2, <1>3 DEF ProvisionNext

\* A request is answered with success only when the group it named exists and
\* the provider belongs to the route application, unless an application without
\* it had the slug before, whatever replicas race and whatever answers are lost
\* (ProvisionApplication).
THEOREM CompleteWhenReported == ProvisionSpec => []ReportedComplete
<1>1. ProvisionTypes /\ SeenAssigned /\ ReportedComplete /\ [ProvisionNext]_provisionVars
        => (ProvisionTypes /\ SeenAssigned /\ ReportedComplete)'
  BY CompleteStep
<1> QED
  BY ProvisionStarts, <1>1, PTL DEF ProvisionSpec
-----------------------------------------------------------------------------
(***************************************************************************)
(* One replica: the mutex makes reading and writing the list one step.     *)
(***************************************************************************)
OneReplica == \A r, t \in Replicas : r = t

\* What every remote call does to the list of addresses and to the copy.
LEMMA HandleWrites ==
    ASSUME ProvisionTypes, SeenAssigned, OneWriter, NEW q \in Requests, Handle(q)
    PROVE  /\ uris \subseteq uris'
           /\ provider' = "none" => uris' = {}
           /\ step'[q] \in {"patch", "app", "appfind"} => seen'[q] = uris'
           /\ step'[q] \in {"app", "appfind", "group", "newgroup", "ok"} => q \in uris'
<1> USE DEF ProvisionTypes, OneWriter, Goto, Fail, Continue, Grouping, authentik
<1>1. CASE Find(q)
  BY <1>1 DEF Find
<1>2. CASE Create(q)
  BY <1>2 DEF Create
<1>3. CASE FindAgain(q)
  BY <1>3 DEF FindAgain
<1>4. CASE CreateApplication(q)
  <2>1. /\ uris' = uris /\ seen[q] = uris /\ q \in uris /\ provider' # "none"
        /\ seen' = seen \/ seen' = [seen EXCEPT ![q] = seen[q]]
    BY <1>4 DEF CreateApplication, SeenAssigned
  <2> QED
    BY <2>1
<1>5. CASE FindApplication(q)
  <2>1. /\ UNCHANGED <<uris, provider>> /\ seen[q] = uris /\ q \in uris
        /\ seen' = seen \/ seen' = [seen EXCEPT ![q] = seen[q]]
    BY <1>5 DEF FindApplication
  <2> QED
    BY <2>1
<1>6. CASE AddRedirect(q)
  BY <1>6 DEF AddRedirect, SeenAssigned, HasApplication
<1>7. CASE FindGroup(q)
  BY <1>7 DEF FindGroup
<1>8. CASE CreateGroup(q)
  BY <1>8 DEF CreateGroup
<1> QED
  BY <1>1, <1>2, <1>3, <1>4, <1>5, <1>6, <1>7, <1>8 DEF Handle

\* With one replica, every step keeps the list whole.
LEMMA WriterStep ==
    ASSUME ProvisionConstants, OneReplica, ProvisionTypes, SeenAssigned, OneWriter,
           [ProvisionNext]_provisionVars
    PROVE  OneWriter'
<1>1. ASSUME NEW q \in Requests, Send(q)
      PROVE  OneWriter'
  BY <1>1 DEF Send, OneWriter, ProvisionTypes, Working, authentik
<1>2. ASSUME NEW q \in Requests, Lock(q)
      PROVE  OneWriter'
  BY <1>2 DEF Lock, OneWriter, OneReplica, ProvisionTypes, ProvisionConstants, authentik
<1>3. ASSUME NEW q \in Requests, Handle(q)
      PROVE  OneWriter'
  <2>1. PICK s \in Steps, known \in SUBSET Requests : Moves(q, s, known)
    BY <1>3, HandleMoves
  <2>2. holder[at[q]] = q
    BY <1>3 DEF Handle, Find, Create, FindAgain, CreateApplication, FindApplication,
           AddRedirect, FindGroup, CreateGroup, OneWriter, Working
  <2>3. \A p \in Requests \ {q} : step[p] \notin Working
    BY <2>2, SMTT(30) DEF OneWriter, OneReplica, ProvisionTypes
  <2>4. \A p \in Requests \ {q} : step'[p] = step[p]
    BY <2>1 DEF Moves, ProvisionTypes
  <2>5. step'[q] = s /\ at' = at
    BY <2>1 DEF Moves, ProvisionTypes
  <2>6. \A p \in Requests : step'[p] \in Working => holder'[at'[p]] = p
    BY <2>1, <2>2, <2>3, <2>4, <2>5 DEF Moves
  <2>7. ASSUME NEW p \in Requests
        PROVE  /\ step'[p] \in {"patch", "app", "appfind"} => seen'[p] = uris'
               /\ step'[p] \in {"app", "appfind", "group", "newgroup", "ok"} => p \in uris'
    <3>1. CASE p = q
      BY <1>3, <3>1, HandleWrites
    <3>2. CASE p # q
      <4>1. step'[p] = step[p] /\ step[p] \notin Working /\ uris \subseteq uris'
        BY <1>3, <2>3, <2>4, <3>2, HandleWrites
      <4> QED
        BY <4>1 DEF OneWriter, Working
    <3> QED
      BY <3>1, <3>2
  <2>8. provider' = "none" => uris' = {}
    BY <1>3, HandleWrites
  <2> QED
    BY <2>6, <2>7, <2>8 DEF OneWriter
<1>4. CASE UNCHANGED provisionVars
  BY <1>4 DEF provisionVars, authentik, OneWriter
<1> QED
  BY <1>1, <1>2, <1>3, <1>4 DEF ProvisionNext

\* With one replica, a callback address that was reported stays registered,
\* whatever requests follow, fail or are sent again (addRedirect under the
\* mutex of ProvisionApplication).
THEOREM ReportedStays ==
    ASSUME ProvisionConstants, OneReplica
    PROVE  ProvisionSpec => []RegisteredStays
<1> DEFINE Inv == ProvisionTypes /\ SeenAssigned /\ ReportedComplete /\ OneWriter
<1>1. ProvisionInit => Inv
  <2>1. ProvisionInit => OneWriter
    BY DEF ProvisionInit, OneWriter, Working
  <2> QED
    BY <2>1, ProvisionStarts
<1>2. Inv /\ [ProvisionNext]_provisionVars => Inv'
  BY CompleteStep, WriterStep
<1>3. Inv => RegisteredStays
  BY DEF OneWriter, RegisteredStays
<1> QED
  BY <1>1, <1>2, <1>3, PTL DEF ProvisionSpec
=============================================================================
