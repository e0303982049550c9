----------------------------- MODULE Enrollment -----------------------------
(***************************************************************************)
(* Enrolling a desktop client: createEnrollment, getEnrollment and         *)
(* claimEnrollment in controlplane/internal/httpapi/server.go, enroll,     *)
(* save and central_bootstrap in client/src/desktop_settings.rs.           *)
(*                                                                         *)
(* The device asks for a code, shows the approval page and polls.  An      *)
(* approval reads the enrollment under the registry's lock, makes several  *)
(* remote calls without it and then writes the credential through the      *)
(* pointer it read.  Enrollments live in the memory of one replica, and    *)
(* any replica may be asked.  A credential is the number of its account:   *)
(* user name and secret are stored separately and are equal when they      *)
(* belong together; 0 stands for none.  A request is an approval, from one *)
(* console or several.                                                     *)
(***************************************************************************)
EXTENDS ControlPlane

CONSTANTS
    MaxCodes,   \* bound on the enrollments the device asks for
    MaxPolls,   \* polls of one enrollment (120 in the code)
    MaxAccounts, \* bound on Authentik's accounts, one for each approval
    MaxRemovals \* bound on removals of the secret file

\* What the theorems assume of the constants.
EnrollConstants ==
    /\ {"unmade", "nowhere"} \cap Replicas = {}
    /\ MaxPolls \in Nat \ {0, 1} /\ MaxCodes \in Nat \ {0} /\ MaxRemovals \in Nat
    /\ MaxAccounts \in Nat

Codes == 1..MaxCodes
Accounts == 1..MaxAccounts
Absent == [at |-> "unmade", claimed |-> FALSE, expired |-> FALSE,
           user |-> 0, secret |-> 0]

VARIABLES
    entry,    \* the enrollments: where each is listed, if anywhere
    claim,    \* the approvals
    account,  \* Authentik's accounts: "free", "bare" or "managed"
    bound,    \* the accounts that hold the selected entitlement
    pc,       \* the device: "off", "create", "polling", "saving", "run" or "stopped"
    code,     \* the enrollment it polls
    polls,    \* answered polls
    got,      \* user name in memory, not yet saved
    user,     \* user name in desktop.json
    secret,   \* the secret file
    torn,     \* desktop.json was cut short by a crash
    removals

device == <<pc, code, polls, got, user, secret, torn>>
records == <<entry, claim, account, bound>>
enrollVars == <<device, records, removals, faults>>

EnrollInit ==
    /\ entry = [c \in Codes |-> Absent]
    /\ claim = [q \in Requests |-> [st |-> "unsent", at |-> "nowhere",
                                   code |-> 0, acct |-> 0]]
    /\ account = [k \in Accounts |-> "free"]
    /\ bound = {}
    /\ pc = "off" /\ code = 0 /\ polls = 0 /\ got = 0
    /\ user = 0 /\ secret = 0 /\ torn = FALSE
    /\ removals = 0 /\ faults = 0

(* desktop::run and load_or_create: settings that cannot be parsed end the *)
(* process; credentials that are both present need no enrollment.          *)
Enrolled == user # 0 /\ secret # 0
DeviceStarts ==
    /\ pc = "off" /\ ~torn
    /\ Enrolled \/ \E c \in Codes : entry[c] = Absent
    /\ pc' = IF Enrolled THEN "run" ELSE "create"
    /\ UNCHANGED <<code, polls, got, user, secret, torn, records, removals, faults>>

(* createEnrollment, and the first request of enroll: the answer may be    *)
(* lost after the enrollment was listed.                                   *)
CreateEnrollment(r) ==
    /\ pc = "create"
    /\ \E c \in Codes :
          /\ entry[c] = Absent /\ \A d \in 1..(c - 1) : entry[d] # Absent
          /\ entry' = [entry EXCEPT ![c] = [Absent EXCEPT !.at = r]]
          /\ code' = c
    /\ polls' = 0
    /\ \/ pc' = "polling" /\ NoFault
       \/ pc' = "stopped" /\ Fault
    /\ UNCHANGED <<got, user, secret, torn, claim, account, bound, removals>>

(* Ten minutes have passed.                                                *)
Expire(c) ==
    /\ entry[c] # Absent /\ ~entry[c].expired
    /\ entry' = [entry EXCEPT ![c].expired = TRUE]
    /\ UNCHANGED <<device, claim, account, bound, removals, faults>>

(* getEnrollment at replica r and one round of enroll.  The round numbered *)
(* MaxPolls comes when MaxPolls pauses, which are ten minutes, have passed *)
(* since the answer to the first request, so the enrollment has expired.   *)
(* A claimed enrollment is removed with the answer that carries it; the    *)
(* device writes the secret file and goes on to save the user name.        *)
Serves(r, c) == entry[c].at = r /\ ~entry[c].expired
PollDelivers ==
    /\ pc' = "saving" /\ NoFault
    /\ secret' = entry[code].secret
    /\ got' = entry[code].user
PollFails == pc' = "stopped" /\ UNCHANGED <<secret, got>>
Poll(r) ==
    /\ pc = "polling"
    /\ polls + 1 = MaxPolls => entry[code].expired
    /\ \/ /\ ~Serves(r, code)
          /\ PollFails /\ NoFault
          /\ UNCHANGED <<entry, polls>>
       \/ /\ Serves(r, code) /\ ~entry[code].claimed
          /\ \/ polls' = polls + 1 /\ NoFault /\ UNCHANGED <<pc, secret, got>>
             \/ PollFails /\ Fault /\ UNCHANGED polls
          /\ UNCHANGED entry
       \/ /\ Serves(r, code) /\ entry[code].claimed
          /\ entry' = [entry EXCEPT ![code].at = "nowhere"]
          /\ \/ PollDelivers
             \/ PollFails /\ Fault
          /\ UNCHANGED polls
    /\ UNCHANGED <<code, user, torn, claim, account, bound, removals>>

Save ==
    /\ pc = "saving"
    /\ user' = got
    /\ pc' = "run"
    /\ UNCHANGED <<code, polls, got, secret, torn, records, removals, faults>>

(* The process ends.  fs::write first empties desktop.json, so an end in   *)
(* the middle of save leaves settings that cannot be parsed.               *)
Crash ==
    /\ pc \notin {"off", "stopped"}
    /\ Fault
    /\ pc' = "off"
    /\ \/ UNCHANGED torn
       \/ pc = "saving" /\ torn' = TRUE
    /\ UNCHANGED <<code, polls, got, user, secret, records, removals>>

(* The user of a desktop that shows "Tunnel unavailable" starts it again,  *)
(* or removes the secret file of a stopped client to enroll anew.          *)
StartAgain ==
    /\ pc = "stopped"
    /\ pc' = "off"
    /\ UNCHANGED <<code, polls, got, user, secret, torn, records, removals, faults>>
RemoveSecret ==
    /\ pc = "off" /\ secret # 0
    /\ removals < MaxRemovals
    /\ removals' = removals + 1
    /\ secret' = 0
    /\ UNCHANGED <<pc, code, polls, got, user, torn, records, faults>>

(* claimEnrollment: the check, made once and without regard to Claimed.    *)
ClaimBegins(q, r) ==
    /\ claim[q].st = "unsent"
    /\ \E c \in Codes :
          /\ Serves(r, c)
          /\ claim' = [claim EXCEPT ![q] = [st |-> "create", at |-> r,
                                             code |-> c, acct |-> 0]]
    /\ UNCHANGED <<device, entry, account, bound, removals, faults>>

(* The remote calls.  A failed creation may still have made the account;   *)
(* one whose attributes could not be stored is left as it is.              *)
Next1(q, st) == claim' = [claim EXCEPT ![q].st = st]
ClaimCreates(q) ==
    /\ claim[q].st = "create"
    /\ \E k \in Accounts :
          /\ account[k] = "free" /\ \A j \in 1..(k - 1) : account[j] # "free"
          /\ \/ /\ claim' = [claim EXCEPT ![q].st = "store", ![q].acct = k]
                /\ NoFault
                /\ account' = [account EXCEPT ![k] = "bare"]
             \/ /\ Next1(q, "failed") /\ Fault
                /\ account' \in {account, [account EXCEPT ![k] = "bare"]}
    /\ UNCHANGED <<device, entry, bound, removals>>

ClaimStores(q) ==
    /\ claim[q].st = "store"
    /\ \/ /\ Next1(q, "bind") /\ NoFault
          /\ account' = [account EXCEPT ![claim[q].acct] = "managed"]
       \/ /\ Next1(q, "failed") /\ Fault
          /\ UNCHANGED account
    /\ UNCHANGED <<device, entry, bound, removals>>

(* An entitlement that cannot be found or bound is passed over.            *)
ClaimBinds(q) ==
    /\ claim[q].st = "bind"
    /\ Next1(q, "mark")
    /\ \/ bound' = bound \cup {claim[q].acct} /\ NoFault
       \/ Fault /\ UNCHANGED bound
    /\ UNCHANGED <<device, entry, account, removals>>

(* The credential is written under the lock, wherever the enrollment is.   *)
ClaimMarks(q) ==
    /\ claim[q].st = "mark"
    /\ Next1(q, "done")
    /\ entry' = [entry EXCEPT ![claim[q].code] =
                   [@ EXCEPT !.claimed = TRUE, !.user = claim[q].acct,
                             !.secret = claim[q].acct]]
    /\ UNCHANGED <<device, account, bound, removals, faults>>

(* A replica restarts: its enrollments and the approvals it was handling   *)
(* are gone.                                                               *)
ReplicaRestarts(r) ==
    /\ Fault
    /\ entry' = [c \in Codes |->
                   IF entry[c].at = r THEN [entry[c] EXCEPT !.at = "nowhere"]
                   ELSE entry[c]]
    /\ claim' = [q \in Requests |->
                   IF claim[q].st \in {"create", "store", "bind", "mark"}
                      /\ claim[q].at = r
                   THEN [claim[q] EXCEPT !.st = "failed"] ELSE claim[q]]
    /\ UNCHANGED <<device, account, bound, removals>>

Claim(q) == ClaimCreates(q) \/ ClaimStores(q) \/ ClaimBinds(q) \/ ClaimMarks(q)
EnrollNext ==
    \/ DeviceStarts \/ Save \/ Crash \/ StartAgain \/ RemoveSecret
    \/ \E r \in Replicas : CreateEnrollment(r) \/ Poll(r) \/ ReplicaRestarts(r)
    \/ \E c \in Codes : Expire(c)
    \/ \E q \in Requests : Claim(q) \/ \E r \in Replicas : ClaimBegins(q, r)

EnrollSpec == EnrollInit /\ [][EnrollNext]_enrollVars
EnrollPromptSpec ==
    /\ EnrollSpec
    /\ WF_enrollVars(DeviceStarts) /\ WF_enrollVars(Save)
    /\ WF_enrollVars(\E r \in Replicas : Poll(r))
    /\ WF_enrollVars(\E r \in Replicas : CreateEnrollment(r))
    /\ \A q \in Requests : WF_enrollVars(Claim(q))
EnrollFairSpec == EnrollPromptSpec /\ \A c \in Codes : WF_enrollVars(Expire(c))
-----------------------------------------------------------------------------
(* Every variable keeps its type; the device never makes as many polls as  *)
(* the loop of enroll allows, so its last error, "enrollment expired       *)
(* before it was approved", is never the one reported.                     *)
EnrollTypeOK ==
    /\ \A c \in Codes : entry[c].at \in Replicas \cup {"unmade", "nowhere"}
    /\ pc \in {"off", "create", "polling", "saving", "run", "stopped"}
    /\ code \in 0..MaxCodes /\ polls \in 0..(MaxPolls - 1)
    /\ {got, user, secret} \subseteq 0..MaxAccounts
    /\ bound \subseteq Accounts

(* The user name and the secret a device runs with come from the same      *)
(* approval, although approvals of one enrollment overlap and write over   *)
(* each other, answers are lost and the device ends between writing the    *)
(* secret and saving the name.  (A client whose secret file was removed is *)
(* the exception: its old name meets the secret of a new enrollment.)      *)
PairMatches == Enrolled /\ removals = 0 => user = secret

(* The account whose credential a device holds carries its owner: no       *)
(* credential is handed out before claimEnrollment has stored the          *)
(* attributes that let the owner manage and delete the account.            *)
OwnedBeforeUse ==
    \A k \in {user, secret, got} \ {0} : account[k] = "managed"

(* Why PairMatches holds: an enrollment carries one credential, and a      *)
(* device that has a name has no reason to enroll again.                   *)
OneCredential ==
    /\ \A c \in Codes : entry[c].user = entry[c].secret
    /\ pc = "saving" => got = secret
    /\ removals = 0 /\ user # 0 => user = secret
    /\ removals = 0 /\ pc \in {"create", "polling", "saving"} => user = 0

(* Why OwnedBeforeUse holds: an account has its owner before an approval   *)
(* goes on to write its credential.                                        *)
OwnedBeforeMark ==
    /\ \A c \in Codes : entry[c].user # 0 => account[entry[c].user] = "managed"
    /\ \A q \in Requests :
          claim[q].st \in {"bind", "mark"} => account[claim[q].acct] = "managed"

(* Enrolling ends: a device that asked for an enrollment comes to run or   *)
(* stops with an error, even when nobody approves it.                      *)
EnrollSettles ==
    pc \in {"create", "polling", "saving"} ~> pc \in {"run", "stopped", "off"}

(* An approval that is recorded before the last poll reaches the device,   *)
(* whatever other approvals are under way, when one replica serves both    *)
(* and nothing is lost.                                                    *)
ApprovalReaches ==
    \A c \in Codes :
        (\E q \in Requests : claim[q].st = "done" /\ claim[q].code = c
                             /\ pc = "polling" /\ code = c /\ polls + 1 < MaxPolls)
            ~> (pc = "run" \/ entry[c].expired)
=============================================================================
