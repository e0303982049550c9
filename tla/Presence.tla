------------------------------ MODULE Presence ------------------------------
(***************************************************************************)
(* Presence of a managed client across control-plane replicas: touch and   *)
(* record of the device registry, getMachineClientEvents,                  *)
(* recordDevicePresence and the lease of managedClientStates in            *)
(* controlplane/internal/httpapi/server.go.                                *)
(*                                                                         *)
(* A contact is a replica's own touch of the record: when the client       *)
(* fetches its configuration or opens a stream, and at each tick of the    *)
(* server's timer for as long as it holds the stream open, whether or not  *)
(* the client still listens.  The replica stamps the contact with its own  *)
(* clock, records it and publishes it to all replicas.  A record is only   *)
(* replaced by one with a later stamp.  Messages between replicas are      *)
(* delayed, reordered and lost.  One unit of time is five seconds.         *)
(***************************************************************************)
EXTENDS Integers, FiniteSets

CONSTANTS
    Replica,
    Beat,      \* pause between heartbeats on a stream (20 s)
    Lease,     \* deviceOnlineLease (45 s)
    MaxSkew,   \* bound on the difference of the replicas' clocks
    MaxDelay,  \* bound on the delay of a message
    MaxTime,   \* bound on the clock
    MaxMoves,  \* bound on the streams the client opens
    MaxOthers, \* bound on contacts beside the ones of the latest stream
    MaxLoss    \* bound on lost messages

(* What the theorems assume of the constants.                              *)
PresenceConstants ==
    /\ Beat \in Nat \ {0} /\ Lease \in Nat /\ MaxSkew \in Nat /\ MaxDelay \in Nat
    /\ "none" \notin Replica

Unknown == [stamp |-> -1, real |-> -1]

VARIABLES
    now,    \* the true time
    skew,   \* how far each replica's clock is ahead of it
    conn,   \* the replica that holds the client's latest stream, or "none"
    since,  \* the last contact at any replica
    joined, \* when the stream was opened
    beat,   \* the last contact on the stream
    reg,    \* the record of each replica: stamp, and the true time behind it
    msgs,   \* presence messages on their way
    heard,  \* true time of the newest contact each replica was told of
    moves, others, losses

stream == <<conn, since, joined, beat, moves, others>>
presenceVars == <<now, skew, stream, reg, msgs, heard, losses>>

PresenceInit ==
    /\ now = 0
    /\ skew \in [Replica -> 0..MaxSkew]
    /\ conn = "none" /\ since = 0 /\ joined = 0 /\ beat = 0
    /\ reg = [r \in Replica |-> Unknown]
    /\ msgs = {}
    /\ heard = [r \in Replica |-> -1]
    /\ moves = 0 /\ others = 0 /\ losses = 0

(* deviceRegistry.record at replica r.                                     *)
Record(r, d) ==
    reg' = [reg EXCEPT ![r] = IF d.stamp > @.stamp THEN d ELSE @]

(* recordDevicePresence at replica r: stamp, record and publish.           *)
Touch(r) ==
    LET d == [stamp |-> now + skew[r], real |-> now]
    IN /\ Record(r, d)
       /\ heard' = [heard EXCEPT ![r] = now]
       /\ msgs' = msgs \cup {[to |-> o, dev |-> d] : o \in Replica \ {r}}
       /\ since' = now

(* getMachineClientEvents: a contact when the stream opens and one at each *)
(* tick of its heartbeat.                                                  *)
StreamOpens(r) ==
    /\ conn = "none" /\ moves < MaxMoves
    /\ conn' = r /\ joined' = now /\ beat' = now /\ moves' = moves + 1
    /\ Touch(r)
    /\ UNCHANGED <<now, skew, others, losses>>
StreamBeats ==
    /\ conn # "none" /\ now >= beat + Beat
    /\ beat' = now
    /\ Touch(conn)
    /\ UNCHANGED <<now, skew, conn, joined, moves, others, losses>>
StreamEnds ==
    /\ conn # "none"
    /\ conn' = "none"
    /\ UNCHANGED <<now, skew, since, joined, beat, moves, others, reg, msgs, heard, losses>>

(* getMachineClientConfig, at whatever replica the request reaches, and a  *)
(* tick of an earlier stream whose end its replica has not noticed.        *)
OtherContact(r) ==
    /\ others < MaxOthers
    /\ others' = others + 1
    /\ Touch(r)
    /\ UNCHANGED <<now, skew, conn, joined, beat, moves, losses>>

(* The subscription of New to the presence subject.                        *)
Deliver(m) ==
    /\ Record(m.to, m.dev)
    /\ heard' = [heard EXCEPT ![m.to] = IF m.dev.real > @ THEN m.dev.real ELSE @]
    /\ msgs' = msgs \ {m}
    /\ UNCHANGED <<now, skew, stream, losses>>
Lose(m) ==
    /\ losses < MaxLoss
    /\ losses' = losses + 1
    /\ msgs' = msgs \ {m}
    /\ UNCHANGED <<now, skew, stream, reg, heard>>

(* Time passes; a heartbeat that is due and a message at the bound of its  *)
(* delay come first.                                                       *)
TimePasses ==
    /\ now < MaxTime
    /\ conn # "none" => now < beat + Beat
    /\ \A m \in msgs : now < m.dev.real + MaxDelay
    /\ now' = now + 1
    /\ UNCHANGED <<skew, stream, reg, msgs, heard, losses>>

PresenceNext ==
    \/ TimePasses \/ StreamBeats \/ StreamEnds
    \/ \E r \in Replica : StreamOpens(r) \/ OtherContact(r)
    \/ \E m \in msgs : Deliver(m) \/ Lose(m)
PresenceSpec == PresenceInit /\ [][PresenceNext]_presenceVars

(* managedClientStates: what replica r shows.                              *)
Known(r) == reg[r] # Unknown
Online(r) == Known(r) /\ now + skew[r] - reg[r].stamp < Lease
-----------------------------------------------------------------------------
(* The invariant behind the two properties that follow: every record and   *)
(* message carries a stamp at most MaxSkew ahead of its contact, none is   *)
(* about a contact later than the last, and no replica has heard of a      *)
(* contact later than the stamp of its record.                             *)
Dev == [stamp : Int, real : Int]
Stamped(d) == d.real <= d.stamp /\ d.stamp <= d.real + MaxSkew /\ d.real <= since
PresenceInv ==
    /\ now \in Nat /\ since \in Nat /\ since <= now
    /\ skew \in [Replica -> 0..MaxSkew]
    /\ conn \in Replica \cup {"none"}
    /\ reg \in [Replica -> Dev] /\ heard \in [Replica -> Int]
    /\ \A m \in msgs : m \in [to : Replica, dev : Dev] /\ Stamped(m.dev)
    /\ \A r \in Replica : Stamped(reg[r]) /\ heard[r] <= reg[r].stamp

(* The record of a replica is never older than the newest contact it was   *)
(* told of by more than the difference of the replicas' clocks, in         *)
(* whatever order the messages arrive and wherever the client connects.    *)
NewestKept == \A r \in Replica : reg[r].real >= heard[r] - MaxSkew

(* A client without a contact anywhere for the lease, plus the difference  *)
(* of the clocks, is shown as offline by every replica, although a message *)
(* about an earlier contact may arrive late.                               *)
SilentIsOffline ==
    \A r \in Replica : now - since >= Lease + MaxSkew => ~Online(r)

(* Why the next property holds: each heartbeat of the stream after the     *)
(* last contact a replica knows of is on its way to it or was lost, and    *)
(* there is one in every interval of that length.                          *)
Waiting(r) == {m.dev.real : m \in {n \in msgs : n.to = r}}
Within(S, x, y) == {t \in S : x < t /\ t <= y}
Unseen(r) == {x \in joined..beat : x >= heard[r]}
Owed(r) ==
    \A x \in Unseen(r) :
        beat - x <= Beat * (Cardinality(Within(Waiting(r), x, beat)) + losses)
Spaced(r) ==
    \A x \in Unseen(r) : \A y \in x..beat :
        y - x < Beat * (Cardinality(Within(Waiting(r), x, y)) + losses + 1)
BeatsInv ==
    /\ joined \in Nat /\ beat \in Nat /\ losses \in Nat
    /\ \A m \in msgs : now <= m.dev.real + MaxDelay
    /\ \A r \in Replica : IsFiniteSet(Waiting(r))
    /\ conn # "none" =>
          /\ joined <= beat /\ beat <= now /\ now <= beat + Beat
          /\ \A r \in Replica : Owed(r) /\ Spaced(r)

(* A client whose stream a replica holds open is shown as online by every  *)
(* replica that has heard of a contact since it was opened, as long as the *)
(* lease covers the heartbeats that were lost, the delay of the next and   *)
(* the difference of the clocks, whatever other contacts there are.        *)
ConnectedIsOnline ==
    \A r \in Replica :
        (/\ conn # "none" /\ heard[r] >= joined
         /\ (losses + 1) * Beat + MaxDelay + MaxSkew < Lease) => Online(r)
=============================================================================
