--------------------------- MODULE IngressProofs ----------------------------
(***************************************************************************)
(* Proofs about two parts of the ingress: module Relay, for any number of  *)
(* connections, bytes and any buffer size, and module RoundRobin, for any  *)
(* number of clients and routes.                                           *)
(***************************************************************************)
EXTENDS Relay, RoundRobin, TLAPS

\* A leaf is proved by Zenon, or by SMT where it says so: where it rests on
\* arithmetic or on what an update of a function leaves behind.
USE ZenonT(60), SMTT(30)
-----------------------------------------------------------------------------
(***************************************************************************)
(* Relay: what is delivered is complete when a relay ends without an       *)
(* error.                                                                  *)
(***************************************************************************)
\* What holds of one direction in every reachable state.
StreamOK(s) ==
    /\ taken[s] <= sent[s]
    /\ Len(got[s]) = first[s] - 1
    /\ \A i \in 1..Len(got[s]) : got[s][i] = i
    /\ shut[s] => eof[s] /\ taken[s] = sent[s] /\ first[s] = taken[s] + 1

\* The buffer after a byte is given: t bytes taken, f the first one in it.
LEMMA OneGiven ==
    ASSUME NEW m \in Nat, NEW p \in Nat, NEW t \in 0..m, NEW f \in 1..(m + 1),
           f <= t, t - f + 1 \in 0..p
    PROVE  f \in 1..m /\ f + 1 \in 1..(m + 1) /\ t - (f + 1) + 1 \in 0..p
BY SMTT(30)

\* What is appended comes last and leaves the others where they are.
LEMMA OneAppended ==
    ASSUME NEW S, NEW q \in Seq(S), NEW e \in S
    PROVE  /\ Len(Append(q, e)) = Len(q) + 1
           /\ \A j \in 1..Len(q) : Append(q, e)[j] = q[j]
           /\ Append(q, e)[Len(q) + 1] = e
BY SMTT(30)

\* The initial state satisfies the invariant.
LEMMA RelayInitInv ==
    ASSUME RelayConstants PROVE RelayInit => RelayInv
<1> SUFFICES ASSUME RelayInit PROVE RelayInv
    OBVIOUS
<1>1. RelayTypeOK
    BY SMTT(30) DEF RelayConstants, RelayInit, RelayTypeOK, Buffered, Phase, Mode
<1>2. \A s \in Stream : StreamOK(s)
    BY SMTT(30) DEF RelayInit, StreamOK
<1>3. \A c \in Conn : phase[c] # "done"
    BY DEF RelayInit
<1> QED
    BY <1>1, <1>2, <1>3 DEF RelayInv, StreamOK

\* A step that leaves the bytes alone and finishes no relay preserves it.
LEMMA PhaseStep ==
    ASSUME RelayInv, NEW c \in Conn, NEW p \in Phase, p # "done",
           phase' = [phase EXCEPT ![c] = p],
           cell' \in {"empty", "running", "yes", "no"},
           UNCHANGED <<mode, streamVars>>
    PROVE  RelayInv'
<1>1. RelayTypeOK'
    BY DEF RelayInv, RelayTypeOK, Buffered, streamVars
<1>2. \A s \in Stream : StreamOK(s)'
    BY DEF RelayInv, StreamOK, streamVars
<1>3. \A d \in Conn : phase'[d] = "done" => phase[d] = "done"
    BY DEF RelayInv, RelayTypeOK
<1> QED
    BY <1>1, <1>2, <1>3 DEF RelayInv, StreamOK, streamVars

\* Every step preserves the invariant.
LEMMA RelayNextInv ==
    ASSUME RelayConstants PROVE RelayInv /\ [RelayNext]_relayVars => RelayInv'
<1> SUFFICES ASSUME RelayInv, [RelayNext]_relayVars PROVE RelayInv'
    OBVIOUS
<1> USE DEF RelayConstants
<1>1. ASSUME NEW c \in Conn, Choosing(c) PROVE RelayInv'
    <2>1. cell \in {"empty", "running", "yes", "no"} /\ mode \in Mode
        BY DEF RelayInv, RelayTypeOK
    <2>2. PICK p \in Phase : p # "done" /\ phase' = [phase EXCEPT ![c] = p]
        BY <1>1, <2>1 DEF Choosing, Choose, ProbeStarts, ProbeSucceeds, ProbeFails, Ask, Decide,
              SetupSucceeds, SetupFails, Goto, Phase, Mode
    <2>3. cell' \in {"empty", "running", "yes", "no"} /\ UNCHANGED <<mode, streamVars>>
        BY <1>1, <2>1 DEF Choosing, Choose, ProbeStarts, ProbeSucceeds, ProbeFails, Ask, Decide,
              SetupSucceeds, SetupFails
    <2> QED
        BY <2>2, <2>3, PhaseStep
<1>2. ASSUME NEW c \in Conn, Error(c) PROVE RelayInv'
    <2>1. cell' \in {"empty", "running", "yes", "no"} /\ UNCHANGED <<mode, streamVars>>
        BY <1>2 DEF Error, RelayInv, RelayTypeOK
    <2>2. "failed" \in Phase /\ phase' = [phase EXCEPT ![c] = "failed"]
        BY <1>2 DEF Error, Goto, Phase
    <2> QED
        BY <2>1, <2>2, PhaseStep
<1>3. ASSUME NEW c \in Conn, Finish(c) PROVE RelayInv'
    <2>1. RelayTypeOK'
        BY <1>3 DEF Finish, Goto, Phase, RelayInv, RelayTypeOK, Buffered, streamVars
    <2>2. \A s \in Stream : StreamOK(s)'
        BY <1>3 DEF Finish, RelayInv, StreamOK, streamVars
    <2>3. \A e \in Conn : phase'[e] = "done" => \A d \in Dir : shut'[<<e, d>>]
        BY <1>3 DEF Finish, Goto, RelayInv, RelayTypeOK, streamVars
    <2> QED
        BY <2>1, <2>2, <2>3 DEF RelayInv, StreamOK
<1>4. ASSUME NEW s \in Stream, Send(s) PROVE RelayInv'
    <2>3. /\ sent \in [Stream -> 0..MaxBytes] /\ sent[s] < MaxBytes /\ ~eof[s]
          /\ sent' = [sent EXCEPT ![s] = @ + 1]
          /\ UNCHANGED <<mode, cell, phase, eof, taken, first, got, shut>>
        BY <1>4 DEF Send, RelayInv, RelayTypeOK
    <2>4. sent' \in [Stream -> 0..MaxBytes]
        BY <2>3, SMTT(30)
    <2>1. RelayTypeOK'
        <3>1. \A r \in Stream : Buffered(r)' = Buffered(r)
            BY <2>3 DEF Buffered
        <3> QED
            BY <2>3, <2>4, <3>1 DEF RelayInv, RelayTypeOK
    <2>2. ASSUME NEW r \in Stream PROVE StreamOK(r)'
        <3>1. StreamOK(r) /\ taken[r] \in Nat /\ sent[r] \in Nat
            BY <2>3, SMTT(30) DEF RelayInv, RelayTypeOK, StreamOK
        <3>2. sent'[r] = IF r = s THEN sent[r] + 1 ELSE sent[r]
            BY <2>3
        <3>3. taken[r] <= sent'[r] /\ (shut[r] => sent'[r] = sent[r])
            BY <2>3, <3>1, <3>2, SMTT(30) DEF StreamOK
        <3> QED
            BY <2>3, <3>1, <3>3 DEF StreamOK
    <2> QED
        BY <1>4, <2>1, <2>2 DEF Send, RelayInv, StreamOK
<1>5. ASSUME NEW s \in Stream, Close(s) PROVE RelayInv'
    <2>1. RelayTypeOK'
        <3>1. \A r \in Stream : Buffered(r)' = Buffered(r)
            BY <1>5 DEF Close, Buffered
        <3>2. eof' \in [Stream -> BOOLEAN]
            BY <1>5 DEF Close, RelayInv, RelayTypeOK
        <3> QED
            BY <1>5, <3>1, <3>2 DEF Close, RelayInv, RelayTypeOK
    <2>2. ASSUME NEW r \in Stream PROVE StreamOK(r)'
        <3>1. StreamOK(r) /\ (eof[r] => eof'[r])
            BY <1>5 DEF Close, RelayInv, RelayTypeOK, StreamOK
        <3> QED
            BY <1>5, <3>1 DEF Close, StreamOK
    <2> QED
        BY <1>5, <2>1, <2>2 DEF Close, RelayInv, StreamOK
<1>6. ASSUME NEW s \in Stream, Take(s) PROVE RelayInv'
    <2>3. /\ taken[s] \in Int /\ first[s] \in Int /\ sent[s] \in 0..MaxBytes
          /\ Buffered(s) \in 0..PipeSize /\ taken[s] >= 0
        BY SMTT(30) DEF RelayInv, RelayTypeOK
    <2>4. taken[s] + 1 \in 0..MaxBytes /\ taken[s] + 1 - first[s] + 1 \in 0..PipeSize
        BY <1>6, <2>3, SMTT(30) DEF Take, Buffered
    <2>5. taken' \in [Stream -> 0..MaxBytes]
        BY <1>6, <2>4 DEF Take, RelayInv, RelayTypeOK
    <2>6. \A r \in Stream : Buffered(r)' \in 0..PipeSize
        <3> SUFFICES ASSUME NEW r \in Stream PROVE taken'[r] - first'[r] + 1 \in 0..PipeSize
            BY DEF Buffered
        <3>1. first'[r] = first[r] /\ taken'[r] = IF r = s THEN taken[s] + 1 ELSE taken[r]
            BY <1>6 DEF Take, RelayInv, RelayTypeOK
        <3>2. taken[r] - first[r] + 1 \in 0..PipeSize
            BY DEF RelayInv, RelayTypeOK, Buffered
        <3>3. CASE r = s
            <4>1. taken'[r] = taken[s] + 1 /\ first'[r] = first[s]
                BY <3>1, <3>3
            <4> QED
                BY <2>3, <2>4, <4>1, SMTT(30)
        <3>4. CASE r # s
            BY <3>1, <3>2, <3>4
        <3> QED
            BY <3>3, <3>4
    <2>1. RelayTypeOK'
        BY <1>6, <2>5, <2>6 DEF Take, RelayInv, RelayTypeOK
    <2>2. ASSUME NEW r \in Stream PROVE StreamOK(r)'
        <3>1. StreamOK(r) /\ taken[r] \in Nat /\ sent[r] \in Nat
            BY SMTT(30) DEF RelayInv, RelayTypeOK, StreamOK
        <3>2. taken'[r] = IF r = s THEN taken[r] + 1 ELSE taken[r]
            BY <1>6 DEF Take, RelayInv, RelayTypeOK
        <3>3. taken'[r] <= sent[r] /\ (shut[r] => taken'[r] = taken[r])
            BY <1>6, <3>1, <3>2, SMTT(30) DEF Take, StreamOK
        <3> QED
            BY <1>6, <3>1, <3>3 DEF Take, StreamOK
    <2> QED
        BY <1>6, <2>1, <2>2 DEF Take, RelayInv, StreamOK
<1>7. ASSUME NEW s \in Stream, Give(s) PROVE RelayInv'
    <2>3. /\ taken[s] \in 0..MaxBytes /\ first[s] \in 1..(MaxBytes + 1)
          /\ first[s] <= taken[s] /\ Buffered(s) \in 0..PipeSize
          /\ got[s] \in Seq(1..MaxBytes)
        BY <1>7 DEF Give, RelayInv, RelayTypeOK
    <2>4. /\ first[s] \in 1..MaxBytes /\ first[s] + 1 \in 1..(MaxBytes + 1)
          /\ taken[s] - (first[s] + 1) + 1 \in 0..PipeSize
        <3>1. MaxBytes \in Nat /\ PipeSize \in Nat
            OBVIOUS
        <3>2. taken[s] - first[s] + 1 \in 0..PipeSize
            BY <2>3 DEF Buffered
        <3> QED
            BY <2>3, <3>1, <3>2, OneGiven
    <2>5. first' \in [Stream -> 1..(MaxBytes + 1)]
        BY <1>7, <2>4 DEF Give, RelayInv, RelayTypeOK
    <2>6. Append(got[s], first[s]) \in Seq(1..MaxBytes)
        BY <2>3, <2>4, SMTT(30)
    <2>7. got' \in [Stream -> Seq(1..MaxBytes)]
        BY <1>7, <2>6 DEF Give, RelayInv, RelayTypeOK
    <2>8. \A r \in Stream : Buffered(r)' \in 0..PipeSize
        <3> SUFFICES ASSUME NEW r \in Stream PROVE taken'[r] - first'[r] + 1 \in 0..PipeSize
            BY DEF Buffered
        <3>1. taken'[r] = taken[r] /\ first'[r] = IF r = s THEN first[s] + 1 ELSE first[r]
            BY <1>7 DEF Give, RelayInv, RelayTypeOK
        <3>2. taken[r] - first[r] + 1 \in 0..PipeSize
            BY DEF RelayInv, RelayTypeOK, Buffered
        <3>3. CASE r = s
            BY <2>4, <3>1, <3>3
        <3>4. CASE r # s
            BY <3>1, <3>2, <3>4
        <3> QED
            BY <3>3, <3>4
    <2>1. RelayTypeOK'
        BY <1>7, <2>5, <2>7, <2>8 DEF Give, RelayInv, RelayTypeOK
    <2>9. ASSUME NEW r \in Stream PROVE StreamOK(r)'
        <3>1. CASE r # s
            <4>1. StreamOK(r)
                BY DEF RelayInv, StreamOK
            <4>2. got'[r] = got[r] /\ first'[r] = first[r]
                BY <1>7, <3>1 DEF Give, RelayInv, RelayTypeOK
            <4> QED
                BY <1>7, <4>1, <4>2 DEF Give, StreamOK
        <3>2. CASE r = s
            <4>1. got'[s] = Append(got[s], first[s]) /\ first'[s] = first[s] + 1
                BY <1>7 DEF Give, RelayInv, RelayTypeOK
            <4>2. Len(got[s]) = first[s] - 1 /\ \A i \in 1..Len(got[s]) : got[s][i] = i
                BY DEF RelayInv
            <4>3. Len(Append(got[s], first[s])) = Len(got[s]) + 1
                BY <2>3, <2>4, OneAppended, SMTT(30)
            <4>4. \A i \in 1..(Len(got[s]) + 1) : Append(got[s], first[s])[i] = i
                <5> SUFFICES ASSUME NEW i \in 1..(Len(got[s]) + 1)
                             PROVE  Append(got[s], first[s])[i] = i
                    OBVIOUS
                <5>1. Len(got[s]) \in Nat /\ first[s] = Len(got[s]) + 1
                    BY <2>3, <4>2, SMTT(30)
                <5>2. /\ \A j \in 1..Len(got[s]) : Append(got[s], first[s])[j] = got[s][j]
                      /\ Append(got[s], first[s])[Len(got[s]) + 1] = first[s]
                    BY <2>3, <2>4, OneAppended, SMTT(30)
                <5>3. i \in 1..Len(got[s]) \/ i = Len(got[s]) + 1
                    BY <5>1, SMTT(30)
                <5> QED
                    BY <4>2, <5>1, <5>2, <5>3
            <4>5. ~shut[s]
                BY <2>3, SMTT(30) DEF RelayInv
            <4> QED
                <5>1. /\ taken'[s] = taken[s] /\ sent'[s] = sent[s] /\ shut'[s] = shut[s]
                      /\ taken[s] <= sent[s]
                    BY <1>7 DEF Give, RelayInv
                <5>2. Len(got'[s]) = first'[s] - 1
                    BY <2>3, <4>1, <4>2, <4>3, SMTT(30)
                <5>3. \A i \in 1..Len(got'[s]) : got'[s][i] = i
                    BY <4>1, <4>3, <4>4
                <5> QED
                    BY <3>2, <4>5, <5>1, <5>2, <5>3 DEF StreamOK
        <3> QED
            BY <3>1, <3>2
    <2>2. \A r \in Stream : StreamOK(r)'
        BY <2>9
    <2> QED
        BY <1>7, <2>1, <2>2 DEF Give, RelayInv, StreamOK
<1>8. ASSUME NEW s \in Stream, Shut(s) PROVE RelayInv'
    <2>1. RelayTypeOK'
        <3>1. \A r \in Stream : Buffered(r)' = Buffered(r)
            BY <1>8 DEF Shut, Buffered
        <3>2. shut' \in [Stream -> BOOLEAN]
            BY <1>8 DEF Shut, RelayInv, RelayTypeOK
        <3> QED
            BY <1>8, <3>1, <3>2 DEF Shut, RelayInv, RelayTypeOK
    <2>4. first[s] = taken[s] + 1
        <3>1. taken[s] \in Int /\ first[s] \in Int /\ Buffered(s) >= 0
            BY SMTT(30) DEF RelayInv, RelayTypeOK
        <3> QED
            BY <1>8, <3>1, SMTT(30) DEF Shut, Buffered
    <2>2. ASSUME NEW r \in Stream PROVE StreamOK(r)'
        <3>1. StreamOK(r)
            BY DEF RelayInv, StreamOK
        <3>2. shut'[r] => shut[r] \/ r = s
            BY <1>8 DEF Shut, RelayInv, RelayTypeOK
        <3> QED
            BY <1>8, <2>4, <3>1, <3>2 DEF Shut, StreamOK
    <2>3. \A e \in Conn, d \in Dir : shut[<<e, d>>] => shut'[<<e, d>>]
        BY <1>8 DEF Shut, RelayInv, RelayTypeOK, Stream
    <2> QED
        BY <1>8, <2>1, <2>2, <2>3 DEF Shut, RelayInv, StreamOK
<1>9. CASE UNCHANGED relayVars
    BY <1>9 DEF relayVars, RelayInv, RelayTypeOK, Buffered
<1> QED
    BY <1>1, <1>2, <1>3, <1>4, <1>5, <1>6, <1>7, <1>8, <1>9 DEF RelayNext, Copies, Idle

\* The invariant holds throughout.
THEOREM RelayInvariant ==
    ASSUME RelayConstants PROVE RelaySpec => []RelayInv
<1> QED
    BY RelayInitInv, RelayNextInv, PTL DEF RelaySpec

\* A relay that ends without an error has delivered both directions whole.
THEOREM DoneIsComplete ==
    ASSUME RelayConstants PROVE RelaySpec => []CompleteWhenDone
<1>1. RelayInv => CompleteWhenDone
    <2> SUFFICES ASSUME RelayInv, NEW c \in Conn, phase[c] = "done", NEW d \in Dir
                 PROVE  eof[<<c, d>>] /\ Len(got[<<c, d>>]) = sent[<<c, d>>]
        BY DEF CompleteWhenDone
    <2>1. <<c, d>> \in Stream /\ shut[<<c, d>>]
        BY DEF RelayInv, Stream
    <2>2. first[<<c, d>>] \in Int /\ taken[<<c, d>>] \in Int
        BY <2>1, SMTT(30) DEF RelayConstants, RelayInv, RelayTypeOK
    <2> QED
        BY <2>1, <2>2, SMTT(30) DEF RelayInv
<1> QED
    BY RelayInvariant, <1>1, PTL
-----------------------------------------------------------------------------
(***************************************************************************)
(* RoundRobin: as long as the same clients claim, they take turns.         *)
(***************************************************************************)
\* How many connections of a route with the claimants S, after a cursor at x,
\* go to others before one goes to c.
Turn(S, x, c) == IF Rank(S, c) >= x THEN Rank(S, c) - x
                 ELSE Rank(S, c) - x + Cardinality(S)

\* What next_claim_index keeps on a route: the cursor is an index of the last
\* claimants, and what a claimant missed and what it still has to wait make
\* less than a whole turn.
RouteInv(r) ==
    claimants[r] # {} =>
        /\ cursor[r] < Cardinality(claimants[r])
        /\ \A c \in claimants[r] :
              missed[r][c] + Turn(claimants[r], cursor[r], c) < Cardinality(claimants[r])

RRInv ==
    /\ cursor \in [Route -> Nat]
    /\ claimants \in [Route -> SUBSET Client]
    /\ missed \in [Route -> [Client -> Nat]]
    /\ \A r \in Route : RouteInv(r)
-----------------------------------------------------------------------------
\* A number is a multiple of n and its remainder.
LEMMA Division ==
    ASSUME NEW n \in Nat \ {0}, NEW a \in Nat
    PROVE  a % n \in 0..(n - 1) /\ a \div n \in Int /\ a = n * (a \div n) + (a % n)
<1>1. a % n \in 0..(n - 1)
  BY SMTT(30)
<1>2. a \div n \in Int
  BY SMTT(30)
<1>3. a = n * (a \div n) + (a % n)
  BY SMTT(30)
<1> QED
  BY <1>1, <1>2, <1>3

\* The remainder of a multiple of n and a number below n is that number.
LEMMA Remainder ==
    ASSUME NEW n \in Nat \ {0}, NEW q \in Int, NEW x \in 0..(n - 1)
    PROVE  (n * q + x) % n = x
BY SMTT(30)

\* The cursor goes to the index after the one it chose, and from the last
\* index back to the first (next_claim_index).
LEMMA NextIndex ==
    ASSUME NEW n \in Nat \ {0}, NEW a \in Nat
    PROVE  (a + 1) % n = IF (a % n) + 1 = n THEN 0 ELSE (a % n) + 1
<1> DEFINE q == a \div n
           x == a % n
<1>1. x \in 0..(n - 1) /\ q \in Int /\ a = n * q + x
  BY Division
<1> HIDE DEF q, x
<1>2. CASE x + 1 = n
  <2>1. a + 1 = n * (q + 1) + 0
    BY <1>1, <1>2, SMTT(30)
  <2>2. (n * (q + 1) + 0) % n = 0
    BY <1>1, Remainder, SMTT(30)
  <2> QED
    BY <2>1, <2>2, <1>2 DEF x
<1>3. CASE x + 1 # n
  <2>1. a + 1 = n * q + (x + 1) /\ x + 1 \in 0..(n - 1)
    BY <1>1, <1>3, SMTT(30)
  <2>2. (n * q + (x + 1)) % n = x + 1
    BY <1>1, <2>1, Remainder
  <2> QED
    BY <2>1, <2>2, <1>3 DEF x
<1> QED
  BY <1>2, <1>3
-----------------------------------------------------------------------------
INSTANCE FiniteSetTheorems

\* A claimant has an index in the sorted claims (Rank).
LEMMA RankIndex ==
    ASSUME NEW S \in SUBSET Client, NEW c \in S
    PROVE  /\ Cardinality(S) \in Nat \ {0}
           /\ Rank(S, c) \in 0..(Cardinality(S) - 1)
<1> DEFINE B == {d \in S : d < c}
<1>1. IsFiniteSet(S)
  BY FS_Subset, RoundRobinAssumption
<1>2. IsFiniteSet(S \ {c}) /\ Cardinality(S \ {c}) = Cardinality(S) - 1
  BY <1>1, FS_RemoveElement
<1>3. B \in SUBSET (S \ {c})
  BY RoundRobinAssumption, SMTT(30)
<1>4. IsFiniteSet(B) /\ Cardinality(B) <= Cardinality(S \ {c})
  BY <1>2, <1>3, FS_Subset
<1>5. Cardinality(B) \in Nat /\ Cardinality(S) \in Nat
  BY <1>1, <1>4, FS_CardinalityType
<1> QED
  BY <1>2, <1>4, <1>5, SMTT(30) DEF Rank

\* Two claimants have different indices: the ids are totally ordered.
LEMMA RankDistinct ==
    ASSUME NEW S \in SUBSET Client, NEW c \in S, NEW d \in S, c < d
    PROVE  Rank(S, c) # Rank(S, d)
<1> DEFINE B(e) == {f \in S : f < e}
<1>1. IsFiniteSet(S)
  BY FS_Subset, RoundRobinAssumption
<1>2. B(d) \in SUBSET S
  OBVIOUS
<1>3. IsFiniteSet(B(d))
  BY <1>1, <1>2, FS_Subset
<1>4. B(c) \in SUBSET B(d) /\ c \in B(d) /\ c \notin B(c)
  <2>1. c \in Nat /\ d \in Nat /\ S \subseteq Nat
    BY RoundRobinAssumption
  <2>2. \A f \in S : f < c => f < d
    BY <2>1, SMTT(30)
  <2>3. ~(c < c)
    BY <2>1, SMTT(30)
  <2> QED
    BY <2>2, <2>3
<1>5. Cardinality(B(d)) = Cardinality(B(c)) => B(d) = B(c)
  BY <1>3, <1>4, FS_Subset
<1> QED
  BY <1>4, <1>5 DEF Rank

\* A decision (next_claim_index) brings every claimant but the winner one
\* connection closer to its turn, and the winner goes to the back.
LEMMA TurnMoves ==
    ASSUME NEW S \in SUBSET Client, NEW a \in Nat, NEW w \in Client, Selected(S, a, w)
    PROVE  /\ Advanced(S, a) \in Nat /\ Advanced(S, a) < Cardinality(S)
           /\ Turn(S, Advanced(S, a), w) = Cardinality(S) - 1
           /\ \A c \in S \ {w} :
                 /\ Turn(S, a % Cardinality(S), c) \in 1..(Cardinality(S) - 1)
                 /\ Turn(S, Advanced(S, a), c) = Turn(S, a % Cardinality(S), c) - 1
<1> DEFINE n == Cardinality(S)
           x == a % n
           y == Advanced(S, a)
<1>1. w \in S /\ n \in Nat \ {0} /\ Rank(S, w) = x
  BY RankIndex DEF Selected
<1>2. x \in 0..(n - 1) /\ y = IF x + 1 = n THEN 0 ELSE x + 1
  BY <1>1, Division, NextIndex DEF Advanced
<1> HIDE DEF n, x, y
<1>3. Turn(S, y, w) = n - 1
  BY <1>1, <1>2, SMTT(30) DEF Turn, n
<1>4. ASSUME NEW c \in S \ {w}
      PROVE  Turn(S, x, c) \in 1..(n - 1) /\ Turn(S, y, c) = Turn(S, x, c) - 1
  <2>1. Rank(S, c) # x
    BY <1>1, RankDistinct, RoundRobinAssumption, SMTT(30)
  <2>2. Rank(S, c) \in 0..(n - 1)
    BY RankIndex DEF n
  <2> QED
    BY <1>1, <1>2, <2>1, <2>2, SMTT(30) DEF Turn, n
<1> QED
  BY <1>2, <1>3, <1>4, <1>1, SMTT(30) DEF n, x, y

\* A decision keeps the invariant of its route, whether the claimants are
\* those of the connection before or others.
LEMMA SelectKeeps ==
    ASSUME RRInv, NEW r \in Route, NEW S \in (SUBSET Client) \ {{}}, SelectClaim(r, S)
    PROVE  RRInv'
<1>1. PICK w \in Client :
         /\ Selected(S, cursor[r], w)
         /\ missed' = [missed EXCEPT ![r] =
                          Tally(IF S = claimants[r] THEN @ ELSE Never, S, w)]
  BY DEF SelectClaim
<1> DEFINE n == Cardinality(S)
           a == cursor[r]
           old == IF S = claimants[r] THEN missed[r] ELSE Never
<1>2. cursor' = [cursor EXCEPT ![r] = Advanced(S, @)] /\ claimants' = [claimants EXCEPT ![r] = S]
  BY DEF SelectClaim
<1>3. a \in Nat /\ old \in [Client -> Nat]
  BY DEF RRInv, Never
<1>4. n \in Nat \ {0} /\ w \in S
  BY <1>1, RankIndex DEF Selected
<1>5. /\ Advanced(S, a) \in Nat /\ Advanced(S, a) < n
      /\ Turn(S, Advanced(S, a), w) = n - 1
      /\ \A c \in S \ {w} : /\ Turn(S, a % n, c) \in 1..(n - 1)
                            /\ Turn(S, Advanced(S, a), c) = Turn(S, a % n, c) - 1
  BY <1>1, <1>3, TurnMoves
<1>6. /\ Tally(old, S, w) \in [Client -> Nat]
      /\ Tally(old, S, w)[w] = 0
      /\ \A c \in S \ {w} : Tally(old, S, w)[c] <= old[c] + 1
  BY <1>3, RoundRobinAssumption, SMTT(30) DEF Tally, Count
<1>7. \A c \in S \ {w} : old[c] + Turn(S, a % n, c) < n
  <2> SUFFICES ASSUME NEW c \in S \ {w} PROVE old[c] + Turn(S, a % n, c) < n
    OBVIOUS
  <2>1. CASE S = claimants[r]
    <3>1. a < n /\ missed[r][c] + Turn(S, a, c) < n
      BY <2>1 DEF RRInv, RouteInv
    <3>2. a % n = a
      BY <1>3, <1>4, <3>1, SMTT(30)
    <3> QED
      BY <2>1, <3>1, <3>2
  <2>2. CASE S # claimants[r]
    BY <2>2, <1>4, <1>5, SMTT(30) DEF Never
  <2> QED
    BY <2>1, <2>2
<1> HIDE DEF n, a, old
<1>8. cursor'[r] = Advanced(S, a) /\ claimants'[r] = S /\ missed'[r] = Tally(old, S, w)
  BY <1>1, <1>2 DEF RRInv, a, old
<1>9. RouteInv(r)'
  <2>1. ASSUME NEW c \in S PROVE missed'[r][c] + Turn(S, cursor'[r], c) < n
    <3>1. CASE c = w
      BY <1>4, <1>5, <1>6, <1>8, <3>1, SMTT(30)
    <3>2. CASE c # w
      BY <1>3, <1>4, <1>5, <1>6, <1>7, <1>8, <3>2, SMTT(30)
    <3> QED
      BY <3>1, <3>2
  <2>2. \A c \in S : Turn(S, cursor[r], c)' = Turn(S, cursor'[r], c)
    BY DEF Turn, Rank
  <2> QED
    BY <1>5, <1>8, <2>1 DEF RouteInv, n, Turn, Rank
<1>10. ASSUME NEW o \in Route, o # r PROVE RouteInv(o)'
  <2>1. cursor'[o] = cursor[o] /\ claimants'[o] = claimants[o] /\ missed'[o] = missed[o]
    BY <1>1, <1>2, <1>10 DEF RRInv
  <2>2. RouteInv(o)
    BY DEF RRInv
  <2> QED
    BY <2>1, <2>2 DEF RouteInv, Turn, Rank
<1>11. cursor' \in [Route -> Nat] /\ claimants' \in [Route -> SUBSET Client]
       /\ missed' \in [Route -> [Client -> Nat]]
  BY <1>1, <1>2, <1>5, <1>6 DEF RRInv, a, old
<1> QED
  BY <1>9, <1>10, <1>11 DEF RRInv

\* For any routes, any finite set of clients and any claimants in any
\* connection: a client that keeps claiming a route together with the same
\* n - 1 others is never passed over n times in a row.
THEOREM RotationIsFair == RRSpec => []StableRotation
<1>1. RRInit => RRInv
  BY SMTT(30) DEF RRInit, RRInv, RouteInv, Never
<1>2. RRInv /\ [RRNext]_rrVars => RRInv'
  <2> SUFFICES ASSUME RRInv, [RRNext]_rrVars PROVE RRInv'
    OBVIOUS
  <2>1. CASE UNCHANGED rrVars
    BY <2>1 DEF rrVars, RRInv, RouteInv, Turn, Rank
  <2>2. CASE RRNext
    BY <2>2, SelectKeeps DEF RRNext
  <2> QED
    BY <2>1, <2>2
<1>3. RRInv => StableRotation
  <2> SUFFICES ASSUME RRInv, NEW r \in Route, NEW c \in claimants[r]
               PROVE  missed[r][c] < Cardinality(claimants[r])
    BY DEF StableRotation
  <2>1. /\ claimants[r] \in SUBSET Client /\ cursor[r] \in Nat /\ missed[r][c] \in Nat
        /\ cursor[r] < Cardinality(claimants[r])
        /\ missed[r][c] + Turn(claimants[r], cursor[r], c) < Cardinality(claimants[r])
    BY DEF RRInv, RouteInv
  <2>2. Rank(claimants[r], c) \in Nat /\ Cardinality(claimants[r]) \in Nat
    BY <2>1, RankIndex, SMTT(30)
  <2> QED
    BY <2>1, <2>2, SMTT(30) DEF Turn
<1> QED
  BY <1>1, <1>2, <1>3, PTL DEF RRSpec
=============================================================================
