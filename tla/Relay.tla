------------------------------- MODULE Relay -------------------------------
(***************************************************************************)
(* The byte relay between two sockets (shared/src/io.rs) that ends every   *)
(* tunnel, at the ingress and at the client: the choice of implementation, *)
(* with the splice probe all connections of a process share, and the two   *)
(* directions of each connection with their half-closes.                   *)
(*                                                                         *)
(* Bytes of a direction are numbered in the order they are sent.  Copying  *)
(* is the libraries' (tokio, tokio-splice2): a byte is taken from one      *)
(* socket into a buffer or pipe and given to the other; an error may       *)
(* strike between the two.                                                 *)
(***************************************************************************)
EXTENDS Integers, Sequences

CONSTANTS
    Conn,        \* connections of one process
    MaxBytes,    \* bound on the bytes of a direction
    PipeSize     \* what a buffer or pipe holds

\* What the theorems assume of the constants.
RelayConstants ==
    /\ MaxBytes \in Nat
    /\ PipeSize \in Nat \ {0}

Dir == {"up", "down"}
Stream == Conn \X Dir

VARIABLES
    mode,      \* relay_mode, from the configuration
    cell,      \* SPLICE_RELAY_SUPPORTED
    phase,     \* how far a connection is
    sent,      \* bytes the sender of a direction has written
    eof,       \* directions whose sender has closed
    taken,     \* bytes the relay has read
    first,     \* the first byte in the buffer
    got,       \* what the receiver of a direction has read
    shut       \* directions whose end the relay has passed on

relayVars == <<mode, cell, phase, sent, eof, taken, first, got, shut>>
streamVars == <<sent, eof, taken, first, got, shut>>

Mode == {"auto", "splice", "buffered"}
Phase == {"new", "asking", "probing", "asked", "setup", "splice", "buffered", "done", "failed"}
Copying(c) == phase[c] \in {"splice", "buffered"}
Buffered(s) == taken[s] - first[s] + 1

RelayInit ==
    /\ mode \in Mode
    /\ cell = "empty"
    /\ phase = [c \in Conn |-> "new"]
    /\ sent = [s \in Stream |-> 0]
    /\ eof = [s \in Stream |-> FALSE]
    /\ taken = [s \in Stream |-> 0]
    /\ first = [s \in Stream |-> 1]
    /\ got = [s \in Stream |-> <<>>]
    /\ shut = [s \in Stream |-> FALSE]

Goto(c, where) == phase' = [phase EXCEPT ![c] = where]
-----------------------------------------------------------------------------
(***************************************************************************)
(* Choosing an implementation.                                             *)
(***************************************************************************)
Choose(c) ==
    /\ phase[c] = "new"
    /\ Goto(c, CASE mode = "buffered" -> "buffered"
                 [] mode = "splice"   -> "setup"
                 [] mode = "auto"     -> "asking")
    /\ UNCHANGED <<mode, cell, streamVars>>

\* get_or_init: the first to ask probes, the others wait for its verdict.
ProbeStarts(c) ==
    /\ phase[c] = "asking"
    /\ cell = "empty"
    /\ cell' = "running"
    /\ Goto(c, "probing")
    /\ UNCHANGED <<mode, streamVars>>

ProbeSucceeds(c) ==
    /\ phase[c] = "probing"
    /\ cell' = "yes"
    /\ Goto(c, "asked")
    /\ UNCHANGED <<mode, streamVars>>

\* The probe fails, or its two seconds run out.
ProbeFails(c) ==
    /\ phase[c] = "probing"
    /\ cell' = "no"
    /\ Goto(c, "asked")
    /\ UNCHANGED <<mode, streamVars>>

Ask(c) ==
    /\ phase[c] = "asking"
    /\ cell \in {"yes", "no"}
    /\ Goto(c, "asked")
    /\ UNCHANGED <<mode, cell, streamVars>>

Decide(c) ==
    /\ phase[c] = "asked"
    /\ Goto(c, IF cell = "yes" THEN "setup" ELSE "buffered")
    /\ UNCHANGED <<mode, cell, streamVars>>

SetupSucceeds(c) ==
    /\ phase[c] = "setup"
    /\ Goto(c, "splice")
    /\ UNCHANGED <<mode, cell, streamVars>>

\* Pipes cannot be created: only the automatic mode has a second choice.
SetupFails(c) ==
    /\ phase[c] = "setup"
    /\ Goto(c, IF mode = "auto" THEN "buffered" ELSE "failed")
    /\ UNCHANGED <<mode, cell, streamVars>>
-----------------------------------------------------------------------------
(***************************************************************************)
(* Copying.                                                                *)
(***************************************************************************)
Send(s) ==
    /\ sent[s] < MaxBytes
    /\ ~eof[s]
    /\ sent' = [sent EXCEPT ![s] = @ + 1]
    /\ UNCHANGED <<mode, cell, phase, eof, taken, first, got, shut>>

Close(s) ==
    /\ ~eof[s]
    /\ eof' = [eof EXCEPT ![s] = TRUE]
    /\ UNCHANGED <<mode, cell, phase, sent, taken, first, got, shut>>

Take(s) ==
    /\ Copying(s[1])
    /\ taken[s] < sent[s]
    /\ Buffered(s) < PipeSize
    /\ taken' = [taken EXCEPT ![s] = @ + 1]
    /\ UNCHANGED <<mode, cell, phase, sent, eof, first, got, shut>>

Give(s) ==
    /\ Copying(s[1])
    /\ first[s] <= taken[s]
    /\ got' = [got EXCEPT ![s] = Append(@, first[s])]
    /\ first' = [first EXCEPT ![s] = @ + 1]
    /\ UNCHANGED <<mode, cell, phase, sent, eof, taken, shut>>

\* The end of one direction is passed on; the other goes on.
Shut(s) ==
    /\ Copying(s[1])
    /\ eof[s] /\ ~shut[s]
    /\ taken[s] = sent[s]
    /\ first[s] > taken[s]
    /\ shut' = [shut EXCEPT ![s] = TRUE]
    /\ UNCHANGED <<mode, cell, phase, sent, eof, taken, first, got>>

Finish(c) ==
    /\ Copying(c)
    /\ \A d \in Dir : shut[<<c, d>>]
    /\ Goto(c, "done")
    /\ UNCHANGED <<mode, cell, streamVars>>

\* An error while copying is returned, whatever the mode.
Error(c) ==
    /\ Copying(c)
    /\ Goto(c, "failed")
    /\ UNCHANGED <<mode, cell, streamVars>>
-----------------------------------------------------------------------------
Choosing(c) ==
    \/ Choose(c) \/ ProbeStarts(c) \/ ProbeSucceeds(c) \/ ProbeFails(c) \/ Ask(c)
    \/ Decide(c) \/ SetupSucceeds(c) \/ SetupFails(c)

Copies(s) == Take(s) \/ Give(s) \/ Shut(s)

Idle == (\A c \in Conn : phase[c] \in {"done", "failed"}) /\ UNCHANGED relayVars

RelayNext ==
    \/ \E c \in Conn : Choosing(c) \/ Finish(c) \/ Error(c)
    \/ \E s \in Stream : Send(s) \/ Close(s) \/ Copies(s)
    \/ Idle

RelaySpec == RelayInit /\ [][RelayNext]_relayVars

\* The runtime polls every task; the probe has a time-out; receivers read.
RelayFairSpec ==
    /\ RelaySpec
    /\ \A c \in Conn : WF_relayVars(Choosing(c)) /\ WF_relayVars(Finish(c))
    /\ \A s \in Stream : WF_relayVars(Copies(s))
-----------------------------------------------------------------------------
(***************************************************************************)
(* Properties.                                                             *)
(***************************************************************************)
\* The type invariant, with the capacity of the buffers.
RelayTypeOK ==
    /\ mode \in Mode
    /\ cell \in {"empty", "running", "yes", "no"}
    /\ phase \in [Conn -> Phase]
    /\ sent \in [Stream -> 0..MaxBytes]
    /\ eof \in [Stream -> BOOLEAN] /\ shut \in [Stream -> BOOLEAN]
    /\ taken \in [Stream -> 0..MaxBytes]
    /\ first \in [Stream -> 1..(MaxBytes + 1)]
    /\ got \in [Stream -> Seq(1..MaxBytes)]
    /\ \A s \in Stream : Buffered(s) \in 0..PipeSize

\* A relay that ends without an error has delivered both directions
\* completely: the close of one direction does not cut off the other.
CompleteWhenDone ==
    \A c \in Conn : phase[c] = "done" =>
        \A d \in Dir : eof[<<c, d>>] /\ Len(got[<<c, d>>]) = sent[<<c, d>>]

\* The inductive invariant: the bytes a relay has taken are those it has
\* given and those in its buffer, the end of a direction is passed on after
\* its last byte, and a relay is done when both ends are passed on.
RelayInv ==
    /\ RelayTypeOK
    /\ \A s \in Stream :
          /\ taken[s] <= sent[s]
          /\ Len(got[s]) = first[s] - 1
          /\ \A i \in 1..Len(got[s]) : got[s][i] = i
          /\ shut[s] => eof[s] /\ taken[s] = sent[s] /\ first[s] = taken[s] + 1
    /\ \A c \in Conn : phase[c] = "done" => \A d \in Dir : shut[<<c, d>>]

\* When both peers have closed, the relay ends, also for the connections
\* that waited for another one's probe.
RelayEnds ==
    \A c \in Conn : (\A d \in Dir : eof[<<c, d>>]) ~> phase[c] \in {"done", "failed"}
=============================================================================
