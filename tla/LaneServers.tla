---------------------------- MODULE LaneServers -----------------------------
(***************************************************************************)
(* What the lanes of the command queue promise: each is a first-come-      *)
(* first-served server with a capacity that may be resized at any time.    *)
(* Whatever happens to a lane, afterwards as many waiting calls have been  *)
(* taken in, from the front, as its capacity allows.  How a lane finds out *)
(* is not said here; CommandQueue shows that the pump does it.             *)
(***************************************************************************)
EXTENDS Integers, Sequences, FiniteSets

CONSTANTS Lanes, Calls

VARIABLES
  waiting,   \* lane -> calls in line, in order
  working,   \* lane -> calls being served
  capacity   \* lane -> how many may be served at a time

vars == <<waiting, working, capacity>>

Init ==
  /\ waiting = [l \in Lanes |-> <<>>]
  /\ working = [l \in Lanes |-> {}]
  /\ capacity = [l \in Lanes |-> 1]

\* Lane l takes in some calls from the front of `line` while `busy` are being
\* served: never beyond the capacity c, never leaving a free place and a line.
Admit(l, line, busy, c) ==
  \E n \in 0..Len(line) :
    /\ waiting'[l] = SubSeq(line, n + 1, Len(line))
    /\ working'[l] = busy \cup {line[i] : i \in 1..n}
    /\ capacity'[l] = c
    /\ n > 0 => Cardinality(working'[l]) <= c
    /\ n < Len(line) => Cardinality(working'[l]) >= c

Arrive(l, t) == Admit(l, Append(waiting[l], t), working[l], capacity[l])
Leave(l, t) == t \in working[l] /\ Admit(l, waiting[l], working[l] \ {t}, capacity[l])
Resize(l) == capacity'[l] \in Nat \ {0} /\ Admit(l, waiting[l], working[l], capacity'[l])
Restart(l) == Admit(l, waiting[l], {}, capacity[l])  \* those served are let go
Flush(l) ==
  /\ waiting'[l] = <<>>
  /\ working'[l] = working[l]
  /\ capacity'[l] = capacity[l]
Idle(l) ==
  /\ waiting'[l] = waiting[l]
  /\ working'[l] = working[l]
  /\ capacity'[l] = capacity[l]

\* Each lane makes one of these steps, or none.
LaneStep(l) ==
  \/ \E t \in Calls : Arrive(l, t) \/ Leave(l, t)
  \/ Resize(l)
  \/ Restart(l)
  \/ Flush(l)
  \/ Idle(l)

Next ==
  /\ DOMAIN waiting' = Lanes /\ DOMAIN working' = Lanes /\ DOMAIN capacity' = Lanes
  /\ \A l \in Lanes : LaneStep(l)

Spec == Init /\ [][Next]_vars
=============================================================================
