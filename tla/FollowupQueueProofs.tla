------------------------ MODULE FollowupQueueProofs ------------------------
(***************************************************************************)
(* Safety of the followup queue for every set of messages, routes,         *)
(* settings and queue objects.                                             *)
(*                                                                         *)
(* A message is appended to one queue object, once (`accepted` and the     *)
(* dedupe cache say so), behind everything accepted before it.  While a    *)
(* turn is awaited the queue changes under it, but only by losing items at *)
(* the front and gaining new ones at the back, so that what is left of the *)
(* turn's messages is always among the items its end removes.  Without an  *)
(* overflow nothing is lost at the front, and its end removes no more.     *)
(***************************************************************************)
EXTENDS FollowupQueue, TLAPS

\* The records queue objects are.
QueueRecords ==
  [items : Seq(Messages), dropped : SUBSET Messages,
   lastRun : BOOLEAN, draining : BOOLEAN,
   mode : {s.mode : s \in Settings}, cap : Nat \ {0},
   dropPolicy : {s.dropPolicy : s \in Settings},
   step : {"none", "debounce", "item", "collect", "summary"},
   turn : Seq(Messages), noted : SUBSET Messages, forced : BOOLEAN]

\* The fields of one queue object fit together: a prompt exists only in a turn.
Fit(r) ==
  /\ r.draining <=> r.step # "none"
  /\ ~InTurn(r) => r.turn = <<>>
  /\ r.step = "item" => Len(r.turn) = 1
  /\ r.step = "summary" => r.turn = <<>>

\* Every queue object but the registered one is empty and at rest.
Alone(qs, reg) ==
  \A p \in Queues \ {reg} : ~qs[p].draining /\ ~Work(qs[p])

\* s has m before n.
Earlier(s, m, n) == \E i, j \in 1..Len(s) : i < j /\ s[i] = m /\ s[j] = n

Held(p) == Elems(queues[p].items) \cup Elems(queues[p].turn)

TypeInv ==
  /\ queues \in [Queues -> QueueRecords]
  /\ registered \in Queues \cup {None}
  /\ agentRun \in {"active", "ended", "none"}
  /\ accepted \in Seq(Messages)
  /\ handed \cup ran \cup announced \cup cleared \cup recent \subseteq Messages
  /\ overflowed \in BOOLEAN /\ clearedMidDrain \in BOOLEAN
  /\ \A q \in Queues : Fit(queues[q])

\* A message is accepted once and held by one queue object; only accepted ones run.
OneHolder ==
  /\ ran \subseteq Elems(accepted) /\ Elems(accepted) \subseteq recent
  /\ \A i, j \in 1..Len(accepted) : accepted[i] = accepted[j] => i = j
  /\ \A q \in Queues : Held(q) \subseteq Elems(accepted)
  /\ \A p, q \in Queues : p # q => Held(p) \cap Held(q) = {}

\* A queue holds its items in the order they were accepted.
ItemsInOrder ==
  \A q \in Queues : \A i, j \in 1..Len(queues[q].items) :
    i < j => Earlier(accepted, queues[q].items[i], queues[q].items[j])

\* What waits or is in a turn was not run yet, and the end of a turn removes
\* whatever of it is still in the queue.
RunsOnce ==
  \A q \in Queues :
    /\ Held(q) \cap ran = {}
    /\ InTurn(queues[q]) =>
         \A j \in 1..Len(queues[q].items) :
           queues[q].items[j] \in Elems(queues[q].turn) => j <= Used(queues[q])

\* Without an overflow the end of a turn removes nothing else.
RemovesItsTurn ==
  overflowed \/
  \A q \in Queues :
    /\ queues[q].dropped = {} /\ queues[q].step # "summary"
    /\ InTurn(queues[q]) =>
         /\ \A j \in 1..Len(queues[q].items) :
              j <= Used(queues[q]) => queues[q].items[j] \in Elems(queues[q].turn)
         /\ q = registered => Used(queues[q]) <= Len(queues[q].items)

\* Unless a queue was cleared under its loop there is one live queue, and what no
\* turn held yet came after everything handed out.
FreshAreLater ==
  /\ handed \subseteq Elems(accepted)
  /\ clearedMidDrain \/
       /\ Alone(queues, registered)
       /\ \A q \in Queues : \A j \in 1..Len(queues[q].items) :
            queues[q].items[j] \notin handed =>
              \A n \in handed : Earlier(accepted, n, queues[q].items[j])

FollowupInv ==
  /\ TypeInv /\ OneHolder /\ ItemsInOrder /\ RunsOnce /\ RemovesItsTurn
  /\ OnlyOverflowLoses /\ FreshAreLater
-----------------------------------------------------------------------------
(* What the helpers of the model do. *)

\* s is r with its items, and with its turn or without one.
Follows(r, s) ==
  /\ s.items = r.items /\ s.dropped = r.dropped
  /\ \/ s.turn = r.turn /\ s.step = r.step
     \/ s.turn = <<>> /\ ~InTurn(s)

\* A queue object not in use is empty and at rest.
LEMMA BlankRecord ==
  /\ Blank \in QueueRecords /\ Fit(Blank)
  /\ Blank.items = <<>> /\ Blank.dropped = {} /\ Blank.turn = <<>>
  /\ ~Blank.draining /\ ~InTurn(Blank) /\ ~Work(Blank) /\ Blank.step = "none"
<1> DEFINE s == CHOOSE s \in Settings : TRUE
<1>1. s \in Settings /\ s.cap \in Nat \ {0}
  BY SettingsAssumption
<1> HIDE DEF s
<1>2. Blank = NewQueue(s)
  BY DEF Blank, s
<1> QED
  BY <1>1, <1>2 DEF NewQueue, QueueRecords, Fit, InTurn, Work

\* The record of a new queue is one a queue object can have.
LEMMA NewRecord ==
  ASSUME NEW s \in Settings
  PROVE  /\ NewQueue(s) \in QueueRecords /\ Fit(NewQueue(s))
         /\ NewQueue(s).items = <<>> /\ NewQueue(s).dropped = {}
         /\ NewQueue(s).turn = <<>> /\ NewQueue(s).step = "none"
         /\ NewQueue(s).cap = s.cap /\ ~NewQueue(s).draining
BY SettingsAssumption DEF NewQueue, QueueRecords, Fit, InTurn

\* scheduleFollowupDrain changes nothing a queue holds.
LEMMA ScheduleFollows ==
  ASSUME NEW qs \in [Queues -> QueueRecords], NEW reg \in Queues \cup {None},
         \A p \in Queues : Fit(qs[p])
  PROVE  LET r == Schedule(qs, reg) IN
           /\ r = <<r[1], r[2]>>
           /\ r[1] \in [Queues -> QueueRecords] /\ r[2] \in {reg, None}
           /\ \A p \in Queues : Fit(r[1][p]) /\ Follows(qs[p], r[1][p])
           /\ Alone(qs, reg) => Alone(r[1], r[2])
<1>1. CASE reg = None \/ qs[reg].draining
  BY <1>1 DEF Schedule, Follows
<1>2. ASSUME reg # None, ~qs[reg].draining, Work(qs[reg])
      PROVE  LET r == <<[qs EXCEPT ![reg].draining = TRUE, ![reg].step = "debounce",
                                   ![reg].forced = FALSE], reg>> IN
           /\ r[1] \in [Queues -> QueueRecords]
           /\ \A p \in Queues : Fit(r[1][p]) /\ Follows(qs[p], r[1][p])
           /\ Alone(qs, reg) => Alone(r[1], r[2])
  <2> DEFINE t == [qs[reg] EXCEPT !.draining = TRUE, !.step = "debounce",
                                  !.forced = FALSE]
             r1 == [qs EXCEPT ![reg] = t]
  <2>1. reg \in Queues /\ qs[reg] \in QueueRecords /\ Fit(qs[reg])
    BY <1>2
  <2>2. t \in QueueRecords /\ Fit(t) /\ Follows(qs[reg], t)
    BY <1>2, <2>1 DEF QueueRecords, Fit, Follows, InTurn
  <2>3. r1 = [qs EXCEPT ![reg].draining = TRUE, ![reg].step = "debounce",
                        ![reg].forced = FALSE]
    BY <2>1 DEF QueueRecords
  <2> HIDE DEF t
  <2>4. /\ r1 \in [Queues -> QueueRecords]
        /\ \A p \in Queues : Fit(r1[p]) /\ Follows(qs[p], r1[p])
        /\ Alone(qs, reg) => Alone(r1, reg)
    BY <2>1, <2>2 DEF Alone, Follows
  <2> QED
    BY <2>3, <2>4
<1>3. CASE reg # None /\ ~qs[reg].draining /\ ~Work(qs[reg])
  <2> DEFINE r1 == [qs EXCEPT ![reg] = Blank]
  <2>1. Schedule(qs, reg) = <<r1, None>>
    BY <1>3 DEF Schedule
  <2>2. Follows(qs[reg], Blank)
    BY <1>3, BlankRecord DEF Follows, Work
  <2>3. r1 \in [Queues -> QueueRecords]
    BY BlankRecord
  <2>4. \A p \in Queues : Fit(r1[p]) /\ Follows(qs[p], r1[p])
    BY <2>2, BlankRecord DEF Follows
  <2>5. Alone(qs, reg) => Alone(r1, None)
    BY BlankRecord DEF Alone
  <2> QED
    BY <2>1, <2>3, <2>4, <2>5
<1> QED
  <2>1. CASE reg # None /\ ~qs[reg].draining /\ Work(qs[reg])
    BY <1>2, <2>1 DEF Schedule
  <2> QED
    BY <1>1, <1>3, <2>1

\* Nor does the end of a loop, which lets go of its turn ...
LEMMA EndDrainFollows ==
  ASSUME NEW qs \in [Queues -> QueueRecords], NEW reg \in Queues \cup {None},
         \A p \in Queues : Fit(qs[p]), NEW q \in Queues, qs[q].draining
  PROVE  LET r == EndDrain(qs, reg, q) IN
           /\ r = <<r[1], r[2]>>
           /\ r[1] \in [Queues -> QueueRecords] /\ r[2] \in {reg, None}
           /\ \A p \in Queues : Fit(r[1][p]) /\ Follows(qs[p], r[1][p])
           /\ r[1][q].turn = <<>> /\ ~InTurn(r[1][q])
           /\ Alone(qs, reg) => Alone(r[1], r[2])
<1> DEFINE t == [qs[q] EXCEPT !.draining = FALSE, !.step = "none",
                              !.turn = <<>>, !.noted = {}]
           idle == [qs EXCEPT ![q] = t]
<1>1. idle = [qs EXCEPT ![q].draining = FALSE, ![q].step = "none",
                        ![q].turn = <<>>, ![q].noted = {}]
  BY DEF QueueRecords
<1>2. t \in QueueRecords /\ Fit(t) /\ Follows(qs[q], t) /\ t.turn = <<>>
      /\ ~t.draining
  <2>1. t \in QueueRecords /\ t.turn = <<>> /\ ~t.draining /\ t.step = "none"
        /\ t.items = qs[q].items /\ t.dropped = qs[q].dropped
    <3>1. <<>> \in Seq(Messages) /\ {} \in SUBSET Messages
      OBVIOUS
    <3>2. qs[q] \in QueueRecords
      OBVIOUS
    <3> QED
      BY <3>1, <3>2 DEF QueueRecords
  <2> QED
    BY <2>1 DEF Fit, Follows, InTurn
<1> HIDE DEF t
<1>3. /\ idle \in [Queues -> QueueRecords] /\ idle[q] = t
      /\ \A p \in Queues : Fit(idle[p]) /\ Follows(qs[p], idle[p])
      /\ Alone(qs, reg) => Alone(idle, reg) /\ reg = q
  BY <1>2 DEF Alone, Follows
<1>4. CASE Work(qs[q])
  <2> DEFINE r == Schedule(idle, reg)
  <2>1. EndDrain(qs, reg, q) = r
    BY <1>1, <1>4 DEF EndDrain
  <2> HIDE DEF idle
  <2>2. /\ r = <<r[1], r[2]>>
        /\ r[1] \in [Queues -> QueueRecords] /\ r[2] \in {reg, None}
        /\ \A p \in Queues : Fit(r[1][p]) /\ Follows(idle[p], r[1][p])
        /\ Alone(idle, reg) => Alone(r[1], r[2])
    BY <1>3, ScheduleFollows
  <2> HIDE DEF r
  <2>3. \A p \in Queues : Follows(qs[p], r[1][p])
    BY <1>3, <2>2 DEF Follows, InTurn
  <2>4. r[1][q].turn = <<>> /\ ~InTurn(r[1][q])
    <3>1. Follows(t, r[1][q]) /\ Fit(t)
      BY <1>2, <1>3, <2>2
    <3> QED
      BY <1>2, <3>1 DEF Follows, Fit, InTurn
  <2> QED
    BY <1>3, <2>1, <2>2, <2>3, <2>4
<1>5. CASE ~Work(qs[q])
  <2> DEFINE r1 == [qs EXCEPT ![q] = Blank]
  <2>1. EndDrain(qs, reg, q) = <<r1, None>>
    BY <1>5 DEF EndDrain
  <2>2. Follows(qs[q], Blank)
    BY <1>5, BlankRecord DEF Follows, Work
  <2>3. /\ r1 \in [Queues -> QueueRecords]
        /\ \A p \in Queues : Fit(r1[p]) /\ Follows(qs[p], r1[p])
        /\ r1[q].turn = <<>> /\ ~InTurn(r1[q])
    BY <2>2, BlankRecord DEF Follows
  <2>4. Alone(qs, reg) => Alone(r1, None)
    BY BlankRecord, <1>3 DEF Alone
  <2> QED
    BY <2>1, <2>3, <2>4
<1> QED
  BY <1>4, <1>5

\* ... nor another pass of it.
LEMMA ContinueFollows ==
  ASSUME NEW qs \in [Queues -> QueueRecords], NEW reg \in Queues \cup {None},
         \A p \in Queues : Fit(qs[p]), NEW q \in Queues, qs[q].draining
  PROVE  LET r == Continue(qs, reg, q) IN
           /\ r = <<r[1], r[2]>>
           /\ r[1] \in [Queues -> QueueRecords] /\ r[2] \in {reg, None}
           /\ \A p \in Queues : Fit(r[1][p]) /\ Follows(qs[p], r[1][p])
           /\ r[1][q].turn = <<>> /\ ~InTurn(r[1][q])
           /\ Alone(qs, reg) => Alone(r[1], r[2])
<1> DEFINE t == [qs[q] EXCEPT !.step = "debounce", !.turn = <<>>, !.noted = {}]
           r1 == [qs EXCEPT ![q] = t]
<1>1. CASE Work(qs[q])
  <2>1. r1 = [qs EXCEPT ![q].step = "debounce", ![q].turn = <<>>, ![q].noted = {}]
    BY DEF QueueRecords
  <2>2. t \in QueueRecords /\ Fit(t) /\ Follows(qs[q], t) /\ t.turn = <<>>
        /\ ~InTurn(t)
    <3>1. t \in QueueRecords /\ t.turn = <<>> /\ t.step = "debounce" /\ t.draining
          /\ t.items = qs[q].items /\ t.dropped = qs[q].dropped
      <4>1. <<>> \in Seq(Messages) /\ {} \in SUBSET Messages
        OBVIOUS
      <4>2. qs[q] \in QueueRecords
        OBVIOUS
      <4> QED
        BY <4>1, <4>2 DEF QueueRecords
    <3> QED
      BY <3>1 DEF Fit, Follows, InTurn
  <2>3. Continue(qs, reg, q) = <<r1, reg>>
    BY <1>1, <2>1 DEF Continue
  <2> HIDE DEF t
  <2>4. /\ r1 \in [Queues -> QueueRecords]
        /\ \A p \in Queues : Fit(r1[p]) /\ Follows(qs[p], r1[p])
        /\ r1[q].turn = <<>> /\ ~InTurn(r1[q])
        /\ Alone(qs, reg) => Alone(r1, reg)
    BY <2>2 DEF Alone, Follows
  <2> QED
    BY <2>3, <2>4
<1>2. CASE ~Work(qs[q])
  BY <1>2, EndDrainFollows DEF Continue
<1> QED
  BY <1>1, <1>2

\* applyQueueDropPolicy takes items off the front of a full queue only.
LEMMA KeptIsBack ==
  ASSUME NEW r \in QueueRecords
  PROVE  /\ Kept(r) \in Seq(Messages) /\ Dropped(r) \subseteq Messages
         /\ \E k \in Nat :
              /\ Len(r.items) < r.cap => k = 0
              /\ Len(r.items) = Len(Kept(r)) + k
              /\ \A i \in 1..Len(Kept(r)) : Kept(r)[i] = r.items[i + k]
<1> DEFINE s == r.items
           k == Len(s) - r.cap + 1
<1>1. s \in Seq(Messages) /\ r.cap \in Nat \ {0}
  BY DEF QueueRecords
<1>2. CASE Len(s) < r.cap
  <2>1. Kept(r) = s
    BY <1>2 DEF Kept
  <2>2. Dropped(r) = {}
    BY <2>1 DEF Dropped
  <2> QED
    BY <1>1, <1>2, <2>1, <2>2
<1>3. CASE Len(s) >= r.cap
  <2>1. Kept(r) = SubSeq(s, k + 1, Len(s))
    <3>1. k + 1 = Len(s) - r.cap + 2
      BY <1>1
    <3>2. ~(Len(s) < r.cap)
      BY <1>1, <1>3
    <3> QED
      BY <3>1, <3>2 DEF Kept
  <2>2. k \in Nat /\ k <= Len(s)
    BY <1>1, <1>3
  <2> HIDE DEF k
  <2>3. /\ Kept(r) \in Seq(Messages)
        /\ Len(s) = Len(Kept(r)) + k
        /\ \A i \in 1..Len(Kept(r)) : Kept(r)[i] = s[i + k]
    BY <1>1, <2>1, <2>2
  <2>4. Dropped(r) \subseteq Messages
    BY <1>1 DEF Dropped, Elems, s
  <2>5. ~(Len(r.items) < r.cap)
    BY <1>1, <1>3
  <2> HIDE DEF s
  <2>6. r.items = s
    BY DEF s
  <2> QED
    BY <2>2, <2>3, <2>4, <2>5, <2>6
<1> QED
  BY <1>1, <1>2, <1>3
\* What is left of a sequence without its first n elements.
LEMMA RestOfSeq ==
  ASSUME NEW S, NEW s \in Seq(S), NEW n \in Nat
  PROVE  LET r == SubSeq(s, n + 1, Len(s)) IN
           /\ r \in Seq(S)
           /\ n <= Len(s) => Len(r) = Len(s) - n
           /\ n > Len(s) => r = <<>>
           /\ \A i \in 1..Len(r) : i + n \in 1..Len(s) /\ r[i] = s[i + n]
<1>1. CASE n <= Len(s)
  BY <1>1
<1>2. CASE n > Len(s)
  BY <1>2
<1> QED
  BY <1>1, <1>2

\* Accepting one more message changes nothing in the order of those before it ...
LEMMA EarlierStays ==
  ASSUME accepted \in Seq(Messages), NEW x \in Messages,
         accepted' = accepted \/ accepted' = Append(accepted, x),
         NEW m, NEW n, Earlier(accepted, m, n)
  PROVE  Earlier(accepted', m, n)
BY DEF Earlier

\* ... and puts it last.
LEMMA LatestIsLast ==
  ASSUME accepted \in Seq(Messages), NEW x \in Messages,
         accepted' = Append(accepted, x), NEW m \in Elems(accepted)
  PROVE  Earlier(accepted', m, x)
<1>1. PICK i \in 1..Len(accepted) : accepted[i] = m
  BY DEF Elems
<1>2. /\ i \in 1..Len(accepted') /\ accepted'[i] = m
      /\ Len(accepted) + 1 \in 1..Len(accepted') /\ accepted'[Len(accepted) + 1] = x
      /\ i < Len(accepted) + 1
  BY <1>1
<1> QED
  BY <1>2 DEF Earlier

\* The items of a queue are different messages.
LEMMA ItemsDistinct ==
  ASSUME TypeInv, OneHolder, ItemsInOrder, NEW q \in Queues,
         NEW i \in 1..Len(queues[q].items), NEW j \in 1..Len(queues[q].items),
         queues[q].items[i] = queues[q].items[j]
  PROVE  i = j
<1>1. \A m, n : Earlier(accepted, m, n) => m # n
  BY DEF Earlier, OneHolder, TypeInv
<1>2. i \in Int /\ j \in Int
  BY DEF TypeInv, QueueRecords
<1>3. ~(i < j) /\ ~(j < i)
  BY <1>1 DEF ItemsInOrder
<1> QED
  BY <1>2, <1>3

\* What is known of the fields of a queue object.
LEMMA RecordTypes ==
  ASSUME TypeInv, NEW q \in Queues
  PROVE  /\ queues[q] \in QueueRecords /\ Fit(queues[q])
         /\ queues[q].items \in Seq(Messages) /\ queues[q].turn \in Seq(Messages)
         /\ queues[q].dropped \subseteq Messages /\ queues[q].noted \subseteq Messages
         /\ Used(queues[q]) \in Nat
<1>1. queues[q] \in QueueRecords /\ Fit(queues[q])
  BY DEF TypeInv
<1>2. /\ queues[q].items \in Seq(Messages) /\ queues[q].turn \in Seq(Messages)
      /\ queues[q].dropped \subseteq Messages /\ queues[q].noted \subseteq Messages
  BY <1>1 DEF QueueRecords
<1> QED
  BY <1>1, <1>2 DEF Used

-----------------------------------------------------------------------------
(* The invariant through each kind of step. *)

\* Steps that move no message: a loop starts, goes on or ends, a turn throws, a
\* message is refused.
LEMMA FollowsKeepsInv ==
  ASSUME FollowupInv, TypeInv',
         \A p \in Queues : Follows(queues[p], queues'[p]),
         \A p \in Queues : p = registered' /\ InTurn(queues'[p]) => p = registered,
         Alone(queues, registered) => Alone(queues', registered'),
         UNCHANGED <<recent, accepted, handed, ran, cleared, overflowed,
                     clearedMidDrain>>
  PROVE  FollowupInv'
<1>1. \A p \in Queues : /\ queues'[p].items = queues[p].items
                        /\ queues'[p].dropped = queues[p].dropped
  BY DEF Follows
<1>2. \A p \in Queues : InTurn(queues'[p]) =>
        /\ queues'[p].turn = queues[p].turn /\ queues'[p].step = queues[p].step
        /\ InTurn(queues[p]) /\ Used(queues'[p]) = Used(queues[p])
  BY DEF Follows, InTurn, Used
<1>3. \A p \in Queues : Held(p)' \subseteq Held(p)
  BY <1>1 DEF Held, Follows, Elems
<1>4. \A m, n : Earlier(accepted, m, n) => Earlier(accepted', m, n)
  BY DEF Earlier
<1>5. OneHolder'
  BY <1>3 DEF FollowupInv, OneHolder
<1>6. ItemsInOrder'
  BY <1>1, <1>4 DEF FollowupInv, ItemsInOrder
<1>7. RunsOnce'
  BY <1>1, <1>2, <1>3 DEF FollowupInv, RunsOnce
<1>8. RemovesItsTurn'
  <2>1. \A p \in Queues : queues'[p].step = "summary" => queues[p].step = "summary"
    BY <1>2 DEF InTurn
  <2> QED
    BY <1>1, <1>2, <2>1 DEF FollowupInv, RemovesItsTurn
<1>9. OnlyOverflowLoses'
  BY <1>1 DEF FollowupInv, OnlyOverflowLoses, Queued
<1>10. FreshAreLater'
  BY <1>1, <1>4 DEF FollowupInv, FreshAreLater
<1> QED
  BY <1>5, <1>6, <1>7, <1>8, <1>9, <1>10 DEF FollowupInv

\* Queue q takes message m behind the n items that stay, k others being dropped.
Accepts(m, q, k, n) ==
  /\ n + k = Len(queues[q].items) /\ Len(queues'[q].items) = n + 1
  /\ \A i \in 1..n : queues'[q].items[i] = queues[q].items[i + k]
  /\ queues'[q].items[n + 1] = m
  /\ \/ queues'[q].turn = queues[q].turn /\ queues'[q].step = queues[q].step
     \/ queues'[q].turn = <<>> /\ ~InTurn(queues'[q])
  /\ q = registered \/ ~InTurn(queues[q])
  /\ registered' \in {q, None}
  /\ \A p \in Queues \ {q} : Follows(queues[p], queues'[p])
  /\ ~overflowed' => /\ ~overflowed /\ k = 0
                     /\ queues'[q].dropped = queues[q].dropped
  /\ Alone(queues, registered) => Alone(queues', registered')
  /\ accepted' = Append(accepted, m) /\ recent' = recent \cup {m}
  /\ UNCHANGED <<handed, ran, cleared, clearedMidDrain>>

\* Accepting it keeps the invariant, in and out of an overflow.
LEMMA AcceptKeepsInv ==
  ASSUME FollowupInv, TypeInv', NEW m \in Messages \ recent, NEW q \in Queues,
         NEW k \in Nat, NEW n \in Nat, Accepts(m, q, k, n)
  PROVE  FollowupInv'
<1> USE DEF Accepts
<1>1. /\ TypeInv /\ accepted \in Seq(Messages) /\ m \notin Elems(accepted)
      /\ \A p \in Queues : m \notin Held(p)
  BY DEF FollowupInv, TypeInv, OneHolder
<1>2. /\ Elems(accepted') = Elems(accepted) \cup {m}
      /\ \A i \in 1..Len(accepted) : accepted'[i] = accepted[i]
      /\ Len(accepted') = Len(accepted) + 1 /\ accepted'[Len(accepted) + 1] = m
      /\ Len(accepted) \in Nat
  BY <1>1 DEF Elems
<1>3. \A i \in 1..(n + 1) :
        \/ /\ i \in 1..n /\ i + k \in 1..Len(queues[q].items)
           /\ queues'[q].items[i] = queues[q].items[i + k]
           /\ queues'[q].items[i] \in Held(q)
        \/ i = n + 1 /\ queues'[q].items[i] = m
  BY DEF Held, Elems
<1>4. \A p \in Queues : InTurn(queues'[p]) =>
        /\ queues'[p].turn = queues[p].turn /\ queues'[p].step = queues[p].step
        /\ InTurn(queues[p]) /\ Used(queues'[p]) = Used(queues[p])
  BY DEF Follows, InTurn, Used
<1>5. /\ \A p \in Queues \ {q} : Held(p)' \subseteq Held(p)
      /\ Held(q)' \subseteq Held(q) \cup {m}
  <2>1. \A p \in Queues : Elems(queues'[p].turn) \subseteq Elems(queues[p].turn)
    BY DEF Follows, Elems
  <2>2. \A p \in Queues \ {q} : Elems(queues'[p].items) = Elems(queues[p].items)
    BY DEF Follows
  <2>3. Elems(queues'[q].items) \subseteq Held(q) \cup {m}
    BY <1>3 DEF Elems
  <2> QED
    BY <2>1, <2>2, <2>3 DEF Held
<1>6. \A a, b : Earlier(accepted, a, b) => Earlier(accepted', a, b)
  BY <1>1, EarlierStays
<1>7. \A a \in Elems(accepted) : Earlier(accepted', a, m)
  BY <1>1, LatestIsLast
<1>8. OneHolder'
  <2>1. Elems(accepted') \subseteq recent'
    BY <1>2 DEF FollowupInv, OneHolder
  <2>2. \A i, j \in 1..Len(accepted') : accepted'[i] = accepted'[j] => i = j
    <3>1. \A i \in 1..Len(accepted') :
            (i \in 1..Len(accepted) /\ accepted'[i] # m) \/ i = Len(accepted) + 1
      BY <1>1, <1>2 DEF Elems
    <3> QED
      BY <1>2, <3>1 DEF FollowupInv, OneHolder
  <2>3. \A p \in Queues : Held(p)' \subseteq Elems(accepted')
    BY <1>2, <1>5 DEF FollowupInv, OneHolder
  <2>4. \A p, r \in Queues : p # r => Held(p)' \cap Held(r)' = {}
    BY <1>1, <1>5 DEF FollowupInv, OneHolder
  <2>5. ran' \subseteq Elems(accepted')
    BY <1>2 DEF FollowupInv, OneHolder
  <2> QED
    BY <2>1, <2>2, <2>3, <2>4, <2>5 DEF OneHolder
<1>9. ItemsInOrder'
  <2>1. ASSUME NEW p \in Queues \ {q},
               NEW i \in 1..Len(queues'[p].items), NEW j \in 1..Len(queues'[p].items),
               i < j
        PROVE  Earlier(accepted', queues'[p].items[i], queues'[p].items[j])
    BY <1>6, <2>1 DEF FollowupInv, ItemsInOrder, Follows
  <2>2. ASSUME NEW i \in 1..(n + 1), NEW j \in 1..(n + 1), i < j
        PROVE  Earlier(accepted', queues'[q].items[i], queues'[q].items[j])
    <3>1. i \in 1..n
      BY <2>2
    <3>2. CASE j \in 1..n
      <4>1. /\ i + k \in 1..Len(queues[q].items) /\ j + k \in 1..Len(queues[q].items)
            /\ i + k < j + k
        BY <3>1, <3>2, <2>2
      <4>2. Earlier(accepted, queues[q].items[i + k], queues[q].items[j + k])
        BY <4>1 DEF FollowupInv, ItemsInOrder
      <4> QED
        BY <3>1, <3>2, <4>2, <1>6
    <3>3. CASE j = n + 1
      <4>1. queues'[q].items[i] \in Elems(accepted)
        BY <1>1, <1>3, <3>1 DEF FollowupInv, OneHolder
      <4> QED
        BY <4>1, <3>3, <1>7
    <3> QED
      BY <3>2, <3>3
  <2> QED
    BY <2>1, <2>2 DEF ItemsInOrder
<1>10. RunsOnce'
  <2>1. m \notin ran'
    BY <1>1 DEF FollowupInv, OneHolder
  <2>2. \A p \in Queues : Held(p)' \cap ran' = {}
    BY <1>5, <2>1 DEF FollowupInv, RunsOnce
  <2>3. ASSUME NEW p \in Queues \ {q}, InTurn(queues'[p]),
               NEW j \in 1..Len(queues'[p].items),
               queues'[p].items[j] \in Elems(queues'[p].turn)
        PROVE  j <= Used(queues'[p])
    BY <1>4, <2>3 DEF FollowupInv, RunsOnce, Follows
  <2>4. ASSUME InTurn(queues'[q]), NEW j \in 1..(n + 1),
               queues'[q].items[j] \in Elems(queues'[q].turn)
        PROVE  j <= Used(queues'[q])
    <3>1. queues'[q].items[j] # m
      BY <1>1, <1>4, <2>4 DEF Held
    <3>2. /\ j \in 1..n /\ j + k \in 1..Len(queues[q].items)
          /\ queues'[q].items[j] = queues[q].items[j + k]
      BY <1>3, <3>1
    <3>3. j + k <= Used(queues[q])
      BY <1>4, <2>4, <3>2 DEF FollowupInv, RunsOnce
    <3>4. Used(queues[q]) \in Nat
      BY <1>1, RecordTypes
    <3> QED
      BY <1>4, <2>4, <3>2, <3>3, <3>4
  <2> QED
    BY <2>2, <2>3, <2>4 DEF RunsOnce
<1>11. RemovesItsTurn'
  <2> SUFFICES ASSUME ~overflowed', NEW p \in Queues
               PROVE  /\ queues'[p].dropped = {} /\ queues'[p].step # "summary"
                      /\ InTurn(queues'[p]) =>
                           /\ \A j \in 1..Len(queues'[p].items) :
                                j <= Used(queues'[p]) =>
                                  queues'[p].items[j] \in Elems(queues'[p].turn)
                           /\ p = registered' =>
                                Used(queues'[p]) <= Len(queues'[p].items)
    BY DEF RemovesItsTurn
  <2>1. /\ k = 0 /\ n = Len(queues[q].items)
        /\ queues[p].dropped = {} /\ queues[p].step # "summary"
        /\ InTurn(queues[p]) =>
             /\ \A j \in 1..Len(queues[p].items) : j <= Used(queues[p]) =>
                  queues[p].items[j] \in Elems(queues[p].turn)
             /\ p = registered => Used(queues[p]) <= Len(queues[p].items)
    BY DEF FollowupInv, RemovesItsTurn
  <2>2. queues'[p].dropped = {} /\ queues'[p].step # "summary"
    BY <1>4, <2>1 DEF Follows, InTurn
  <2>3. ASSUME InTurn(queues'[p]), p # q
        PROVE  /\ \A j \in 1..Len(queues'[p].items) : j <= Used(queues'[p]) =>
                    queues'[p].items[j] \in Elems(queues'[p].turn)
               /\ p # registered'
    <3>1. p # registered' /\ queues'[p].items = queues[p].items
      BY <2>3, NoneAssumption DEF Follows
    <3> QED
      BY <1>4, <2>1, <2>3, <3>1
  <2>4. ASSUME InTurn(queues'[p]), p = q
        PROVE  /\ \A j \in 1..Len(queues'[p].items) : j <= Used(queues'[p]) =>
                    queues'[p].items[j] \in Elems(queues'[p].turn)
               /\ Used(queues'[p]) <= Len(queues'[p].items)
    <3>1. /\ InTurn(queues[q]) /\ q = registered /\ Used(queues'[q]) = Used(queues[q])
          /\ queues'[q].turn = queues[q].turn
      BY <1>4, <2>4
    <3>2. Used(queues[q]) <= n /\ Used(queues[q]) \in Nat
      BY <1>1, <2>1, <2>4, <3>1, RecordTypes
    <3>3. ASSUME NEW j \in 1..(n + 1), j <= Used(queues[q])
          PROVE  queues'[q].items[j] \in Elems(queues[q].turn)
      <4>1. j \in 1..n /\ j + k = j
        BY <2>1, <3>2, <3>3
      <4> QED
        BY <2>1, <2>4, <3>1, <3>3, <4>1
    <3> QED
      BY <2>4, <3>1, <3>2, <3>3
  <2> QED
    BY <2>2, <2>3, <2>4
<1>12. OnlyOverflowLoses'
  <2> SUFFICES ASSUME ~overflowed', NEW a \in Elems(accepted')
               PROVE  Queued(a)' \/ a \in ran' \cup cleared'
    BY DEF OnlyOverflowLoses
  <2>1. ~overflowed /\ k = 0
    OBVIOUS
  <2>2. CASE a = m
    BY <2>2 DEF Queued, Elems
  <2>3. ASSUME NEW p \in Queues, a \in Elems(queues[p].items) PROVE Queued(a)'
    <3>1. CASE p # q
      BY <2>3, <3>1 DEF Queued, Follows
    <3>2. CASE p = q
      <4>1. PICK i \in 1..Len(queues[q].items) : queues[q].items[i] = a
        BY <2>3, <3>2 DEF Elems
      <4>2. i \in 1..(n + 1) /\ queues'[q].items[i] = a
        BY <2>1, <4>1
      <4> QED
        BY <4>2 DEF Queued, Elems
    <3> QED
      BY <3>1, <3>2
  <2>4. a # m => Queued(a) \/ a \in ran \cup cleared
    BY <1>2, <2>1 DEF FollowupInv, OnlyOverflowLoses
  <2> QED
    BY <2>2, <2>3, <2>4 DEF Queued
<1>13. FreshAreLater'
  <2>1. handed' \subseteq Elems(accepted')
    BY <1>2 DEF FollowupInv, FreshAreLater
  <2>2. ASSUME ~clearedMidDrain', NEW p \in Queues,
               NEW j \in 1..Len(queues'[p].items), queues'[p].items[j] \notin handed',
               NEW b \in handed'
        PROVE  Earlier(accepted', b, queues'[p].items[j])
    <3>1. \A r \in Queues : \A i \in 1..Len(queues[r].items) :
            queues[r].items[i] \notin handed =>
              Earlier(accepted, b, queues[r].items[i])
      BY <2>2 DEF FollowupInv, FreshAreLater
    <3>2. CASE p # q
      BY <1>6, <2>2, <3>1, <3>2 DEF Follows
    <3>3. CASE p = q /\ j \in 1..n
      <4>1. /\ j + k \in 1..Len(queues[q].items)
            /\ queues'[q].items[j] = queues[q].items[j + k]
        BY <1>3, <3>3
      <4>2. Earlier(accepted, b, queues[q].items[j + k])
        BY <2>2, <3>1, <3>3, <4>1
      <4> QED
        BY <1>6, <3>3, <4>1, <4>2
    <3>4. CASE p = q /\ j = n + 1
      BY <1>7, <2>2, <3>4 DEF FollowupInv, FreshAreLater
    <3> QED
      BY <2>2, <3>2, <3>3, <3>4
  <2>3. ~clearedMidDrain' => Alone(queues', registered')
    BY DEF FollowupInv, FreshAreLater
  <2> QED
    BY <2>1, <2>2, <2>3 DEF FreshAreLater
<1> QED
  BY <1>8, <1>9, <1>10, <1>11, <1>12, <1>13 DEF FollowupInv
\* The queue is cleared; a turn of its loop goes on.
LEMMA ClearKeepsInv ==
  ASSUME FollowupInv, TypeInv', Clear
  PROVE  FollowupInv'
<1> DEFINE q == registered
<1>1. /\ q \in Queues /\ registered' = None /\ q # None /\ TypeInv
      /\ UNCHANGED <<recent, accepted, handed, ran, overflowed>>
      /\ cleared' = cleared \cup Elems(queues[q].items) \cup queues[q].dropped
      /\ clearedMidDrain' = (clearedMidDrain \/ queues[q].draining)
  BY DEF Clear, FollowupInv, TypeInv
<1>2. \A p \in Queues \ {q} : queues'[p] = queues[p]
  BY <1>1 DEF Clear, TypeInv
<1>3. /\ queues'[q].items = <<>> /\ queues'[q].dropped = {}
      /\ queues'[q].turn = queues[q].turn
      /\ InTurn(queues'[q]) => queues'[q].step = queues[q].step
      /\ ~queues[q].draining => queues'[q] = Blank
  <2>1. CASE queues[q].draining
    BY <1>1, <2>1 DEF Clear, TypeInv, QueueRecords
  <2>2. CASE ~queues[q].draining
    <3>1. queues'[q] = Blank
      BY <1>1, <2>2 DEF Clear, TypeInv
    <3>2. queues[q].turn = <<>>
      BY <1>1, <2>2 DEF TypeInv, Fit, InTurn
    <3> QED
      BY <3>1, <3>2, <2>2, BlankRecord
  <2> QED
    BY <2>1, <2>2
<1> HIDE DEF q
<1>4. \A p \in Queues : Held(p)' \subseteq Held(p)
  BY <1>2, <1>3 DEF Held, Elems
<1>5. \A p \in Queues : p # q \/ Len(queues'[p].items) = 0
  BY <1>3
<1>6. OneHolder'
  BY <1>1, <1>4 DEF FollowupInv, OneHolder
<1>7. ItemsInOrder'
  BY <1>1, <1>2, <1>5 DEF FollowupInv, ItemsInOrder
<1>8. RunsOnce'
  BY <1>1, <1>2, <1>4, <1>5 DEF FollowupInv, RunsOnce
<1>9. RemovesItsTurn'
  <2>1. \A p \in Queues : queues'[p].step = "summary" => queues[p].step = "summary"
    BY <1>2, <1>3 DEF InTurn
  <2>2. \A p \in Queues : p # registered'
    BY <1>1, NoneAssumption
  <2> QED
    BY <1>1, <1>2, <1>3, <1>5, <2>1, <2>2 DEF FollowupInv, RemovesItsTurn
<1>10. OnlyOverflowLoses'
  <2>1. \A a : Queued(a) => Queued(a)' \/ a \in cleared'
    BY <1>1, <1>2 DEF Queued
  <2> QED
    BY <1>1, <2>1 DEF FollowupInv, OnlyOverflowLoses
<1>11. FreshAreLater'
  <2>1. ~clearedMidDrain' => Alone(queues', registered')
    BY <1>1, <1>2, <1>3, BlankRecord DEF FollowupInv, FreshAreLater, Alone, q
  <2>2. \A p \in Queues : \A j \in 1..Len(queues'[p].items) :
          queues'[p] = queues[p]
    BY <1>2, <1>5
  <2> QED
    BY <1>1, <2>1, <2>2 DEF FollowupInv, FreshAreLater
<1> QED
  BY <1>6, <1>7, <1>8, <1>9, <1>10, <1>11 DEF FollowupInv

\* A turn starts with a front of the queue in its prompt.
LEMMA StartTurnKeepsInv ==
  ASSUME FollowupInv, TypeInv', NEW q \in Queues,
         NEW kind \in {"item", "collect", "summary"},
         NEW turn \in Seq(Messages), NEW noted \in SUBSET Messages,
         Len(turn) <= Len(queues[q].items),
         \A i \in 1..Len(turn) : turn[i] = queues[q].items[i],
         kind = "item" => Len(turn) = 1,
         kind = "summary" => turn = <<>> /\ queues[q].dropped # {},
         StartTurn(q, kind, turn, noted)
  PROVE  FollowupInv'
<1>1. /\ TypeInv /\ queues[q] \in QueueRecords /\ queues[q].items \in Seq(Messages)
      /\ queues[q].draining
  BY RecordTypes DEF FollowupInv, StartTurn, Fit
<1>2. /\ \A p \in Queues \ {q} : queues'[p] = queues[p]
      /\ queues'[q].items = queues[q].items /\ queues'[q].dropped = queues[q].dropped
      /\ queues'[q].turn = turn /\ queues'[q].step = kind
      /\ queues'[q].draining
  BY <1>1 DEF StartTurn, TypeInv, QueueRecords
<1>3. /\ handed' = handed \cup Elems(turn)
      /\ UNCHANGED <<registered, recent, accepted, ran, cleared, overflowed,
                     clearedMidDrain>>
  BY DEF StartTurn
<1>4. \A p \in Queues : queues'[p].items = queues[p].items
                        /\ queues'[p].dropped = queues[p].dropped
  BY <1>2
<1>5. Elems(turn) \subseteq Elems(queues[q].items)
  BY <1>1 DEF Elems
<1>6. \A p \in Queues : Held(p)' \subseteq Held(p)
  BY <1>2, <1>5 DEF Held
<1>7. InTurn(queues'[q]) /\ Used(queues'[q]) = IF kind = "collect" THEN Len(turn) ELSE 1
  BY <1>2 DEF InTurn, Used
<1>8. OneHolder'
  BY <1>3, <1>6 DEF FollowupInv, OneHolder
<1>9. ItemsInOrder'
  BY <1>3, <1>4 DEF FollowupInv, ItemsInOrder
<1>10. RunsOnce'
  <2>1. \A p \in Queues : Held(p)' \cap ran' = {}
    BY <1>3, <1>6 DEF FollowupInv, RunsOnce
  <2>2. ASSUME NEW j \in 1..Len(queues[q].items), queues[q].items[j] \in Elems(turn)
        PROVE  j <= Used(queues'[q])
    <3>1. PICK i \in 1..Len(turn) : turn[i] = queues[q].items[j]
      BY <2>2 DEF Elems
    <3>2. i \in 1..Len(queues[q].items) /\ queues[q].items[i] = queues[q].items[j]
      BY <1>1, <3>1
    <3>3. i = j
      BY <1>1, <3>2, ItemsDistinct DEF FollowupInv
    <3>4. Len(turn) <= IF kind = "collect" THEN Len(turn) ELSE 1
      OBVIOUS
    <3> QED
      BY <1>7, <3>1, <3>3, <3>4
  <2> QED
    BY <1>2, <2>1, <2>2 DEF FollowupInv, RunsOnce
<1>11. RemovesItsTurn'
  <2> SUFFICES ASSUME ~overflowed PROVE RemovesItsTurn'
    BY <1>3 DEF RemovesItsTurn
  <2>1. kind # "summary"
    BY DEF FollowupInv, RemovesItsTurn
  <2>2. Used(queues'[q]) = Len(turn)
    BY <1>7, <2>1
  <2>3. \A j \in 1..Len(queues[q].items) :
          j <= Used(queues'[q]) => queues[q].items[j] \in Elems(turn)
    BY <2>2 DEF Elems
  <2> QED
    BY <1>2, <1>3, <2>1, <2>2, <2>3 DEF FollowupInv, RemovesItsTurn
<1>12. OnlyOverflowLoses'
  BY <1>3, <1>4 DEF FollowupInv, OnlyOverflowLoses, Queued
<1>13. FreshAreLater'
  <2>1. handed' \subseteq Elems(accepted')
    BY <1>3, <1>5 DEF FollowupInv, FreshAreLater, OneHolder, Held
  <2> SUFFICES ASSUME ~clearedMidDrain
               PROVE  /\ Alone(queues', registered')
                      /\ \A p \in Queues : \A j \in 1..Len(queues'[p].items) :
                           queues'[p].items[j] \notin handed' =>
                             \A b \in handed' :
                               Earlier(accepted', b, queues'[p].items[j])
    BY <1>3, <2>1 DEF FreshAreLater
  <2>2. q = registered /\ Alone(queues, registered)
    BY <1>1 DEF FollowupInv, FreshAreLater, Alone
  <2>3. Alone(queues', registered')
    BY <1>2, <1>3, <2>2 DEF Alone
  <2>4. ASSUME NEW p \in Queues, p # q, NEW j \in 1..Len(queues[p].items) PROVE FALSE
    BY <2>2, <2>4 DEF Alone, Work
  <2>5. ASSUME NEW j \in 1..Len(queues[q].items), queues[q].items[j] \notin handed',
               NEW b \in handed'
        PROVE  Earlier(accepted, b, queues[q].items[j])
    <3>1. CASE b \in handed
      BY <1>3, <2>5, <3>1 DEF FollowupInv, FreshAreLater
    <3>2. CASE b \in Elems(turn)
      <4>1. PICK i \in 1..Len(turn) : turn[i] = b
        BY <3>2 DEF Elems
      <4>2. i \in 1..Len(queues[q].items) /\ queues[q].items[i] = b
        BY <1>1, <4>1
      <4>3. ~(j <= Len(turn))
        BY <1>3, <2>5 DEF Elems
      <4>4. i < j
        BY <1>1, <4>1, <4>3
      <4> QED
        BY <4>2, <4>4 DEF FollowupInv, ItemsInOrder
    <3> QED
      BY <1>3, <2>5, <3>1, <3>2
  <2> QED
    BY <1>3, <1>4, <2>3, <2>4, <2>5
<1> QED
  BY <1>8, <1>9, <1>10, <1>11, <1>12, <1>13 DEF FollowupInv
\* A turn returned: what it had is run and removed.
LEMMA TurnDoneKeepsInv ==
  ASSUME FollowupInv, NEW q \in Queues, TurnDone(q)
  PROVE  FollowupInv'
<1> DEFINE u == Used(queues[q])
           s == queues[q].items
           t == [queues[q] EXCEPT !.items = SubSeq(s, u + 1, Len(s)),
                                  !.dropped = IF queues[q].noted # {} THEN {} ELSE @]
           rest == [queues EXCEPT ![q] = t]
           r == Continue(rest, registered, q)
<1>1. /\ TypeInv /\ queues[q] \in QueueRecords /\ Fit(queues[q])
      /\ s \in Seq(Messages) /\ u \in Nat /\ queues[q].turn \in Seq(Messages)
      /\ queues[q].draining /\ InTurn(queues[q])
      /\ queues \in [Queues -> QueueRecords] /\ registered \in Queues \cup {None}
  BY RecordTypes DEF FollowupInv, TypeInv, TurnDone, Fit, InTurn
<1>2. rest = [queues EXCEPT
                ![q].items = SubSeq(@, Used(queues[q]) + 1, Len(@)),
                ![q].dropped = IF queues[q].noted # {} THEN {} ELSE @]
  BY <1>1 DEF QueueRecords
<1>3. /\ Becomes(r) /\ ran' = ran \cup Elems(queues[q].turn)
      /\ announced' = announced \cup queues[q].noted
      /\ UNCHANGED <<agentRun, recent, failures, accepted, handed, cleared,
                     overflowed, clearedMidDrain>>
  BY <1>2 DEF TurnDone
<1>4. /\ SubSeq(s, u + 1, Len(s)) \in Seq(Messages)
      /\ u <= Len(s) => Len(SubSeq(s, u + 1, Len(s))) = Len(s) - u
      /\ \A i \in 1..Len(SubSeq(s, u + 1, Len(s))) :
           i + u \in 1..Len(s) /\ SubSeq(s, u + 1, Len(s))[i] = s[i + u]
  BY <1>1, RestOfSeq
<1> HIDE DEF u, s
<1>5. /\ t \in QueueRecords /\ t.items = SubSeq(s, u + 1, Len(s))
      /\ t.dropped = {} \/ t.dropped = queues[q].dropped
      /\ t.turn = queues[q].turn /\ t.step = queues[q].step /\ t.draining
  BY <1>1, <1>4 DEF QueueRecords
<1> HIDE DEF t
<1>6. /\ rest \in [Queues -> QueueRecords] /\ rest[q] = t /\ rest[q].draining
      /\ \A p \in Queues \ {q} : rest[p] = queues[p]
      /\ \A p \in Queues : Fit(rest[p])
      /\ Alone(queues, registered) => Alone(rest, registered)
  <2>1. rest \in [Queues -> QueueRecords] /\ rest[q] = t
        /\ \A p \in Queues \ {q} : rest[p] = queues[p]
    BY <1>1, <1>5
  <2>2. Fit(t)
    BY <1>1, <1>5 DEF Fit, InTurn
  <2>3. Alone(queues, registered) => Alone(rest, registered)
    BY <1>1, <2>1 DEF Alone
  <2> QED
    BY <1>1, <1>5, <2>1, <2>2, <2>3 DEF TypeInv
<1> HIDE DEF rest
<1>7. /\ r = <<r[1], r[2]>>
      /\ r[1] \in [Queues -> QueueRecords] /\ r[2] \in {registered, None}
      /\ \A p \in Queues : Fit(r[1][p]) /\ Follows(rest[p], r[1][p])
      /\ r[1][q].turn = <<>> /\ ~InTurn(r[1][q])
      /\ Alone(rest, registered) => Alone(r[1], r[2])
  BY <1>1, <1>6, ContinueFollows
<1> HIDE DEF r
<1>8. /\ queues' \in [Queues -> QueueRecords] /\ registered' \in {registered, None}
      /\ \A p \in Queues : Fit(queues'[p])
      /\ \A p \in Queues \ {q} : Follows(queues[p], queues'[p])
      /\ queues'[q].items = SubSeq(s, u + 1, Len(s))
      /\ queues'[q].dropped = {} \/ queues'[q].dropped = queues[q].dropped
      /\ queues'[q].turn = <<>> /\ ~InTurn(queues'[q])
      /\ Alone(queues, registered) => Alone(queues', registered')
  BY <1>3, <1>5, <1>6, <1>7 DEF Becomes, Follows
<1>9. TypeInv'
  <2>1. queues[q].noted \subseteq Messages /\ Elems(queues[q].turn) \subseteq Messages
    BY <1>1 DEF QueueRecords, Elems
  <2> QED
    BY <1>1, <1>3, <1>8, <2>1 DEF TypeInv
<1>10. /\ \A i \in 1..Len(queues'[q].items) :
            i + u \in 1..Len(s) /\ queues'[q].items[i] = s[i + u]
       /\ \A j \in 1..Len(s) : j > u =>
            j - u \in 1..Len(queues'[q].items) /\ queues'[q].items[j - u] = s[j]
  <2>1. \A i \in 1..Len(queues'[q].items) :
          i + u \in 1..Len(s) /\ queues'[q].items[i] = s[i + u]
    BY <1>4, <1>8
  <2>2. ASSUME NEW j \in 1..Len(s), j > u
        PROVE  j - u \in 1..Len(queues'[q].items) /\ queues'[q].items[j - u] = s[j]
    <3>1. Len(queues'[q].items) = Len(s) - u /\ Len(s) \in Nat
      BY <1>1, <1>4, <1>8, <2>2
    <3>2. j - u \in 1..Len(queues'[q].items) /\ (j - u) + u = j
      BY <1>1, <2>2, <3>1
    <3> QED
      BY <2>1, <3>2
  <2> QED
    BY <2>1, <2>2
<1>11. \A p \in Queues : InTurn(queues'[p]) =>
         /\ p # q /\ queues'[p].items = queues[p].items
         /\ queues'[p].turn = queues[p].turn /\ queues'[p].step = queues[p].step
         /\ InTurn(queues[p]) /\ Used(queues'[p]) = Used(queues[p])
  BY <1>8 DEF Follows, InTurn, Used
<1>12. \A p \in Queues : Held(p)' \subseteq Held(p)
  <2>1. \A p \in Queues \ {q} : Held(p)' \subseteq Held(p)
    BY <1>8 DEF Follows, Held, Elems
  <2>2. Held(q)' \subseteq Held(q)
    <3>1. Elems(queues'[q].turn) = {}
      BY <1>8 DEF Elems
    <3>2. Elems(queues'[q].items) \subseteq Elems(s)
      BY <1>10 DEF Elems
    <3> QED
      BY <3>1, <3>2 DEF Held, s
  <2> QED
    BY <2>1, <2>2
<1>13. Elems(queues[q].turn) \subseteq Held(q)
  BY DEF Held
<1>14. OneHolder'
  BY <1>3, <1>12, <1>13 DEF FollowupInv, OneHolder
<1>15. ItemsInOrder'
  <2>1. ASSUME NEW p \in Queues \ {q},
               NEW i \in 1..Len(queues'[p].items), NEW j \in 1..Len(queues'[p].items),
               i < j
        PROVE  Earlier(accepted', queues'[p].items[i], queues'[p].items[j])
    BY <1>3, <1>8, <2>1 DEF FollowupInv, ItemsInOrder, Follows
  <2>2. ASSUME NEW i \in 1..Len(queues'[q].items), NEW j \in 1..Len(queues'[q].items),
               i < j
        PROVE  Earlier(accepted', queues'[q].items[i], queues'[q].items[j])
    <3>1. /\ i + u \in 1..Len(s) /\ j + u \in 1..Len(s) /\ i + u < j + u
          /\ queues'[q].items[i] = s[i + u] /\ queues'[q].items[j] = s[j + u]
      BY <1>1, <1>10, <2>2
    <3>2. Earlier(accepted, s[i + u], s[j + u])
      BY <3>1 DEF FollowupInv, ItemsInOrder, s
    <3> QED
      BY <1>3, <3>1, <3>2
  <2> QED
    BY <2>1, <2>2 DEF ItemsInOrder
<1>16. RunsOnce'
  <2>1. ASSUME NEW p \in Queues \ {q} PROVE Held(p)' \cap ran' = {}
    <3>1. Held(p) \cap Held(q) = {} /\ Held(p) \cap ran = {}
      BY DEF FollowupInv, OneHolder, RunsOnce
    <3> QED
      BY <1>3, <1>12, <1>13, <3>1
  <2>2. ASSUME NEW i \in 1..Len(queues'[q].items) PROVE queues'[q].items[i] \notin ran'
    <3>1. i + u \in 1..Len(s) /\ queues'[q].items[i] = s[i + u] /\ ~(i + u <= u)
      BY <1>1, <1>10
    <3>2. s[i + u] \notin Elems(queues[q].turn)
      BY <1>1, <3>1 DEF FollowupInv, RunsOnce, s, u
    <3>3. s[i + u] \notin ran
      BY <3>1 DEF FollowupInv, RunsOnce, s, Held, Elems
    <3> QED
      BY <1>3, <3>1, <3>2, <3>3
  <2>3. Held(q)' \cap ran' = {}
    <3>1. Elems(queues'[q].turn) = {}
      BY <1>8 DEF Elems
    <3>2. Elems(queues'[q].items) \cap ran' = {}
      BY <2>2 DEF Elems
    <3> QED
      BY <3>1, <3>2 DEF Held
  <2> QED
    BY <1>11, <2>1, <2>3 DEF FollowupInv, RunsOnce
<1>17. RemovesItsTurn'
  <2>1. \A p \in Queues : /\ queues[p].dropped = {} => queues'[p].dropped = {}
                          /\ queues'[p].step = "summary" => queues[p].step = "summary"
    BY <1>8, <1>11 DEF Follows, InTurn
  <2>2. \A p \in Queues : p = registered' => p = registered
    BY <1>8, NoneAssumption
  <2> QED
    <3> SUFFICES ASSUME ~overflowed, NEW p \in Queues
                 PROVE  /\ queues'[p].dropped = {} /\ queues'[p].step # "summary"
                        /\ InTurn(queues'[p]) =>
                             /\ \A j \in 1..Len(queues'[p].items) :
                                  j <= Used(queues'[p]) =>
                                    queues'[p].items[j] \in Elems(queues'[p].turn)
                             /\ p = registered' =>
                                  Used(queues'[p]) <= Len(queues'[p].items)
      BY <1>3 DEF RemovesItsTurn
    <3>1. /\ queues[p].dropped = {} /\ queues[p].step # "summary"
          /\ InTurn(queues[p]) =>
               /\ \A j \in 1..Len(queues[p].items) : j <= Used(queues[p]) =>
                    queues[p].items[j] \in Elems(queues[p].turn)
               /\ p = registered => Used(queues[p]) <= Len(queues[p].items)
      BY DEF FollowupInv, RemovesItsTurn
    <3>2. queues'[p].dropped = {} /\ queues'[p].step # "summary"
      BY <2>1, <3>1
    <3> QED
      BY <1>11, <2>2, <3>1, <3>2
<1>18. OnlyOverflowLoses'
  <2> SUFFICES ASSUME ~overflowed, NEW a \in Elems(accepted), Queued(a)
               PROVE  Queued(a)' \/ a \in ran'
    BY <1>3 DEF FollowupInv, OnlyOverflowLoses
  <2>1. PICK p \in Queues : a \in Elems(queues[p].items)
    BY DEF Queued
  <2>2. CASE p # q
    BY <1>8, <2>1, <2>2 DEF Queued, Follows
  <2>3. CASE p = q
    <3>1. PICK j \in 1..Len(s) : s[j] = a
      BY <2>1, <2>3 DEF Elems, s
    <3>2. CASE j <= u
      BY <1>1, <1>3, <3>1, <3>2 DEF FollowupInv, RemovesItsTurn, s, u
    <3>3. CASE j > u
      BY <1>10, <3>1, <3>3 DEF Queued, Elems
    <3> QED
      BY <1>1, <3>2, <3>3
  <2> QED
    BY <2>2, <2>3
<1>19. FreshAreLater'
  <2>1. handed' \subseteq Elems(accepted')
    BY <1>3 DEF FollowupInv, FreshAreLater
  <2>2. ASSUME NEW p \in Queues, NEW j \in 1..Len(queues'[p].items)
        PROVE  \E i \in 1..Len(queues[p].items) :
                 queues'[p].items[j] = queues[p].items[i]
    <3>1. CASE p # q
      BY <1>8, <2>2, <3>1 DEF Follows
    <3>2. CASE p = q
      BY <1>10, <2>2, <3>2 DEF s
    <3> QED
      BY <3>1, <3>2
  <2> QED
    BY <1>3, <1>8, <2>1, <2>2 DEF FollowupInv, FreshAreLater
<1> QED
  BY <1>9, <1>14, <1>15, <1>16, <1>17, <1>18, <1>19 DEF FollowupInv
\* A loop ends without its turn, or the direct run of the session starts one.
LEMMA RegistryStepKeepsInv ==
  ASSUME FollowupInv, NEW r, Becomes(r),
         r = <<r[1], r[2]>>, r[1] \in [Queues -> QueueRecords], r[2] \in {registered, None},
         \A p \in Queues : Fit(r[1][p]) /\ Follows(queues[p], r[1][p]),
         Alone(queues, registered) => Alone(r[1], r[2]),
         agentRun' \in {"active", "ended", "none"},
         UNCHANGED <<recent, fates>>
  PROVE  FollowupInv'
<1>1. /\ queues' = r[1] /\ registered' = r[2]
      /\ UNCHANGED <<recent, accepted, handed, ran, announced, cleared, overflowed,
                     clearedMidDrain>>
  BY DEF Becomes, fates
<1>2. TypeInv'
  BY <1>1 DEF FollowupInv, TypeInv
<1>3. \A p \in Queues : p = registered' => p = registered
  BY <1>1, NoneAssumption
<1> QED
  BY <1>1, <1>2, <1>3, FollowsKeepsInv

\* A message arrives.
LEMMA EnqueueKeepsInv ==
  ASSUME FollowupInv, NEW m \in Messages, NEW s \in Settings, Enqueue(m, s)
  PROVE  FollowupInv'
<1>0. /\ TypeInv /\ registered \in Queues \cup {None}
      /\ registered # None => registered \in Queues
      /\ queues \in [Queues -> QueueRecords] /\ \A p \in Queues : Fit(queues[p])
      /\ s.cap \in Nat \ {0}
  BY SettingsAssumption DEF FollowupInv, TypeInv
<1> DEFINE FoundOf(q) == IF registered = None THEN NewQueue(s)
                         ELSE [queues[q] EXCEPT !.mode = s.mode, !.cap = s.cap,
                                                !.dropPolicy = s.dropPolicy]
           StoredOf(f) ==
             IF Duplicate(m, f) THEN f
             ELSE IF Duplicate(m, f) \/ (Len(f.items) >= f.cap /\ f.dropPolicy = "new")
             THEN [f EXCEPT !.lastRun = TRUE]
             ELSE [f EXCEPT
                     !.lastRun = TRUE, !.items = Append(Kept(f), m),
                     !.dropped = @ \cup (IF f.dropPolicy = "summarize"
                                           THEN Dropped(f) ELSE {})]
<1>1. PICK q \in Found, active \in RunActive :
        LET found == FoundOf(q)
            full == Len(found.items) >= found.cap
            refused == Duplicate(m, found) \/ (full /\ found.dropPolicy = "new")
            after == [queues EXCEPT ![q] = StoredOf(found)]
        IN  /\ Becomes(IF active THEN <<after, q>> ELSE Schedule(after, q))
            /\ recent' = IF refused THEN recent ELSE recent \cup {m}
            /\ accepted' = IF refused THEN accepted ELSE Append(accepted, m)
            /\ overflowed' = (overflowed \/ (~refused /\ full))
            /\ UNCHANGED <<agentRun, failures, handed, ran, announced, cleared,
                           clearedMidDrain>>
  BY DEF Enqueue
<1> DEFINE f == FoundOf(q)
           full == Len(f.items) >= f.cap
           refused == Duplicate(m, f) \/ (full /\ f.dropPolicy = "new")
           t == StoredOf(f)
           after == [queues EXCEPT ![q] = t]
<1>2. /\ Becomes(IF active THEN <<after, q>> ELSE Schedule(after, q))
      /\ recent' = IF refused THEN recent ELSE recent \cup {m}
      /\ accepted' = IF refused THEN accepted ELSE Append(accepted, m)
      /\ overflowed' = (overflowed \/ (~refused /\ full))
      /\ UNCHANGED <<agentRun, failures, handed, ran, announced, cleared,
                     clearedMidDrain>>
  BY <1>1
<1>3. /\ q \in Queues
      /\ registered # None => q = registered
      /\ registered = None => ~queues[q].draining /\ ~Work(queues[q])
  <2>1. Unused # {} => (CHOOSE p \in Unused : TRUE) \in Unused
    OBVIOUS
  <2> QED
    BY <1>0, <1>1, <2>1 DEF Found, Unused
<1>4. /\ f \in QueueRecords /\ Fit(f) /\ f.items = queues[q].items
      /\ f.dropped = queues[q].dropped /\ f.turn = queues[q].turn
      /\ f.step = queues[q].step /\ f.cap = s.cap
      /\ f.draining = queues[q].draining
  <2>1. CASE registered = None
    <3>1. /\ queues[q].items = <<>> /\ queues[q].dropped = {} /\ queues[q].turn = <<>>
          /\ queues[q].step = "none" /\ queues[q].draining = FALSE
      <4>1. queues[q] \in QueueRecords /\ Fit(queues[q])
        BY <1>0, <1>3
      <4>2. queues[q].draining \in BOOLEAN
        BY <4>1 DEF QueueRecords
      <4> QED
        BY <1>3, <2>1, <4>1, <4>2 DEF Work, Fit, InTurn
    <3>2. f = NewQueue(s)
      BY <2>1
    <3> HIDE DEF f
    <3>3. f.draining = FALSE
      BY <3>2 DEF NewQueue
    <3> QED
      BY <3>1, <3>2, <3>3, NewRecord
  <2>2. CASE registered # None
    <3>1. f = [queues[q] EXCEPT !.mode = s.mode, !.cap = s.cap,
                                !.dropPolicy = s.dropPolicy]
      BY <2>2
    <3> HIDE DEF f
    <3>2. queues[q] \in QueueRecords /\ Fit(queues[q])
      BY <1>0, <1>3
    <3>3. /\ f \in QueueRecords /\ f.items = queues[q].items
          /\ f.dropped = queues[q].dropped /\ f.turn = queues[q].turn
          /\ f.step = queues[q].step /\ f.cap = s.cap /\ f.draining = queues[q].draining
      BY <1>0, <3>1, <3>2 DEF QueueRecords
    <3> QED
      BY <3>2, <3>3 DEF Fit, InTurn
  <2> QED
    BY <2>1, <2>2
<1>5. /\ refused => t = f \/ t = [f EXCEPT !.lastRun = TRUE]
      /\ ~refused => t = [f EXCEPT
                             !.lastRun = TRUE, !.items = Append(Kept(f), m),
                             !.dropped = @ \cup (IF f.dropPolicy = "summarize"
                                                   THEN Dropped(f) ELSE {})]
  OBVIOUS
<1>6. ~refused => m \notin recent
  BY DEF Duplicate
<1> HIDE DEF FoundOf, StoredOf, f, t
<1>7. /\ Kept(f) \in Seq(Messages) /\ Dropped(f) \subseteq Messages
      /\ \E k \in Nat :
           /\ Len(f.items) < f.cap => k = 0
           /\ Len(f.items) = Len(Kept(f)) + k
           /\ \A i \in 1..Len(Kept(f)) : Kept(f)[i] = f.items[i + k]
  BY <1>4, KeptIsBack
<1>8. /\ t \in QueueRecords /\ t.turn = f.turn /\ t.step = f.step
      /\ t.draining = f.draining
      /\ refused => t.items = f.items /\ t.dropped = f.dropped
      /\ ~refused => /\ t.items = Append(Kept(f), m)
                     /\ t.dropped = f.dropped \cup
                          (IF f.dropPolicy = "summarize" THEN Dropped(f) ELSE {})
  <2>1. CASE refused
    BY <1>4, <1>5, <2>1 DEF QueueRecords
  <2>2. CASE ~refused
    <3>1. Append(Kept(f), m) \in Seq(Messages)
      BY <1>7
    <3>2. f.dropped \cup (IF f.dropPolicy = "summarize" THEN Dropped(f) ELSE {})
            \in SUBSET Messages
      BY <1>4, <1>7 DEF QueueRecords
    <3> QED
      BY <1>4, <1>5, <2>2, <3>1, <3>2 DEF QueueRecords
  <2> QED
    BY <2>1, <2>2
<1>9. /\ after \in [Queues -> QueueRecords] /\ after[q] = t
      /\ \A p \in Queues \ {q} : after[p] = queues[p]
      /\ \A p \in Queues : Fit(after[p])
      /\ Alone(queues, registered) => Alone(after, q)
  <2>1. after \in [Queues -> QueueRecords] /\ after[q] = t
        /\ \A p \in Queues \ {q} : after[p] = queues[p]
    BY <1>0, <1>3, <1>8
  <2>2. Fit(t)
    BY <1>4, <1>8 DEF Fit, InTurn
  <2>3. Alone(queues, registered) => Alone(after, q)
    BY <1>0, <1>3, <2>1, NoneAssumption DEF Alone
  <2> QED
    BY <1>0, <2>1, <2>2, <2>3
<1> HIDE DEF after
<1>10. /\ queues' \in [Queues -> QueueRecords] /\ registered' \in {q, None}
       /\ \A p \in Queues : Fit(queues'[p]) /\ Follows(after[p], queues'[p])
       /\ Alone(queues, registered) => Alone(queues', registered')
  <2>1. CASE active
    BY <1>2, <1>9, <2>1 DEF Becomes, Follows
  <2>2. CASE ~active
    BY <1>2, <1>3, <1>9, <2>2, ScheduleFollows DEF Becomes
  <2> QED
    BY <2>1, <2>2
<1>11. TypeInv'
  <2>1. recent' \subseteq Messages /\ accepted' \in Seq(Messages)
    BY <1>0, <1>2 DEF TypeInv
  <2>2. overflowed' \in BOOLEAN /\ registered' \in Queues \cup {None}
    BY <1>2, <1>3, <1>10
  <2>3. /\ UNCHANGED <<agentRun, handed, ran, announced, cleared, clearedMidDrain>>
        /\ \A p \in Queues : Fit(queues'[p])
    BY <1>2, <1>10
  <2> QED
    BY <1>0, <1>10, <2>1, <2>2, <2>3 DEF TypeInv
<1>12. \A p \in Queues \ {q} : Follows(queues[p], queues'[p])
  BY <1>9, <1>10
<1>13. /\ queues'[q].items = t.items /\ queues'[q].dropped = t.dropped
       /\ \/ queues'[q].turn = queues[q].turn /\ queues'[q].step = queues[q].step
          \/ queues'[q].turn = <<>> /\ ~InTurn(queues'[q])
  BY <1>3, <1>4, <1>8, <1>9, <1>10 DEF Follows
<1>14. q = registered \/ ~InTurn(queues[q])
  BY <1>0, <1>3 DEF Fit, InTurn
<1>15. CASE refused
  <2>1. \A p \in Queues : Follows(queues[p], queues'[p])
    BY <1>4, <1>8, <1>12, <1>13, <1>15 DEF Follows
  <2>2. \A p \in Queues : p = registered' /\ InTurn(queues'[p]) => p = registered
    BY <1>10, <1>13, <1>14, NoneAssumption DEF InTurn
  <2>3. UNCHANGED <<recent, accepted, handed, ran, cleared, overflowed, clearedMidDrain>>
    <3>1. overflowed \in BOOLEAN
      BY <1>0 DEF TypeInv
    <3> HIDE DEF refused, full
    <3>2. overflowed' = overflowed
      BY <1>2, <1>15, <3>1
    <3> QED
      BY <1>2, <1>15, <3>2
  <2> QED
    BY <1>10, <1>11, <2>1, <2>2, <2>3, FollowsKeepsInv
<1>16. CASE ~refused
  <2>1. PICK k \in Nat :
          /\ Len(f.items) < f.cap => k = 0
          /\ Len(f.items) = Len(Kept(f)) + k
          /\ \A i \in 1..Len(Kept(f)) : Kept(f)[i] = f.items[i + k]
    BY <1>7
  <2>2. PICK n \in Nat : n = Len(Kept(f)) /\ n + k = Len(queues[q].items)
    BY <1>4, <1>7, <2>1
  <2>3. /\ Len(queues'[q].items) = n + 1 /\ queues'[q].items[n + 1] = m
        /\ \A i \in 1..n : queues'[q].items[i] = queues[q].items[i + k]
    <3>1. /\ queues'[q].items = Append(Kept(f), m) /\ f.items = queues[q].items
          /\ Kept(f) \in Seq(Messages)
      BY <1>4, <1>7, <1>8, <1>13, <1>16
    <3>2. /\ Len(Append(Kept(f), m)) = n + 1 /\ Append(Kept(f), m)[n + 1] = m
          /\ \A i \in 1..n : Append(Kept(f), m)[i] = Kept(f)[i]
      BY <2>2, <3>1
    <3> QED
      BY <2>1, <2>2, <3>1, <3>2
  <2>4. ~overflowed' => /\ ~overflowed /\ k = 0
                        /\ queues'[q].dropped = queues[q].dropped
    <3> SUFFICES ASSUME ~overflowed'
                 PROVE  ~overflowed /\ k = 0 /\ queues'[q].dropped = queues[q].dropped
      OBVIOUS
    <3>1. ~overflowed /\ ~full
      BY <1>2, <1>16
    <3>2. Len(f.items) < f.cap
      BY <1>4, <3>1 DEF QueueRecords
    <3>3. Dropped(f) = {}
      BY <3>2 DEF Dropped, Kept
    <3> QED
      BY <1>4, <1>8, <1>13, <1>16, <2>1, <3>1, <3>2, <3>3
  <2>5. /\ accepted' = Append(accepted, m) /\ recent' = recent \cup {m}
        /\ UNCHANGED <<handed, ran, cleared, clearedMidDrain>>
    BY <1>2, <1>16
  <2>6. m \in Messages \ recent
    BY <1>6, <1>16
  <2> HIDE DEF full, refused
  <2>7. Alone(queues, registered) => Alone(queues', registered')
    BY <1>10
  <2>8. q \in Queues /\ registered' \in {q, None}
    BY <1>3, <1>10
  <2> QED
    <3>1. Accepts(m, q, k, n)
      BY <1>12, <1>13, <1>14, <2>2, <2>3, <2>4, <2>5, <2>7, <2>8 DEF Accepts
    <3> QED
      BY <1>11, <2>1, <2>2, <2>6, <2>8, <3>1, AcceptKeepsInv
<1> QED
  BY <1>15, <1>16
\* The types through the start of a turn.
LEMMA StartTurnTypes ==
  ASSUME TypeInv, NEW q \in Queues, NEW kind \in {"item", "collect", "summary"},
         NEW turn \in Seq(Messages), NEW noted \in SUBSET Messages,
         kind = "item" => Len(turn) = 1, kind = "summary" => turn = <<>>,
         StartTurn(q, kind, turn, noted)
  PROVE  TypeInv'
<1> DEFINE t == [queues[q] EXCEPT !.step = kind, !.turn = turn, !.noted = noted,
                                  !.forced = @ \/ Individually(queues[q])]
<1>1. queues[q] \in QueueRecords /\ Fit(queues[q]) /\ queues[q].draining
  BY DEF TypeInv, StartTurn, Fit
<1>2. t \in QueueRecords /\ t.step = kind /\ t.turn = turn /\ t.draining
  BY <1>1 DEF QueueRecords
<1>3. queues' = [queues EXCEPT ![q] = t]
  BY <1>1 DEF StartTurn, QueueRecords, TypeInv
<1> HIDE DEF t
<1>4. Fit(t)
  BY <1>2 DEF Fit, InTurn
<1>5. queues' \in [Queues -> QueueRecords] /\ \A p \in Queues : Fit(queues'[p])
  BY <1>2, <1>3, <1>4 DEF TypeInv
<1>6. handed' \subseteq Messages
  <2>1. Elems(turn) \subseteq Messages
    BY DEF Elems
  <2> QED
    BY <2>1 DEF StartTurn, TypeInv
<1> QED
  BY <1>5, <1>6 DEF StartTurn, TypeInv

-----------------------------------------------------------------------------
(* The theorems. *)

\* The invariant holds at the start ...
LEMMA FollowupInit == Init => FollowupInv
<1> SUFFICES ASSUME Init PROVE FollowupInv
  OBVIOUS
<1>1. /\ queues \in [Queues -> QueueRecords]
      /\ \A q \in Queues : queues[q] = Blank
  BY BlankRecord DEF Init
<1>2. TypeInv
  <2>1. accepted \in Seq(Messages)
    BY DEF Init
  <2> QED
    BY <1>1, <2>1, BlankRecord DEF Init, TypeInv
<1>3. \A q \in Queues : Held(q) = {} /\ Len(queues[q].items) = 0
  BY <1>1, BlankRecord DEF Held, Elems
<1>4. OneHolder
  BY <1>3 DEF Init, OneHolder, Elems
<1>5. ItemsInOrder
  BY <1>3 DEF ItemsInOrder
<1>6. RunsOnce
  BY <1>1, <1>3, BlankRecord DEF RunsOnce
<1>7. RemovesItsTurn
  BY <1>1, BlankRecord DEF RemovesItsTurn
<1>8. OnlyOverflowLoses
  BY DEF Init, OnlyOverflowLoses, Elems
<1>9. FreshAreLater
  BY <1>1, BlankRecord DEF Init, FreshAreLater, Alone
<1> QED
  BY <1>2, <1>4, <1>5, <1>6, <1>7, <1>8, <1>9 DEF FollowupInv

\* ... and through every step, ...
LEMMA FollowupStep == FollowupInv /\ [Next]_vars => FollowupInv'
<1> SUFFICES ASSUME FollowupInv, [Next]_vars PROVE FollowupInv'
  OBVIOUS
<1>0. /\ TypeInv /\ registered \in Queues \cup {None}
      /\ queues \in [Queues -> QueueRecords] /\ \A p \in Queues : Fit(queues[p])
      /\ agentRun \in {"active", "ended", "none"}
  BY DEF FollowupInv, TypeInv
<1>1. ASSUME NEW m \in Messages, NEW s \in Settings, Enqueue(m, s) PROVE FollowupInv'
  BY <1>1, EnqueueKeepsInv
<1>2. CASE Clear
  <2>1. TypeInv'
    <3>1. registered \in Queues /\ queues[registered] \in QueueRecords
          /\ Fit(queues[registered])
      BY <1>0, <1>2 DEF Clear
    <3> DEFINE t == IF ~queues[registered].draining THEN Blank
                    ELSE [queues[registered] EXCEPT !.items = <<>>, !.dropped = {},
                                                    !.lastRun = FALSE]
    <3>2. t \in QueueRecords /\ Fit(t)
      <4>1. CASE ~queues[registered].draining
        BY <4>1, BlankRecord
      <4>2. CASE queues[registered].draining
        <5>1. <<>> \in Seq(Messages) /\ {} \in SUBSET Messages
          OBVIOUS
        <5>2. /\ t \in QueueRecords /\ t.draining = queues[registered].draining
              /\ t.step = queues[registered].step /\ t.turn = queues[registered].turn
          BY <3>1, <4>2, <5>1 DEF QueueRecords
        <5> QED
          BY <3>1, <5>2 DEF Fit, InTurn
      <4> QED
        BY <4>1, <4>2
    <3>3. queues' = [queues EXCEPT ![registered] = t]
      BY <1>2 DEF Clear
    <3> HIDE DEF t
    <3>4. queues' \in [Queues -> QueueRecords] /\ \A p \in Queues : Fit(queues'[p])
      BY <1>0, <3>1, <3>2, <3>3
    <3>5. cleared' \subseteq Messages
      <4>1. /\ Elems(queues[registered].items) \subseteq Messages
            /\ queues[registered].dropped \subseteq Messages
        BY <3>1 DEF QueueRecords, Elems
      <4> QED
        BY <1>0, <1>2, <4>1 DEF Clear, TypeInv
    <3>6. /\ registered' = None /\ clearedMidDrain' \in BOOLEAN
          /\ UNCHANGED <<agentRun, recent, accepted, handed, ran, announced, overflowed>>
      BY <1>2 DEF Clear
    <3> QED
      BY <1>0, <3>4, <3>5, <3>6 DEF TypeInv
  <2> QED
    BY <1>2, <2>1, ClearKeepsInv
<1>3. CASE StartRun \/ RunStops \/ UNCHANGED vars
  <2>1. /\ UNCHANGED <<queues, registered, recent, fates>>
        /\ agentRun' \in {"active", "ended", "none"}
    BY <1>0, <1>3 DEF StartRun, RunStops, vars, registry
  <2> DEFINE r == <<queues, registered>>
  <2>2. Becomes(r) /\ \A p \in Queues : Follows(queues[p], r[1][p])
    BY <2>1 DEF Becomes, Follows
  <2> QED
    BY <1>0, <2>1, <2>2, RegistryStepKeepsInv
<1>4. CASE Finalize
  <2>1. /\ Becomes(Schedule(queues, registered)) /\ UNCHANGED <<recent, fates>>
        /\ agentRun' = "none"
    BY <1>4 DEF Finalize
  <2> QED
    BY <1>0, <2>1, ScheduleFollows, RegistryStepKeepsInv
<1>5. ASSUME NEW q \in Queues, StartItem(q) PROVE FollowupInv'
  <2> DEFINE turn == SubSeq(queues[q].items, 1, 1)
  <2>1. /\ queues[q].items \in Seq(Messages) /\ queues[q].items # <<>>
        /\ StartTurn(q, "item", turn, {})
    BY <1>0, <1>5, RecordTypes DEF StartItem, ItemTurn
  <2>2. /\ turn \in Seq(Messages) /\ Len(turn) = 1 /\ 1 <= Len(queues[q].items)
        /\ \A i \in 1..Len(turn) : turn[i] = queues[q].items[i]
    BY <2>1
  <2> HIDE DEF turn
  <2>3. TypeInv'
    BY <1>0, <2>1, <2>2, StartTurnTypes
  <2> QED
    BY <2>1, <2>2, <2>3, StartTurnKeepsInv
<1>6. ASSUME NEW q \in Queues, StartCollect(q) PROVE FollowupInv'
  <2>0. PICK turn \in Seq(Messages) : turn = queues[q].items
    BY <1>0, RecordTypes
  <2> DEFINE noted == IF HasSummary(queues[q]) THEN queues[q].dropped ELSE {}
  <2>1. noted \in SUBSET Messages
    BY <1>0, RecordTypes
  <2>2. StartTurn(q, "collect", turn, noted)
    BY <1>6, <2>0 DEF StartCollect
  <2>3. /\ Len(turn) <= Len(queues[q].items)
        /\ \A i \in 1..Len(turn) : turn[i] = queues[q].items[i]
    BY <2>0
  <2> HIDE DEF noted
  <2>4. TypeInv'
    BY <1>0, <2>0, <2>1, <2>2, StartTurnTypes
  <2> QED
    BY <2>0, <2>1, <2>2, <2>3, <2>4, StartTurnKeepsInv
<1>7. ASSUME NEW q \in Queues, StartSummary(q) PROVE FollowupInv'
  <2> DEFINE turn == <<>>
  <2>1. /\ turn \in Seq(Messages) /\ Len(turn) = 0
        /\ queues[q].dropped \in SUBSET Messages /\ queues[q].items \in Seq(Messages)
    BY <1>0, RecordTypes
  <2>2. StartTurn(q, "summary", turn, queues[q].dropped) /\ queues[q].dropped # {}
    BY <1>7 DEF StartSummary, SummaryTurn, HasSummary
  <2>3. /\ Len(turn) <= Len(queues[q].items) /\ turn = <<>>
        /\ \A i \in 1..Len(turn) : turn[i] = queues[q].items[i]
    BY <2>1
  <2> HIDE DEF turn
  <2>4. TypeInv'
    BY <1>0, <2>1, <2>2, <2>3, StartTurnTypes
  <2> QED
    BY <2>1, <2>2, <2>3, <2>4, StartTurnKeepsInv
<1>8. ASSUME NEW q \in Queues, BreakLoop(q) \/ TurnFails(q) PROVE FollowupInv'
  <2>1. /\ Becomes(EndDrain(queues, registered, q)) /\ UNCHANGED <<agentRun, recent, fates>>
        /\ queues[q].step # "none"
    BY <1>8 DEF BreakLoop, TurnFails, InTurn
  <2>2. queues[q].draining
    BY <1>0, <2>1 DEF Fit
  <2> QED
    BY <1>0, <2>1, <2>2, EndDrainFollows, RegistryStepKeepsInv
<1>9. ASSUME NEW q \in Queues, TurnDone(q) PROVE FollowupInv'
  BY <1>9, TurnDoneKeepsInv
<1> QED
  BY <1>1, <1>2, <1>3, <1>4, <1>5, <1>6, <1>7, <1>8, <1>9
     DEF Next, DebounceOver, TurnEnds

\* ... so always.
LEMMA FollowupInvariance == Spec => []FollowupInv
<1> QED
  BY FollowupInit, FollowupStep, PTL DEF Spec

\* Types, `draining` as the mark of a live loop, and prompts only in turns.
THEOREM FollowupTypeCorrect == Spec => []FollowupTypeOK
<1>1. FollowupInv => FollowupTypeOK
  <2> SUFFICES ASSUME FollowupInv PROVE FollowupTypeOK
    OBVIOUS
  <2>1. TypeInv
    BY DEF FollowupInv
  <2>2. \A q \in Queues : /\ queues[q].items \in Seq(Messages)
                          /\ queues[q].dropped \subseteq Messages
                          /\ queues[q].draining <=> queues[q].step # "none"
    BY <2>1, RecordTypes DEF Fit
  <2> QED
    BY <2>1, <2>2 DEF TypeInv, FollowupTypeOK
<1> QED
  BY <1>1, FollowupInvariance, PTL

\* No message is answered twice, whatever fails, is dropped or is cleared.
THEOREM MessagesAnsweredOnce == Spec => []AnsweredOnce
<1>1. FollowupInv => AnsweredOnce
  BY DEF FollowupInv, OneHolder, RunsOnce, Held, AnsweredOnce
<1> QED
  BY <1>1, FollowupInvariance, PTL

\* Only a full queue loses a message.
THEOREM NothingElseLoses == Spec => []OnlyOverflowLoses
<1>1. FollowupInv => OnlyOverflowLoses
  BY DEF FollowupInv
<1> QED
  BY <1>1, FollowupInvariance, PTL

\* The rank of a message is its position among the accepted ones, ...
LEMMA RankOfPosition ==
  ASSUME FollowupInv, NEW i \in 1..Len(accepted)
  PROVE  Rank(accepted[i]) = i
BY DEF FollowupInv, OneHolder, Rank

\* ... lower for earlier ones.
LEMMA EarlierRanksLower ==
  ASSUME FollowupInv, NEW m, NEW n, Earlier(accepted, m, n)
  PROVE  Rank(m) < Rank(n)
BY RankOfPosition DEF Earlier

\* A turn made of items of a queue comes after all that was handed out.
LEMMA TurnInOrder ==
  ASSUME FollowupInv, ~clearedMidDrain, NEW q \in Queues,
         handed' \subseteq handed \cup Elems(queues[q].items),
         NEW m \in handed' \ handed, NEW n \in handed
  PROVE  Rank(n) < Rank(m)
<1>1. PICK j \in 1..Len(queues[q].items) : queues[q].items[j] = m
  BY DEF Elems
<1>2. Earlier(accepted, n, m)
  BY <1>1 DEF FollowupInv, FreshAreLater
<1> QED
  BY <1>2, EarlierRanksLower
\* Messages go to the agent in the order they were accepted, in every mode and
\* through retries, unless a queue is cleared under its loop.
THEOREM MessagesHandedInOrder == Spec => HandedInOrder
<1>1. FollowupInv /\ [Next]_vars =>
        [\A m \in handed' \ handed, n \in handed : Rank(n) < Rank(m) \/ clearedMidDrain]_vars
  <2> SUFFICES ASSUME FollowupInv, Next, ~clearedMidDrain,
                      NEW m \in handed' \ handed, NEW n \in handed
               PROVE  Rank(n) < Rank(m)
    BY DEF vars, fates
  <2>1. PICK q \in Queues : StartItem(q) \/ StartCollect(q) \/ StartSummary(q)
    <3>1. ASSUME NEW a \in Messages, NEW s \in Settings, Enqueue(a, s)
          PROVE  handed' = handed
      BY <3>1 DEF Enqueue
    <3>2. Clear \/ StartRun \/ RunStops \/ Finalize => handed' = handed
      BY DEF Clear, StartRun, RunStops, Finalize, fates
    <3>3. \A q \in Queues : BreakLoop(q) \/ TurnEnds(q) => handed' = handed
      BY DEF BreakLoop, TurnEnds, TurnDone, TurnFails, fates
    <3> QED
      BY <3>1, <3>2, <3>3 DEF Next, DebounceOver
  <2>2. queues[q].items \in Seq(Messages)
    BY RecordTypes DEF FollowupInv
  <2>3. handed' \subseteq handed \cup Elems(queues[q].items)
    <3>1. CASE StartItem(q)
      BY <2>2, <3>1 DEF StartItem, ItemTurn, StartTurn, Elems
    <3>2. CASE StartCollect(q)
      BY <3>2 DEF StartCollect, StartTurn
    <3>3. CASE StartSummary(q)
      BY <3>3 DEF StartSummary, StartTurn, Elems
    <3> QED
      BY <2>1, <3>1, <3>2, <3>3
  <2> QED
    BY <2>3, TurnInOrder
<1> QED
  BY <1>1, FollowupInvariance, PTL DEF Spec, HandedInOrder
=============================================================================
