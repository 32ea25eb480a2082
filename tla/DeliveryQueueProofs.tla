------------------------ MODULE DeliveryQueueProofs ------------------------
(***************************************************************************)
(* Proofs about DeliveryQueue, for any messages, passes, retries and       *)
(* number of crashes.  NothingLost needs to know that what is acknowledged *)
(* was discharged (AckedOnly); ClosedIsFinal that no handler has a closed  *)
(* message before it, nor the directory a file of it (ClosedGone), which   *)
(* holds because a message is closed only when no other handler is         *)
(* concerned with it and no pass reads a message twice (Once).             *)
(***************************************************************************)
EXTENDS DeliveryQueue, FiniteSetTheorems, SequenceTheorems, TLAPS

-----------------------------------------------------------------------------
(* The inductive invariant *)

WorkSteps == {"sending", "acking", "failing", "rewriting"}
Working(h) == at[h] \in WorkSteps \cup {"moving"}

\* The messages of a list, and that it names each once.
IdsOf(s) == {s[i].id : i \in DOMAIN s}
Once(s) == \A i, j \in DOMAIN s : s[i].id = s[j].id => i = j

Types ==
  /\ DeliveryTypeOK
  /\ todo \in [Passes -> Seq(Snapshot)]
  /\ closed \subseteq begun /\ IsFiniteSet(begun)

\* A live delivery does what deliverOutboundPayloads does, a pass works on an entry.
Where ==
  /\ \A m \in Messages : at[m] \in WorkSteps \cup {"idle"}
  /\ \A r \in Passes : Working(r) => todo[r] # <<>>

ListsOnce == \A r \in Passes : Once(todo[r])

BegunOnly ==
  /\ \A h \in Handlers : Concerned(h) \subseteq begun
  /\ \A m \in Messages : entry[m] # NoEntry => m \in begun

ClosedGone ==
  /\ \A h \in Handlers : Concerned(h) \cap closed = {}
  /\ \A m \in closed : entry[m] = NoEntry

AckedOnly == \A h \in Handlers : at[h] = "acking" => Current(h) \in discharged

DeliveryInv ==
  Types /\ Where /\ ListsOnce /\ BegunOnly /\ ClosedGone /\ AckedOnly /\ NothingLost

\* What is known of a list: of its head, and of what is left of it.
LEMMA IdsLemma ==
  ASSUME NEW s \in Seq(Snapshot)
  PROVE  /\ IdsOf(s) \subseteq Messages
         /\ s # <<>> => /\ Head(s) \in Snapshot
                        /\ Head(s).id \in IdsOf(s)
                        /\ Tail(s) \in Seq(Snapshot)
                        /\ IdsOf(Tail(s)) \subseteq IdsOf(s)
                        /\ Once(s) => Once(Tail(s)) /\ Head(s).id \notin IdsOf(Tail(s))
<1>1. /\ Len(s) \in Nat /\ DOMAIN s = 1..Len(s)
      /\ \A i \in 1..Len(s) : s[i] \in Snapshot
  BY LenProperties, ElementOfSeq
<1>2. IdsOf(s) \subseteq Messages
  BY <1>1 DEF IdsOf, Snapshot
<1>3. ASSUME s # <<>>
      PROVE  /\ Head(s) \in Snapshot
             /\ Head(s).id \in IdsOf(s)
             /\ Tail(s) \in Seq(Snapshot)
             /\ IdsOf(Tail(s)) \subseteq IdsOf(s)
             /\ Once(s) => Once(Tail(s)) /\ Head(s).id \notin IdsOf(Tail(s))
  <2> DEFINE t == Tail(s)
  <2>1. /\ Head(s) \in Snapshot /\ Head(s) = s[1] /\ 1 \in DOMAIN s
        /\ t \in Seq(Snapshot) /\ Len(t) = Len(s) - 1
        /\ \A i \in 1..Len(t) : t[i] = s[i + 1]
    BY <1>1, <1>3, HeadTailProperties
  <2>2. DOMAIN t = 1..Len(t)
    BY <2>1, LenProperties
  <2> HIDE DEF t
  <2>3. \A i \in DOMAIN t : i + 1 \in DOMAIN s /\ t[i] = s[i + 1] /\ i + 1 # 1 /\ i \in Nat
    BY <1>1, <2>1, <2>2
  <2>4. IdsOf(t) \subseteq IdsOf(s)
    BY <2>3 DEF IdsOf
  <2>5. Once(s) => Once(t)
    BY <2>3 DEF Once
  <2>6. Once(s) => Head(s).id \notin IdsOf(t)
    BY <2>1, <2>3 DEF Once, IdsOf
  <2> QED
    BY <2>1, <2>4, <2>5, <2>6 DEF t, IdsOf
<1> QED
  BY <1>2, <1>3

\* A handler that works is concerned with its current message.
LEMMA CurrentLemma ==
  ASSUME DeliveryInv, NEW h \in Handlers, Working(h)
  PROVE  /\ Current(h) \in Concerned(h) /\ Current(h) \in Messages
         /\ Current(h) \in begun /\ Current(h) \notin closed
<1>1. CASE h \in Passes
  <2>1. todo[h] \in Seq(Snapshot) /\ todo[h] # <<>>
    BY <1>1 DEF DeliveryInv, Types, Where
  <2>2. /\ Head(todo[h]).id \in IdsOf(todo[h]) /\ IdsOf(todo[h]) \subseteq Messages
        /\ Concerned(h) = IdsOf(todo[h]) /\ Current(h) = Head(todo[h]).id
    BY <1>1, <2>1, IdsLemma DEF Concerned, Current, IdsOf
  <2> QED
    BY <2>2 DEF DeliveryInv, BegunOnly, ClosedGone
<1>2. CASE h \notin Passes
  <2>1. h \in Messages /\ at[h] # "idle"
    BY <1>2 DEF Handlers, Working, WorkSteps
  <2>2. Concerned(h) = {h} /\ Current(h) = h
    BY <1>2, <2>1 DEF Concerned, Current
  <2> QED
    BY <2>1, <2>2 DEF DeliveryInv, BegunOnly, ClosedGone
<1> QED
  BY <1>1, <1>2

LEMMA DeliveryInitInv == DeliveryInit => DeliveryInv
<1> SUFFICES ASSUME DeliveryInit PROVE DeliveryInv
  OBVIOUS
<1>1. <<>> \in Seq(Snapshot) /\ Once(<<>>) /\ IdsOf(<<>>) = {}
  BY EmptySeq DEF Once, IdsOf
<1>2. \A h \in Handlers : Concerned(h) = {}
  BY <1>1 DEF DeliveryInit, Concerned, Handlers, IdsOf
<1>3. Types
  BY <1>1, FS_EmptySet, DeliveryAssumption DEF DeliveryInit, Types, DeliveryTypeOK
<1>4. Where /\ ListsOnce /\ AckedOnly
  BY <1>1 DEF DeliveryInit, Where, Working, WorkSteps, ListsOnce, AckedOnly, Handlers
<1>5. BegunOnly /\ ClosedGone /\ NothingLost
  BY <1>2 DEF DeliveryInit, BegunOnly, ClosedGone, NothingLost
<1> QED
  BY <1>3, <1>4, <1>5 DEF DeliveryInv

-----------------------------------------------------------------------------
(* What a step leaves alone *)

\* Only handler h moves.
Alone(h) ==
  \A k \in Handlers \ {h} : /\ at'[k] = at[k]
                            /\ Concerned(k)' = Concerned(k)
                            /\ Current(k)' = Current(k)

\* The handlers' variables are as the invariant wants them, before the files are
\* looked at.
Posed ==
  /\ at' \in [Handlers -> WorkSteps \cup {"idle", "moving", "loading", "first", "looping"}]
  /\ todo' \in [Passes -> Seq(Snapshot)]
  /\ Where' /\ ListsOnce'

LEMMA AloneLemma ==
  ASSUME NEW h \in Handlers, \A k \in Handlers \ {h} : at'[k] = at[k],
         \A r \in Passes : r # h => todo'[r] = todo[r]
  PROVE  Alone(h)
BY DEF Alone, Concerned, Current

\* A handler goes on with the message it works on.
LEMMA TurnLemma ==
  ASSUME DeliveryInv, NEW h \in Handlers, Turn(h, at'[h]), todo' = todo, Working(h),
         at'[h] \in WorkSteps \/ (h \in Passes /\ at'[h] = "moving")
  PROVE  /\ Posed /\ Alone(h)
         /\ Concerned(h)' = Concerned(h) /\ Current(h)' = Current(h)
<1>1. /\ at \in [Handlers -> WorkSteps \cup {"idle", "moving", "loading", "first", "looping"}]
      /\ todo \in [Passes -> Seq(Snapshot)]
      /\ at' = [at EXCEPT ![h] = at'[h]]
      /\ Messages \cap Passes = {} /\ Handlers = Messages \cup Passes
  BY HandlersAssumption DEF DeliveryInv, Types, DeliveryTypeOK, WorkSteps, Turn, Handlers
<1>2. /\ at' \in [Handlers -> WorkSteps \cup {"idle", "moving", "loading", "first", "looping"}]
      /\ \A k \in Handlers \ {h} : at'[k] = at[k]
  BY <1>1
<1>3. Alone(h)
  BY <1>2, AloneLemma
<1>4. Where'
  BY <1>1, <1>2 DEF DeliveryInv, Where, Working
<1>5. ListsOnce'
  BY DEF DeliveryInv, ListsOnce, Once
<1>6. Concerned(h)' = Concerned(h) /\ Current(h)' = Current(h)
  BY <1>1 DEF Concerned, Current, Working, WorkSteps
<1> QED
  BY <1>1, <1>2, <1>3, <1>4, <1>5, <1>6 DEF Posed

\* A pass begins, ends or has read the directory.
LEMMA PassLemma ==
  ASSUME DeliveryInv, NEW r \in Passes, Turn(r, at'[r]),
         NEW s \in Seq(Snapshot), Once(s), todo' = [todo EXCEPT ![r] = s],
         at'[r] \in {"idle", "loading", "first", "looping"}
           \/ (s # <<>> /\ at'[r] \in {"sending", "failing", "moving"})
  PROVE  /\ Posed /\ Alone(r)
         /\ Concerned(r)' = IdsOf(s)
         /\ s # <<>> => Current(r)' = Head(s).id
<1>1. /\ at \in [Handlers -> WorkSteps \cup {"idle", "moving", "loading", "first", "looping"}]
      /\ todo \in [Passes -> Seq(Snapshot)]
      /\ at' = [at EXCEPT ![r] = at'[r]]
      /\ r \in Handlers /\ Messages \cap Passes = {} /\ Handlers = Messages \cup Passes
      /\ ListsOnce /\ Where
  BY HandlersAssumption DEF DeliveryInv, Types, DeliveryTypeOK, WorkSteps, Turn, Handlers
<1>2. /\ at' \in [Handlers -> WorkSteps \cup {"idle", "moving", "loading", "first", "looping"}]
      /\ \A k \in Handlers \ {r} : at'[k] = at[k]
      /\ todo' \in [Passes -> Seq(Snapshot)] /\ todo'[r] = s
      /\ \A q \in Passes : q # r => todo'[q] = todo[q]
  BY <1>1 DEF WorkSteps
<1>3. Alone(r)
  BY <1>1, <1>2, AloneLemma
<1>4. Where'
  <2>1. \A m \in Messages : at'[m] = at[m]
    BY <1>1, <1>2
  <2>2. \A q \in Passes : q # r => at'[q] = at[q]
    BY <1>1, <1>2
  <2>3. at'[r] \in WorkSteps \cup {"moving"} => s # <<>>
    BY DEF WorkSteps
  <2> QED
    BY <1>1, <1>2, <2>1, <2>2, <2>3 DEF Where, Working
<1>5. ListsOnce'
  <2>1. \A q \in Passes : Once(todo'[q])
    BY <1>1, <1>2 DEF ListsOnce
  <2> QED
    BY <2>1 DEF ListsOnce, Once
<1>6. Concerned(r)' = IdsOf(s) /\ Current(r)' = Head(s).id
  BY <1>2 DEF Concerned, Current, IdsOf
<1> QED
  BY <1>2, <1>3, <1>4, <1>5, <1>6 DEF Posed

\* A handler is through with its message.
LEMMA DoneLemma ==
  ASSUME DeliveryInv, NEW h \in Handlers, Done(h), Working(h)
  PROVE  /\ Posed /\ Alone(h)
         /\ Concerned(h)' \subseteq Concerned(h) \ {Current(h)}
         /\ at'[h] \in {"looping", "idle"}
<1>1. /\ at \in [Handlers -> WorkSteps \cup {"idle", "moving", "loading", "first", "looping"}]
      /\ todo \in [Passes -> Seq(Snapshot)]
      /\ Messages \cap Passes = {} /\ Handlers = Messages \cup Passes
      /\ ListsOnce /\ Where
  BY HandlersAssumption DEF DeliveryInv, Types, DeliveryTypeOK, WorkSteps, Handlers
<1>2. CASE h \in Passes
  <2> DEFINE s == todo[h]
             t == Tail(s)
  <2>1. /\ s \in Seq(Snapshot) /\ s # <<>> /\ Once(s)
        /\ todo' = [todo EXCEPT ![h] = t]
        /\ at' = [at EXCEPT ![h] = "looping"]
    BY <1>1, <1>2 DEF Where, ListsOnce, Done, Turn
  <2>2. /\ t \in Seq(Snapshot) /\ Once(t)
        /\ IdsOf(t) \subseteq IdsOf(s) \ {Head(s).id}
    BY <2>1, IdsLemma
  <2>3. Concerned(h) = IdsOf(s) /\ Current(h) = Head(s).id
    BY <1>2 DEF Concerned, Current, IdsOf
  <2> HIDE DEF s, t
  <2>4. Turn(h, at'[h]) /\ at'[h] = "looping"
    BY <1>1, <2>1 DEF Turn
  <2>5. Posed /\ Alone(h) /\ Concerned(h)' = IdsOf(t)
    BY <1>2, <2>1, <2>2, <2>4, PassLemma
  <2> QED
    BY <2>2, <2>3, <2>4, <2>5
<1>3. CASE h \notin Passes
  <2>1. at' = [at EXCEPT ![h] = "idle"] /\ todo' = todo /\ h \in Messages
    BY <1>1, <1>3 DEF Done, Turn
  <2>2. /\ at' \in [Handlers -> WorkSteps \cup {"idle", "moving", "loading", "first", "looping"}]
        /\ at'[h] = "idle" /\ \A k \in Handlers \ {h} : at'[k] = at[k]
    BY <1>1, <2>1
  <2>3. Alone(h)
    BY <2>1, <2>2, AloneLemma
  <2>4. Where' /\ ListsOnce'
    BY <1>1, <2>1, <2>2 DEF Where, Working, WorkSteps, ListsOnce, Once
  <2>5. Concerned(h)' = {}
    BY <1>3, <2>2 DEF Concerned
  <2> QED
    BY <1>1, <2>1, <2>2, <2>3, <2>4, <2>5 DEF Posed
<1> QED
  BY <1>2, <1>3

\* The rest of the invariant: what a step of handler h must show of the files.
LEMMA Preserve ==
  ASSUME DeliveryInv, NEW h \in Handlers, Posed, Alone(h), DeliveryTypeOK',
         begun \subseteq begun', IsFiniteSet(begun'),
         Concerned(h)' \subseteq begun', Concerned(h)' \cap closed' = {},
         \A m \in Messages : entry'[m] # NoEntry => m \in begun',
         closed \subseteq closed', closed' \subseteq begun',
         \A m \in closed' : entry'[m] = NoEntry,
         \A m \in closed' \ closed : \A k \in Handlers \ {h} : m \notin Concerned(k),
         at'[h] = "acking" => (Current(h) \in discharged)',
         discharged \subseteq discharged',
         NothingLost'
  PROVE  DeliveryInv' /\ closed \subseteq closed'
<1>1. Types'
  BY DEF Types, Posed
<1>2. BegunOnly'
  BY DEF BegunOnly, DeliveryInv, Alone
<1>3. ClosedGone'
  BY DEF ClosedGone, DeliveryInv, Alone
<1>4. AckedOnly'
  BY DEF AckedOnly, DeliveryInv, Alone
<1> QED
  BY <1>1, <1>2, <1>3, <1>4 DEF DeliveryInv, Posed

-----------------------------------------------------------------------------
(* The actions, one by one *)

Good == DeliveryInv' /\ closed \subseteq closed'

Entries == [retries : 0..MaxRetries, cooling : BOOLEAN]

\* What the invariant says, as the lemmas below need it.
LEMMA Facts ==
  ASSUME DeliveryInv
  PROVE  /\ gatewayUp \in BOOLEAN
         /\ entry \in [Messages -> {NoEntry} \cup Entries]
         /\ \A m \in Messages : entry[m] # NoEntry => entry[m] \in Entries
         /\ failedDir \subseteq Messages
         /\ countRead \in [Handlers -> 0..MaxRetries]
         /\ accepted \subseteq begun /\ begun \subseteq Messages
         /\ closed \subseteq begun /\ IsFiniteSet(begun)
         /\ \A h \in Handlers : /\ Concerned(h) \subseteq begun
                                /\ Concerned(h) \cap closed = {}
         /\ \A m \in Messages : entry[m] # NoEntry => m \in begun
         /\ \A m \in closed : entry[m] = NoEntry
         /\ \A m \in accepted : entry[m] # NoEntry \/ m \in failedDir \cup discharged
         /\ Handlers = Messages \cup Passes /\ Messages \cap Passes = {}
         /\ MaxRetries \in Nat \ {0}
         /\ NoEntry \notin Entries
BY HandlersAssumption, NoEntryAssumption, DeliveryAssumption
   DEF DeliveryInv, Types, DeliveryTypeOK, BegunOnly, ClosedGone, NothingLost, Handlers, Entries

LEMMA SendEndsStep ==
  ASSUME DeliveryInv, NEW h \in Handlers, SendEnds(h)
  PROVE  Good
<1>1. /\ Working(h) /\ todo' = todo /\ Turn(h, at'[h])
      /\ at'[h] \in {"acking", "failing"} \/ (h \in Passes /\ at'[h] = "moving")
  <2>1. at \in [Handlers -> WorkSteps \cup {"idle", "moving", "loading", "first", "looping"}]
    BY DEF DeliveryInv, Types, DeliveryTypeOK, WorkSteps
  <2> QED
    BY <2>1 DEF SendEnds, Answer, Turn, Working, WorkSteps
<1>2. /\ Posed /\ Alone(h)
      /\ Concerned(h)' = Concerned(h) /\ Current(h)' = Current(h)
  BY <1>1, TurnLemma DEF WorkSteps
<1>3. /\ UNCHANGED <<gatewayUp, entry, failedDir, begun, countRead, accepted, closed>>
      /\ discharged \subseteq discharged'
      /\ at'[h] = "acking" => Current(h) \in discharged'
  <2>1. at \in [Handlers -> WorkSteps \cup {"idle", "moving", "loading", "first", "looping"}]
    BY DEF DeliveryInv, Types, DeliveryTypeOK, WorkSteps
  <2> QED
    BY <2>1 DEF SendEnds, Answer, Turn, files
<1>4. DeliveryTypeOK'
  BY <1>2, <1>3, Facts DEF DeliveryTypeOK, Posed, WorkSteps, Entries
<1>5. NothingLost'
  BY <1>3, Facts DEF NothingLost
<1>6. at'[h] = "acking" => (Current(h) \in discharged)'
  BY <1>2, <1>3
<1> QED
  BY <1>2, <1>3, <1>4, <1>5, <1>6, Facts, Preserve DEF Good

LEMMA AckStep ==
  ASSUME DeliveryInv, NEW h \in Handlers, Ack(h)
  PROVE  Good
<1> DEFINE m == Current(h)
<1>1. at[h] = "acking" /\ Working(h) /\ Done(h)
  BY DEF Ack, AckRename, Working, WorkSteps
<1>2. /\ Posed /\ Alone(h)
      /\ Concerned(h)' \subseteq Concerned(h) \ {m}
      /\ at'[h] # "acking"
  BY <1>1, DoneLemma
<1>3. m \in begun /\ m \in Messages /\ m \notin closed /\ m \in discharged
  BY <1>1, CurrentLemma DEF DeliveryInv, AckedOnly
<1>4. /\ UNCHANGED <<gatewayUp, failedDir, begun, countRead, accepted, discharged>>
      /\ entry' = [entry EXCEPT ![m] = NoEntry]
      /\ closed' = closed \/ closed' = closed \cup ({m} \ Others(h))
  BY DEF Ack, AckRename, fate
<1>5. \A k \in Handlers \ {h} : m \notin Others(h) => m \notin Concerned(k)
  BY DEF Others
<1> HIDE DEF m
<1>6. DeliveryTypeOK'
  BY <1>2, <1>4, Facts DEF DeliveryTypeOK, Posed, WorkSteps, Entries
<1>7. NothingLost'
  BY <1>3, <1>4, Facts DEF NothingLost
<1>8. /\ \A n \in Messages : entry'[n] # NoEntry => n \in begun'
      /\ \A n \in closed' : entry'[n] = NoEntry
      /\ closed' \subseteq begun' /\ Concerned(h)' \cap closed' = {}
      /\ \A n \in closed' \ closed : \A k \in Handlers \ {h} : n \notin Concerned(k)
      /\ Concerned(h)' \subseteq begun'
  BY <1>2, <1>3, <1>4, <1>5, Facts
<1> QED
  BY <1>2, <1>4, <1>6, <1>7, <1>8, Facts, Preserve DEF Good

LEMMA FailReadStep ==
  ASSUME DeliveryInv, NEW h \in Handlers, FailRead(h)
  PROVE  Good
<1>1. at[h] = "failing" /\ Working(h)
  BY DEF FailRead, Working, WorkSteps
<1>2. Current(h) \in Messages
  BY <1>1, CurrentLemma
<1>3. UNCHANGED <<gatewayUp, entry, failedDir, begun, accepted, discharged, closed>>
  BY DEF FailRead, files, fate
<1>4. /\ Posed /\ Alone(h)
      /\ Concerned(h)' \subseteq Concerned(h)
      /\ at'[h] # "acking"
      /\ countRead' \in [Handlers -> 0..MaxRetries]
  <2>1. CASE entry[Current(h)] # NoEntry
    <3>1. todo' = todo /\ Turn(h, "rewriting")
      BY <2>1 DEF FailRead
    <3>2. at'[h] = "rewriting"
      BY <3>1 DEF Turn, DeliveryInv, Types, DeliveryTypeOK
    <3>3. countRead' = [countRead EXCEPT ![h] = entry[Current(h)].retries]
      BY <2>1 DEF FailRead
    <3>4. entry[Current(h)].retries \in 0..MaxRetries
      BY <1>2, <2>1, Facts DEF Entries
    <3> QED
      BY <1>1, <3>1, <3>2, <3>3, <3>4, Facts, TurnLemma DEF WorkSteps
  <2>2. CASE entry[Current(h)] = NoEntry
    <3>1. Done(h) /\ countRead' = countRead
      BY <2>2 DEF FailRead
    <3> QED
      BY <1>1, <3>1, Facts, DoneLemma
  <2> QED
    BY <2>1, <2>2
<1>5. DeliveryTypeOK'
  BY <1>3, <1>4, Facts DEF DeliveryTypeOK, Posed, WorkSteps, Entries
<1>6. NothingLost'
  BY <1>3, Facts DEF NothingLost
<1> QED
  BY <1>3, <1>4, <1>5, <1>6, Facts, Preserve DEF Good

LEMMA FailWriteStep ==
  ASSUME DeliveryInv, NEW h \in Handlers, FailWrite(h)
  PROVE  Good
<1> DEFINE m == Current(h)
           n == IF countRead[h] < MaxRetries THEN countRead[h] + 1 ELSE MaxRetries
           e == [retries |-> n, cooling |-> TRUE]
<1>1. at[h] = "rewriting" /\ Working(h) /\ Done(h)
  BY DEF FailWrite, Working, WorkSteps
<1>2. /\ Posed /\ Alone(h)
      /\ Concerned(h)' \subseteq Concerned(h) \ {m}
      /\ at'[h] # "acking"
  BY <1>1, DoneLemma
<1>3. m \in begun /\ m \in Messages /\ m \notin closed
  BY <1>1, CurrentLemma
<1>4. /\ UNCHANGED <<gatewayUp, failedDir, begun, accepted, discharged, closed>>
      /\ entry' = [entry EXCEPT ![m] = e]
      /\ countRead' = [countRead EXCEPT ![h] = 0]
  BY DEF FailWrite, fate
<1>5. e \in Entries /\ e # NoEntry
  <2>1. n \in 0..MaxRetries
    BY Facts
  <2> HIDE DEF n
  <2>2. e \in Entries
    BY <2>1 DEF Entries
  <2> QED
    BY <2>2, Facts
<1>6. /\ countRead' \in [Handlers -> 0..MaxRetries]
      /\ entry' \in [Messages -> {NoEntry} \cup Entries]
  <2> HIDE DEF m, n, e
  <2>1. countRead' \in [Handlers -> 0..MaxRetries]
    BY <1>4, Facts
  <2>2. entry' \in [Messages -> {NoEntry} \cup Entries]
    BY <1>4, <1>5, Facts
  <2> QED
    BY <2>1, <2>2
<1> HIDE DEF m, e
<1>9. DeliveryTypeOK'
  BY <1>2, <1>4, <1>6, Facts DEF DeliveryTypeOK, Posed, WorkSteps, Entries
<1>7. NothingLost'
  BY <1>3, <1>4, <1>5, Facts DEF NothingLost
<1>8. /\ \A x \in Messages : entry'[x] # NoEntry => x \in begun'
      /\ \A x \in closed' : entry'[x] = NoEntry
  BY <1>3, <1>4, Facts
<1> QED
  BY <1>2, <1>4, <1>7, <1>8, <1>9, Facts, Preserve DEF Good

LEMMA MoveStep ==
  ASSUME DeliveryInv, NEW r \in Passes, Move(r)
  PROVE  Good
<1> DEFINE m == Current(r)
<1>1. at[r] = "moving" /\ Working(r) /\ Done(r) /\ r \in Handlers
  BY DEF Move, Working, Handlers
<1>2. /\ Posed /\ Alone(r)
      /\ Concerned(r)' \subseteq Concerned(r) \ {m}
      /\ at'[r] # "acking"
  BY <1>1, DoneLemma
<1>3. m \in begun /\ m \in Messages /\ m \notin closed
  BY <1>1, CurrentLemma
<1>4. UNCHANGED <<gatewayUp, begun, countRead, accepted, discharged>>
  BY DEF Move, fate
<1>5. \/ /\ entry' = [entry EXCEPT ![m] = NoEntry] /\ failedDir' = failedDir \cup {m}
         /\ closed' = closed \cup ({m} \ Others(r))
      \/ UNCHANGED <<entry, failedDir, closed>>
  BY DEF Move, MoveEntry
<1>6. \A k \in Handlers \ {r} : m \notin Others(r) => m \notin Concerned(k)
  BY DEF Others
<1> HIDE DEF m
<1>7. DeliveryTypeOK'
  BY <1>2, <1>3, <1>4, <1>5, Facts DEF DeliveryTypeOK, Posed, WorkSteps, Entries
<1>8. NothingLost'
  BY <1>3, <1>4, <1>5, Facts DEF NothingLost
<1>9. /\ \A x \in Messages : entry'[x] # NoEntry => x \in begun'
      /\ \A x \in closed' : entry'[x] = NoEntry
      /\ closed \subseteq closed'
      /\ closed' \subseteq begun' /\ Concerned(r)' \cap closed' = {}
      /\ \A x \in closed' \ closed : \A k \in Handlers \ {r} : x \notin Concerned(k)
      /\ Concerned(r)' \subseteq begun'
  BY <1>1, <1>2, <1>3, <1>4, <1>5, <1>6, Facts
<1> QED
  BY <1>1, <1>2, <1>4, <1>7, <1>8, <1>9, Facts, Preserve DEF Good

LEMMA DeliverStep ==
  ASSUME DeliveryInv, NEW m \in Messages, Deliver(m)
  PROVE  Good
<1>1. /\ m \notin begun /\ begun' = begun \cup {m} /\ todo' = todo
      /\ UNCHANGED <<gatewayUp, failedDir, countRead, discharged, closed>>
      /\ \/ /\ entry' = [entry EXCEPT ![m] = [retries |-> 0, cooling |-> FALSE]]
            /\ accepted' = accepted \cup {m}
            /\ at' = [at EXCEPT ![m] = "sending"]
         \/ UNCHANGED <<entry, accepted, at>>
  BY DEF Deliver, Turn
<1>2. /\ at \in [Handlers -> WorkSteps \cup {"idle", "moving", "loading", "first", "looping"}]
      /\ todo \in [Passes -> Seq(Snapshot)] /\ Where /\ ListsOnce
      /\ m \in Handlers /\ m \notin Passes
  BY Facts DEF DeliveryInv, Types, DeliveryTypeOK, WorkSteps
<1>3. [retries |-> 0, cooling |-> FALSE] \in Entries
  BY Facts DEF Entries
<1>4. /\ at' \in [Handlers -> WorkSteps \cup {"idle", "moving", "loading", "first", "looping"}]
      /\ at'[m] = at[m] \/ at'[m] = "sending"
      /\ \A k \in Handlers \ {m} : at'[k] = at[k]
  BY <1>1, <1>2 DEF WorkSteps
<1>5. Alone(m)
  BY <1>1, <1>2, <1>4, AloneLemma
<1>6. Posed
  <2>1. Where'
    BY <1>1, <1>2, <1>4, Facts DEF Where, Working, WorkSteps
  <2>2. ListsOnce'
    BY <1>1, <1>2 DEF ListsOnce, Once
  <2> QED
    BY <1>1, <1>2, <1>4, <2>1, <2>2 DEF Posed
<1>7. at'[m] # "acking" /\ Concerned(m)' \subseteq {m}
  <2>1. Concerned(m)' \subseteq {m}
    BY <1>2 DEF Concerned
  <2>2. at[m] # "acking"
    BY <1>1, <1>2, CurrentLemma DEF Working, WorkSteps, Current
  <2> QED
    BY <1>4, <2>1, <2>2
<1>8. entry' \in [Messages -> {NoEntry} \cup Entries] /\ IsFiniteSet(begun')
  <2>1. IsFiniteSet(begun')
    BY <1>1, Facts, FS_AddElement
  <2> DEFINE e == [retries |-> 0, cooling |-> FALSE]
  <2>2. e \in Entries /\ (entry' = [entry EXCEPT ![m] = e] \/ entry' = entry)
    BY <1>1, <1>3
  <2> HIDE DEF e
  <2>3. entry' \in [Messages -> {NoEntry} \cup Entries]
    BY <2>2, Facts
  <2> QED
    BY <2>1, <2>3
<1>9. DeliveryTypeOK'
  BY <1>1, <1>6, <1>8, Facts DEF DeliveryTypeOK, Posed, WorkSteps, Entries
<1>10. NothingLost'
  BY <1>1, <1>3, Facts DEF NothingLost
<1>11. /\ \A x \in Messages : entry'[x] # NoEntry => x \in begun'
       /\ \A x \in closed' : entry'[x] = NoEntry
       /\ Concerned(m)' \cap closed' = {} /\ Concerned(m)' \subseteq begun'
  BY <1>1, <1>7, Facts
<1> QED
  BY <1>1, <1>2, <1>5, <1>6, <1>7, <1>8, <1>9, <1>10, <1>11, Facts, Preserve DEF Good

\* A step of a pass that leaves files and fate alone and takes nothing on that is not
\* in the directory or on its list.
LEMMA PassKeeps ==
  ASSUME DeliveryInv, NEW r \in Passes, Posed, Alone(r),
         gatewayUp' \in BOOLEAN,
         UNCHANGED <<entry, failedDir, begun, countRead, accepted, discharged, closed>>,
         at'[r] # "acking",
         \A m \in Concerned(r)' : m \in Concerned(r) \/ (m \in Messages /\ entry[m] # NoEntry)
  PROVE  Good
<1>1. r \in Handlers
  BY Facts
<1>2. DeliveryTypeOK'
  BY Facts DEF DeliveryTypeOK, Posed, WorkSteps, Entries
<1>3. NothingLost'
  BY Facts DEF NothingLost
<1>4. Concerned(r)' \subseteq begun' /\ Concerned(r)' \cap closed' = {}
  BY <1>1, Facts
<1> QED
  BY <1>1, <1>2, <1>3, <1>4, Facts, Preserve DEF Good

\* The directory read in order of age is a list of what is in it, each once.
LEMMA LoadLemma ==
  ASSUME DeliveryInv, NEW ms \in ByAge, NEW s,
         s = [i \in DOMAIN ms |-> [id |-> ms[i], retries |-> entry[ms[i]].retries,
                                   cooling |-> entry[ms[i]].cooling]]
  PROVE  s \in Seq(Snapshot) /\ Once(s) /\ IdsOf(s) \subseteq Pending
<1>1. Pending \subseteq begun /\ Pending \subseteq Messages
  BY Facts DEF Pending
<1>2. Cardinality(Pending) \in Nat
  BY <1>1, Facts, FS_Subset, FS_CardinalityType
<1> DEFINE n == Cardinality(Pending)
<1>3. /\ n \in Nat /\ ms \in [1..n -> Pending]
      /\ \A i, j \in 1..n : i < j => ms[i] < ms[j]
  BY <1>2 DEF ByAge
<1> HIDE DEF n
<1>4. \A i \in 1..n : [id |-> ms[i], retries |-> entry[ms[i]].retries,
                       cooling |-> entry[ms[i]].cooling] \in Snapshot
  <2> SUFFICES ASSUME NEW i \in 1..n
               PROVE  [id |-> ms[i], retries |-> entry[ms[i]].retries,
                       cooling |-> entry[ms[i]].cooling] \in Snapshot
    OBVIOUS
  <2>1. ms[i] \in Messages /\ entry[ms[i]] \in Entries
    BY <1>1, <1>3, Facts DEF Pending
  <2> QED
    BY <2>1 DEF Snapshot, Entries
<1>5. s \in [1..n -> Snapshot] /\ DOMAIN s = 1..n /\ \A i \in 1..n : s[i].id = ms[i]
  BY <1>3, <1>4
<1>6. s \in Seq(Snapshot)
  BY <1>3, <1>5, IsASeq
<1>7. \A i, j \in 1..n : ms[i] = ms[j] => i = j
  <2>1. \A i \in 1..n : ms[i] \in Nat /\ i \in Nat
    <3>1. \A i \in 1..n : ms[i] \in Messages /\ i \in Nat
      BY <1>1, <1>3
    <3> QED
      BY <3>1, HandlersAssumption
  <2> QED
    BY <1>3, <2>1
<1> QED
  BY <1>3, <1>5, <1>6, <1>7 DEF Once, IdsOf

LEMMA LoadStep ==
  ASSUME DeliveryInv, NEW r \in Passes, Load(r)
  PROVE  Good
<1>1. PICK ms \in ByAge :
        todo' = [todo EXCEPT ![r] =
          [i \in DOMAIN ms |-> [id |-> ms[i], retries |-> entry[ms[i]].retries,
                                cooling |-> entry[ms[i]].cooling]]]
  BY DEF Load
<1> DEFINE s == [i \in DOMAIN ms |-> [id |-> ms[i], retries |-> entry[ms[i]].retries,
                                      cooling |-> entry[ms[i]].cooling]]
<1>2. s \in Seq(Snapshot) /\ Once(s) /\ IdsOf(s) \subseteq Pending
  BY LoadLemma
<1>3. todo' = [todo EXCEPT ![r] = s]
  BY <1>1
<1>4. Turn(r, at'[r]) /\ at'[r] = "first"
  BY Facts DEF Load, Turn, DeliveryInv, Types, DeliveryTypeOK
<1>5. /\ UNCHANGED <<entry, failedDir, begun, countRead, accepted, discharged, closed>>
      /\ gatewayUp' \in BOOLEAN
  BY Facts DEF Load, fate
<1> HIDE DEF s
<1>6. Posed /\ Alone(r) /\ Concerned(r)' = IdsOf(s)
  BY <1>2, <1>3, <1>4, PassLemma
<1> QED
  BY <1>2, <1>4, <1>5, <1>6, PassKeeps DEF Pending

LEMMA StartPassStep ==
  ASSUME DeliveryInv, NEW r \in Passes, StartPass(r) \/ EndPass(r)
  PROVE  Good
<1>1. /\ Turn(r, at'[r]) /\ at'[r] \in {"loading", "idle"} /\ todo' = todo
      /\ UNCHANGED <<entry, failedDir, begun, countRead, accepted, discharged, closed>>
      /\ gatewayUp' \in BOOLEAN
  BY Facts DEF StartPass, EndPass, Turn, DeliveryInv, Types, DeliveryTypeOK, fate, files
<1> DEFINE s == todo[r]
<1>2. /\ s \in Seq(Snapshot) /\ Once(s)
      /\ todo' = [todo EXCEPT ![r] = s]
      /\ Concerned(r) = IdsOf(s)
  BY <1>1 DEF DeliveryInv, Types, ListsOnce, Concerned, IdsOf
<1> HIDE DEF s
<1>3. Posed /\ Alone(r) /\ Concerned(r)' = IdsOf(s)
  BY <1>1, <1>2, PassLemma
<1> QED
  BY <1>1, <1>2, <1>3, PassKeeps

LEMMA ConsiderStep ==
  ASSUME DeliveryInv, NEW r \in Passes, Consider(r)
  PROVE  Good
<1> DEFINE s == todo[r]
           t == Tail(s)
<1>1. s \in Seq(Snapshot) /\ Once(s) /\ s # <<>> /\ Concerned(r) = IdsOf(s)
  BY DEF Consider, DeliveryInv, Types, ListsOnce, Concerned, IdsOf
<1>2. t \in Seq(Snapshot) /\ Once(t) /\ IdsOf(t) \subseteq IdsOf(s)
  BY <1>1, IdsLemma
<1>3. /\ UNCHANGED <<entry, failedDir, begun, countRead, accepted, discharged, closed>>
      /\ gatewayUp' \in BOOLEAN
  BY Facts DEF Consider, fate, files
<1>4. \/ /\ Turn(r, at'[r]) /\ at'[r] \in {"failing", "moving", "sending"}
         /\ todo' = [todo EXCEPT ![r] = s]
      \/ /\ Turn(r, at'[r]) /\ at'[r] = "looping"
         /\ todo' = [todo EXCEPT ![r] = t]
  <2>1. todo' = todo => todo' = [todo EXCEPT ![r] = s]
    BY DEF DeliveryInv, Types
  <2> QED
    BY <2>1, Facts DEF Consider, Turn, Done, DeliveryInv, Types, DeliveryTypeOK
<1> HIDE DEF s, t
<1>5. Posed /\ Alone(r) /\ (Concerned(r)' = IdsOf(s) \/ Concerned(r)' = IdsOf(t)) /\ at'[r] # "acking"
  BY <1>1, <1>2, <1>4, PassLemma
<1> QED
  BY <1>1, <1>2, <1>3, <1>5, PassKeeps

LEMMA BackoffStep ==
  ASSUME DeliveryInv, NEW m \in Messages, BackoffEnds(m)
  PROVE  Good
<1> DEFINE e == [entry[m] EXCEPT !.cooling = FALSE]
<1>1. /\ entry[m] # NoEntry /\ entry' = [entry EXCEPT ![m] = e]
      /\ UNCHANGED <<gatewayUp, failedDir, begun, at, todo, countRead, accepted, discharged,
                     closed>>
  BY DEF BackoffEnds, fate
<1>2. entry[m] \in Entries
  BY <1>1, Facts
<1>3. e \in Entries
  BY <1>2 DEF Entries
<1> HIDE DEF e
<1>4. \A h \in Handlers : Concerned(h)' = Concerned(h) /\ Current(h)' = Current(h)
  BY <1>1 DEF Concerned, Current
<1>5. /\ entry' \in [Messages -> {NoEntry} \cup Entries]
      /\ \A x \in Messages : (entry'[x] = NoEntry) <=> (entry[x] = NoEntry)
  BY <1>1, <1>3, Facts
<1>6. Types'
  BY <1>1, <1>5, Facts DEF DeliveryInv, Types, DeliveryTypeOK, Entries
<1>7. Where' /\ ListsOnce'
  BY <1>1 DEF DeliveryInv, Where, Working, ListsOnce, Once
<1>8. BegunOnly' /\ ClosedGone' /\ AckedOnly'
  BY <1>1, <1>4, <1>5, Facts DEF DeliveryInv, BegunOnly, ClosedGone, AckedOnly
<1>9. NothingLost'
  BY <1>1, <1>5, Facts DEF NothingLost
<1> QED
  BY <1>1, <1>6, <1>7, <1>8, <1>9 DEF DeliveryInv, Good

LEMMA CrashStep ==
  ASSUME DeliveryInv, DeliveryCrash
  PROVE  Good
<1>1. /\ gatewayUp' = FALSE
      /\ at' = [h \in Handlers |-> "idle"]
      /\ todo' = [r \in Passes |-> <<>>]
      /\ countRead' = [h \in Handlers |-> 0]
      /\ UNCHANGED <<entry, failedDir, begun, accepted, discharged, closed>>
  BY DEF DeliveryCrash, files, fate
<1>2. <<>> \in Seq(Snapshot) /\ DOMAIN <<>> = {} /\ Once(<<>>)
  BY EmptySeq DEF Once
<1>3. \A h \in Handlers : Concerned(h)' = {}
  BY <1>1, <1>2 DEF Concerned, Handlers
<1>4. Types'
  <2>1. gatewayUp' \in BOOLEAN
    BY <1>1
  <2>2. todo' \in [Passes -> Seq(Snapshot)]
    BY <1>1, <1>2
  <2>3. \A r \in Passes : todo'[r] \in Seq(Snapshot)
    BY <2>2
  <2>4. at' \in [Handlers -> {"idle", "sending", "acking", "failing",
                            "rewriting", "moving", "loading", "first", "looping"}]
    BY <1>1
  <2>5. 0 \in 0..MaxRetries
    BY Facts
  <2>6. countRead' \in [Handlers -> 0..MaxRetries]
    BY <1>1, <2>5
  <2> QED
    BY ONLY <1>1, <2>1, <2>2, <2>3, <2>4, <2>6, DeliveryInv DEF DeliveryInv, Types, DeliveryTypeOK
<1>5. Where' /\ ListsOnce'
  BY <1>1, <1>2 DEF Where, Working, WorkSteps, ListsOnce, Once, Handlers
<1>6. BegunOnly' /\ ClosedGone' /\ AckedOnly'
  BY <1>1, <1>3, Facts DEF BegunOnly, ClosedGone, AckedOnly
<1>7. NothingLost'
  BY <1>1, Facts DEF NothingLost
<1> QED
  BY <1>1, <1>4, <1>5, <1>6, <1>7 DEF DeliveryInv, Good

LEMMA DeliveryNextInv ==
  ASSUME DeliveryInv, [DeliveryNext]_deliveryVars
  PROVE  Good
<1>1. CASE DeliveryNext
  BY <1>1, DeliverStep, BackoffStep, SendEndsStep, AckStep, FailReadStep, FailWriteStep,
     StartPassStep, LoadStep, ConsiderStep, MoveStep, CrashStep
     DEF DeliveryNext, HandlerStep, PassStep
<1>2. CASE UNCHANGED deliveryVars
  <2>1. /\ UNCHANGED <<gatewayUp, entry, failedDir, begun, at, todo, countRead, accepted,
                       discharged, closed>>
    BY <1>2 DEF deliveryVars, files, fate
  <2>2. \A h \in Handlers : Concerned(h)' = Concerned(h) /\ Current(h)' = Current(h)
    BY <2>1 DEF Concerned, Current
  <2>3. Types' /\ NothingLost'
    BY <2>1, Facts DEF DeliveryInv, Types, DeliveryTypeOK, Entries, NothingLost
  <2>4. Where' /\ ListsOnce'
    BY <2>1 DEF DeliveryInv, Where, Working, ListsOnce, Once
  <2>5. BegunOnly' /\ ClosedGone' /\ AckedOnly'
    BY <2>1, <2>2, Facts DEF DeliveryInv, BegunOnly, ClosedGone, AckedOnly
  <2> QED
    BY <2>1, <2>3, <2>4, <2>5 DEF DeliveryInv, Good
<1> QED
  BY <1>1, <1>2

-----------------------------------------------------------------------------
(* The theorems *)

\* The inductive invariant: every step keeps it, and none opens what is closed.
THEOREM DeliveryInvariance == DeliverySpec => []DeliveryInv
<1>1. DeliveryInv /\ [DeliveryNext]_deliveryVars => DeliveryInv'
  BY DeliveryNextInv DEF Good
<1> QED
  BY DeliveryInitInv, <1>1, PTL DEF DeliverySpec

\* Every variable keeps its type: DeliveryTypeOK.
THEOREM DeliveryTypeCorrect == DeliverySpec => []DeliveryTypeOK
<1>1. DeliveryInv => DeliveryTypeOK
  BY DEF DeliveryInv, Types
<1> QED
  BY DeliveryInvariance, <1>1, PTL

\* No message that was written to the queue is lost, between any two file operations of
\* any number of handlers and after any number of crashes: NothingLost.
THEOREM NoMessageLost == DeliverySpec => []NothingLost
<1>1. DeliveryInv => NothingLost
  BY DEF DeliveryInv
<1> QED
  BY DeliveryInvariance, <1>1, PTL

\* No handler begins to send what was acknowledged or set aside by its only handler:
\* ClosedIsFinal.
THEOREM ClosedStaysClosed == DeliverySpec => ClosedIsFinal
<1> DEFINE Final == \A h \in Handlers : at'[h] = "sending" /\ at[h] # "sending"
                                          => Current(h)' \notin closed
<1>1. ASSUME DeliveryInv, [DeliveryNext]_deliveryVars
      PROVE  Final
  <2> SUFFICES ASSUME NEW h \in Handlers, at'[h] = "sending"
               PROVE  Current(h)' \notin closed
    OBVIOUS
  <2>1. DeliveryInv' /\ closed \subseteq closed'
    BY <1>1, DeliveryNextInv DEF Good
  <2>2. Current(h)' \in Concerned(h)'
    <3>1. CASE h \in Passes
      <4>1. todo'[h] \in Seq(Snapshot) /\ todo'[h] # <<>>
        BY <2>1, <3>1 DEF DeliveryInv, Types, Where, Working, WorkSteps
      <4>2. Head(todo'[h]).id \in IdsOf(todo'[h])
        BY <4>1, IdsLemma
      <4> QED
        BY <3>1, <4>2 DEF Concerned, Current, IdsOf
    <3>2. CASE h \notin Passes
      BY <3>2 DEF Concerned, Current
    <3> QED
      BY <3>1, <3>2
  <2>3. Concerned(h)' \cap closed' = {}
    BY <2>1 DEF DeliveryInv, ClosedGone
  <2> QED
    BY <2>1, <2>2, <2>3
<1>2. DeliveryInv /\ [DeliveryNext]_deliveryVars => [Final]_deliveryVars
  BY <1>1
<1> QED
  BY DeliveryInvariance, <1>2, PTL DEF DeliverySpec, ClosedIsFinal
=============================================================================
