----------------------------- MODULE EngineProofs -----------------------------
(***************************************************************************)
(* Proofs that the invariants of Engine hold of every number of producers, *)
(* shards and receivers, for every capacity and batch size.                *)
(***************************************************************************)
EXTENDS Engine, SelectionProofs

(***************************************************************************)
(* The inductive invariant: its parts, besides the properties themselves.  *)
(***************************************************************************)

NumbersOf(q) == {q[i].seq : i \in DOMAIN q}

\* What is ahead of a shard's log, and the numbers that are ahead of it and
\* behind it.
Queue(s)  == Between(s, {"log"}) \o ring[s]
Ahead(s)  == NumbersOf(Queue(s))
Behind(s) == NumbersOf(applied[s]) \cup unlogged[s] \cup NumbersOf(Between(s, {"apply"}))

Distinct(q) == \A i, j \in DOMAIN q : q[i].seq = q[j].seq => i = j

\* n has been given to a command, and not to one that is being submitted.
Settled(n) ==
  n < next /\ \A p \in Producer : submitting[p] # None => submitting[p].seq # n

SubmittedOnce ==
  /\ \A p \in Producer : submitting[p] # None => /\ submitting[p].from = p
                                                 /\ submitting[p].seq < next
  /\ \A p, q \in Producer :
       submitting[p] # None /\ submitting[q] # None /\ submitting[p].seq = submitting[q].seq
         => p = q

AcceptedSettled == \A p \in Producer : \A n \in NumbersOf(accepted[p]) : Settled(n)

AcceptedOnce ==
  \A p \in Producer :
    /\ Distinct(accepted[p])
    /\ \A q \in Producer \ {p} : NumbersOf(accepted[p]) \cap NumbersOf(accepted[q]) = {}

Passed(s) == /\ \A n \in Ahead(s) \cup Behind(s) : Settled(n)
             /\ Ahead(s) \cap Behind(s) = {}
             /\ Distinct(Queue(s))

PassedOnce == \A s \in Shard : Passed(s)

\* The sequence of all commands of a shard, whatever became of them.
Line(s) == applied[s] \o Between(s, {"log", "apply"}) \o ring[s]

Closing ==
  /\ ~open => \A p \in Producer : submitting[p] = None
  /\ \A s \in Shard : At(s, "exited") => ~open /\ ring[s] = <<>>
  /\ joined => \A s \in Shard : At(s, "exited")

Inductive ==
  /\ TypeOK /\ SubmittedOnce /\ AcceptedSettled /\ AcceptedOnce /\ PassedOnce
  /\ AppliedInOrder /\ LogAhead
  /\ Closing

(***************************************************************************)
(* Types.                                                                  *)
(***************************************************************************)

\* Every step is one of these.
LEMMA Cases ==
  ASSUME NEW Goal,
         \A p \in Producer : Sequence(p) \/ TryPush(p) \/ Refuse(p) => Goal,
         \A s \in Shard : RunShard(s) => Goal,
         \A r \in Late : Subscribe(r) \/ DropReceiver(r) => Goal,
         DropSenders \/ Join => Goal,
         UNCHANGED vars => Goal
  PROVE  [Next]_vars => Goal
BY DEF Next

LEMMA Symbols ==
  ASSUME NEW symbol \in Symbol
  PROVE  ShardFor(symbol) \in Shard
BY SymbolAssumption, ShardsAssumption DEF ShardFor, Shard

\* The command in hand, and the steps at which there is one.
LEMMA InHand ==
  ASSUME TypeOK, NEW s \in Shard
  PROVE  /\ shard[s].at \in {"pop", "log", "apply", "send", "exited"}
         /\ shard[s].at \in {"log", "apply", "send"} => shard[s].cmd \in Command
         /\ shard[s].at \in {"pop", "exited"} => shard[s].cmd = None
         /\ shard[s] = [at |-> shard[s].at, cmd |-> shard[s].cmd]
BY DEF TypeOK

LEMMA GotoType ==
  ASSUME TypeOK, NEW s \in Shard, NEW step, NEW cmd, Goto(s, step, cmd),
         \/ step \in {"pop", "exited"} /\ cmd = None
         \/ step \in {"log", "apply", "send"} /\ cmd \in Command
  PROVE  shard' \in [Shard -> [at : {"pop", "exited"}, cmd : {None}]
                               \cup [at : {"log", "apply", "send"}, cmd : Command]]
BY DEF TypeOK, Goto

LEMMA Steps == After("pop") = "log" /\ After("log") = "apply" /\ After("apply") = "send"
BY DEF After

\* Where a shard's sending can be.
Place == [sub : Nat \ {0}, event : 1 .. BatchSize]

LEMMA Places ==
  ASSUME NEW here \in Place
  PROVE  /\ SamePlace(here) = [sub |-> here.sub, event |-> 1]
         /\ here.event < BatchSize
              => AfterEvent(here) = [sub |-> here.sub, event |-> here.event + 1]
         /\ ~(here.event < BatchSize) => AfterEvent(here) = [sub |-> here.sub + 1, event |-> 1]
         /\ SamePlace(here) \in Place /\ AfterEvent(here) \in Place /\ FirstEvent \in Place
<1>1. PICK k \in Nat \ {0}, e \in 1 .. BatchSize : here = [sub |-> k, event |-> e]
  BY DEF Place
<1>2. SamePlace(here) = [sub |-> k, event |-> 1]
  BY <1>1 DEF SamePlace
<1>3. e < BatchSize => AfterEvent(here) = [sub |-> k, event |-> e + 1]
  BY <1>1 DEF AfterEvent
<1>4. ~(e < BatchSize) => AfterEvent(here) = [sub |-> k + 1, event |-> 1]
  BY <1>1 DEF AfterEvent
<1>5. 1 \in 1 .. BatchSize /\ k + 1 \in Nat \ {0} /\ (e < BatchSize => e + 1 \in 1 .. BatchSize)
  BY BatchAssumption
<1> QED BY <1>1, <1>2, <1>3, <1>4, <1>5 DEF Place, FirstEvent

LEMMA TypeInit == Init => TypeOK
<1> SUFFICES ASSUME Init PROVE TypeOK
  OBVIOUS
<1>1. \A X : <<>> \in Seq(X)
  BY EmptySeq
<1>2. <<Own>> \in Seq(Subscriber)
  <2>1. Append(<<>>, Own) = <<Own>>
    OBVIOUS
  <2> QED BY <1>1, <2>1, AppendProperties DEF Subscriber
<1>3. FirstEvent \in Place
  BY BatchAssumption DEF FirstEvent, Place
<1>4. shard \in [Shard -> [at : {"pop", "exited"}, cmd : {None}]
                          \cup [at : {"log", "apply", "send"}, cmd : Command]]
  BY DEF Init
<1>5. heard \in [Subscriber -> Seq(Event)] /\ applied \in [Shard -> Seq(Command)]
      /\ logged \in [Shard -> Seq(Command)] /\ ring \in [Shard -> Seq(Command)]
      /\ accepted \in [Producer -> Seq(Command)]
  BY <1>1 DEF Init
<1>6. sent \in [Shard -> Place] /\ subs \in Seq(Subscriber)
  BY <1>2, <1>3 DEF Init
<1>7. next \in Nat \ {0} /\ holder \in Shard \cup {None} /\ gone \in SUBSET Late
  BY DEF Init
<1>9. open \in BOOLEAN /\ joined \in BOOLEAN
  BY DEF Init
<1>8. submitting \in [Producer -> Command \cup {None}] /\ unlogged \in [Shard -> SUBSET Nat]
  BY DEF Init
<1>10. since \in [Subscriber -> Nat \cup {None}]
  BY DEF Init
<1> QED BY <1>4, <1>5, <1>6, <1>7, <1>8, <1>9, <1>10 DEF TypeOK, Place

LEMMA TypeProducers ==
  ASSUME TypeOK, NEW p \in Producer, Sequence(p) \/ TryPush(p) \/ Refuse(p)
  PROVE  TypeOK'
<1>1. CASE Sequence(p)
  <2>1. PICK symbol \in Symbol :
          submitting' = [submitting EXCEPT ![p] = [seq |-> next, from |-> p, symbol |-> symbol]]
    BY <1>1 DEF Sequence
  <2>2. [seq |-> next, from |-> p, symbol |-> symbol] \in Command
    BY DEF TypeOK, Command
  <2> QED BY <1>1, <2>1, <2>2, SMTT(60) DEF TypeOK, Sequence, logs, bus
<1>2. CASE TryPush(p)
  <2> DEFINE cmd == submitting[p]
             t == ShardFor(cmd.symbol)
  <2>1. cmd \in Command
    BY <1>2 DEF TypeOK, TryPush
  <2>2. t \in Shard
    BY <2>1, Symbols DEF Command
  <2>3. Append(ring[t], cmd) \in Seq(Command) /\ Append(accepted[p], cmd) \in Seq(Command)
    BY <2>1, <2>2, AppendProperties DEF TypeOK
  <2> QED BY <1>2, <2>2, <2>3 DEF TypeOK, TryPush, logs, bus
<1>3. CASE Refuse(p)
  BY <1>3 DEF TypeOK, Refuse, NumberSpent, NotAccepted, logs, bus
<1> QED BY <1>1, <1>2, <1>3

LEMMA TypeShards ==
  ASSUME TypeOK, NEW s \in Shard, RunShard(s)
  PROVE  TypeOK'
<1>1. CASE Pop(s)
  <2>1. Head(ring[s]) \in Command /\ Tail(ring[s]) \in Seq(Command)
    BY <1>1, HeadTailProperties DEF TypeOK, Pop
  <2>2. Goto(s, "log", Head(ring[s]))
    BY <1>1, Steps DEF Pop
  <2> QED BY <1>1, <2>1, <2>2, GotoType DEF TypeOK, Pop, producers, logs, bus
<1>2. CASE Log(s)
  <2>1. shard[s].cmd \in Command
    BY <1>2, InHand DEF Log, At
  <2>2. Append(logged[s], shard[s].cmd) \in Seq(Command) /\ shard[s].cmd.seq \in Nat
    BY <2>1, AppendProperties DEF TypeOK, Command
  <2>3. Goto(s, "apply", shard[s].cmd)
    BY <1>2, Steps DEF Log
  <2>4. logged' \in [Shard -> Seq(Command)] /\ unlogged' \in [Shard -> SUBSET Nat]
    <3>1. CASE /\ logged' = [logged EXCEPT ![s] = Append(@, shard[s].cmd)]
               /\ UNCHANGED unlogged
      BY <2>2, <3>1 DEF TypeOK
    <3>2. CASE /\ unlogged' = [unlogged EXCEPT ![s] = @ \cup {shard[s].cmd.seq}]
               /\ UNCHANGED logged
      BY <2>2, <3>2 DEF TypeOK
    <3> QED BY <1>2, <3>1, <3>2 DEF Log
  <2> QED BY <1>2, <2>1, <2>3, <2>4, GotoType DEF TypeOK, Log, producers, bus
<1>3. CASE Apply(s)
  <2>1. shard[s].cmd \in Command
    BY <1>3, InHand DEF Apply, At
  <2>2. Append(applied[s], shard[s].cmd) \in Seq(Command)
    BY <2>1, AppendProperties DEF TypeOK
  <2>3. Goto(s, "send", shard[s].cmd)
    BY <1>3, Steps DEF Apply
  <2> QED BY <1>3, <2>1, <2>2, <2>3, GotoType DEF TypeOK, Apply, producers, logs, bus
<1>4. CASE PassOver(s)
  BY <1>4, GotoType DEF TypeOK, PassOver, producers, logs, bus
<1>5. CASE Lock(s)
  BY <1>5 DEF TypeOK, Lock, producers, logs
<1>6. CASE Send(s)
  <2> DEFINE sub == subs[sent[s].sub]
             e == [seq |-> shard[s].cmd.seq, event |-> sent[s].event]
  <2>1. sub \in Subscriber
    BY <1>6, ElementOfSeq, LenProperties DEF TypeOK, Send
  <2>2. e \in Event
    <3>1. shard[s].cmd \in Command
      BY <1>6, InHand DEF Send, At
    <3> QED BY <3>1 DEF TypeOK, Command, Event
  <2>3. Append(heard[sub], e) \in Seq(Event)
    BY <2>1, <2>2, AppendProperties DEF TypeOK
  <2>4. AfterEvent(sent[s]) \in Place
    BY Places DEF TypeOK, Place
  <2> HIDE DEF e
  <2>5. heard' = [heard EXCEPT ![sub] = Append(@, e)]
    BY <1>6 DEF Send, e
  <2>6. heard' \in [Subscriber -> Seq(Event)]
    BY <2>1, <2>3, <2>5 DEF TypeOK
  <2> QED BY <1>6, <2>4, <2>6 DEF TypeOK, Send, HeldForBatch, Place, producers, logs
<1>7. CASE Forget(s)
  <2>1. RemoveAt(subs, sent[s].sub) \in Seq(Subscriber)
    <3> DEFINE k == sent[s].sub
    <3>1. k \in 1 .. Len(subs) /\ Len(subs) \in Nat /\ \A i \in 1 .. Len(subs) : subs[i] \in Subscriber
      BY <1>7, LenProperties DEF TypeOK, Forget
    <3> HIDE DEF k
    <3>2. SubSeq(subs, 1, k - 1) \in Seq(Subscriber) /\ SubSeq(subs, k + 1, Len(subs)) \in Seq(Subscriber)
      BY <3>1, SubSeqProperties
    <3> QED BY <3>2, ConcatProperties DEF RemoveAt, k
  <2>2. SamePlace(sent[s]) \in Place
    BY Places DEF TypeOK, Place
  <2> QED BY <1>7, <2>1, <2>2 DEF TypeOK, Forget, Place, producers, logs
<1>8. CASE Unlock(s)
  <2>1. FirstEvent \in Place
    BY BatchAssumption DEF FirstEvent, Place
  <2> QED BY <1>8, <2>1, GotoType DEF TypeOK, Unlock, Place, Released, producers, logs
<1>9. CASE Exit(s)
  BY <1>9, GotoType DEF TypeOK, Exit, producers, logs, bus
<1> QED BY <1>1, <1>2, <1>3, <1>4, <1>5, <1>6, <1>7, <1>8, <1>9 DEF RunShard

LEMMA TypeOthers ==
  ASSUME TypeOK,
         \/ \E r \in Late : Subscribe(r) \/ DropReceiver(r)
         \/ DropSenders \/ Join
         \/ UNCHANGED vars
  PROVE  TypeOK'
<1>1. CASE \E r \in Late : Subscribe(r)
  <2>1. PICK r \in Late : Subscribe(r)
    BY <1>1
  <2>2. Append(subs, r) \in Seq(Subscriber)
    BY AppendProperties DEF TypeOK, Subscriber
  <2>3. Len(heard[Own]) \in Nat
    BY LenProperties DEF TypeOK, Subscriber
  <2>4. since' \in [Subscriber -> Nat \cup {None}]
    BY <2>1, <2>3 DEF TypeOK, Subscribe
  <2> QED BY <2>1, <2>2, <2>4 DEF TypeOK, Subscribe, producers, logs
<1>2. CASE \E r \in Late : DropReceiver(r)
  BY <1>2 DEF TypeOK, DropReceiver, producers, logs
<1>3. CASE DropSenders
  BY <1>3 DEF TypeOK, DropSenders, producers, logs, bus
<1>4. CASE Join
  BY <1>4 DEF TypeOK, Join, producers, logs, bus
<1>5. CASE UNCHANGED vars
  BY <1>5 DEF TypeOK, vars, producers, logs, bus
<1> QED BY <1>1, <1>2, <1>3, <1>4, <1>5

LEMMA TypeStep == TypeOK /\ [Next]_vars => TypeOK'
BY TypeProducers, TypeShards, TypeOthers DEF Next

\* Every variable keeps to its type, and a shard has a command in hand just when
\* it is between two steps for it.
THEOREM TypeCorrect == Spec => []TypeOK
<1>1. Init => TypeOK
  BY TypeInit
<1>2. TypeOK /\ [Next]_vars => TypeOK'
  BY TypeStep
<1> QED BY <1>1, <1>2, PTL DEF Spec

(***************************************************************************)
(* What each step does to the commands of a shard. They move along one     *)
(* line: at its end when they are pushed, then from the ring to the hand   *)
(* and on to the book, where nothing overtakes anything.                   *)
(***************************************************************************)

LEMMA Single ==
  ASSUME NEW X, NEW e \in X
  PROVE  <<e>> \in Seq(X) /\ Len(<<e>>) = 1 /\ <<e>>[1] = e /\ Append(<<>>, e) = <<e>>
<1>1. Append(<<>>, e) = <<e>>
  OBVIOUS
<1>2. <<>> \in Seq(X)
  BY EmptySeq
<1> QED BY <1>1, <1>2, AppendProperties

LEMMA HeadAndTail ==
  ASSUME NEW X, NEW r \in Seq(X), r # <<>>
  PROVE  <<Head(r)>> \o Tail(r) = r
<1> DEFINE h == Head(r)
           t == Tail(r)
<1>1. /\ h \in X /\ t \in Seq(X) /\ Len(t) = Len(r) - 1 /\ Len(r) \in Nat \ {0}
      /\ h = r[1] /\ \A i \in 1 .. Len(t) : t[i] = r[i + 1]
  BY HeadTailProperties, LenProperties, EmptySeq
<1> HIDE DEF h, t
<1>2. <<h>> \in Seq(X) /\ Len(<<h>>) = 1 /\ <<h>>[1] = h
  BY <1>1, Single
<1> DEFINE u == <<h>>
<1>3. u \in Seq(X) /\ Len(u) = 1 /\ u[1] = h
  BY <1>2
<1> HIDE DEF u
<1>4. /\ u \o t \in Seq(X) /\ Len(u \o t) = Len(u) + Len(t)
      /\ \A i \in 1 .. Len(u) + Len(t) : (u \o t)[i] = IF i <= Len(u) THEN u[i] ELSE t[i - Len(u)]
  BY <1>1, <1>3, ConcatProperties
<1> DEFINE v == u \o t
<1>5. v \in Seq(X) /\ Len(v) = Len(r) /\ \A i \in 1 .. Len(v) : v[i] = r[i]
  <2>1. v \in Seq(X) /\ Len(v) = Len(r)
    BY <1>1, <1>3, <1>4
  <2>2. ASSUME NEW i \in 1 .. Len(v)
        PROVE  v[i] = r[i]
    <3>1. CASE i = 1
      BY <1>1, <1>3, <1>4, <2>1, <3>1
    <3>2. CASE i # 1
      <4>1. v[i] = t[i - 1] /\ i - 1 \in 1 .. Len(t) /\ (i - 1) + 1 = i
        BY <1>1, <1>3, <1>4, <2>1, <3>2
      <4> QED BY <1>1, <4>1
    <3> QED BY <3>1, <3>2
  <2> QED BY <2>1, <2>2
<1> HIDE DEF v
<1>6. v = r
  BY <1>5, SeqEqual
<1> QED BY <1>6 DEF u, h, t, v

\* Between is a sequence of at most one command.
LEMMA BetweenIs ==
  ASSUME TypeOK, NEW s \in Shard, NEW steps \in SUBSET {"log", "apply", "send"}
  PROVE  /\ Between(s, steps) \in Seq(Command)
         /\ shard[s].at \in steps => Between(s, steps) = <<shard[s].cmd>>
         /\ shard[s].at \notin steps => Between(s, steps) = <<>>
<1>1. CASE shard[s].at \in steps
  <2>1. shard[s].cmd \in Command
    BY <1>1, InHand
  <2>2. Between(s, steps) = <<shard[s].cmd>>
    BY <1>1 DEF Between
  <2> QED BY <1>1, <2>1, <2>2, Single
<1>2. CASE shard[s].at \notin steps
  BY <1>2, EmptySeq DEF Between
<1> QED BY <1>1, <1>2

LEMMA PipeType ==
  ASSUME TypeOK, NEW s \in Shard
  PROVE  /\ Line(s) \in Seq(Command) /\ Queue(s) \in Seq(Command)
         /\ applied[s] \in Seq(Command) /\ ring[s] \in Seq(Command)
         /\ Between(s, {"log", "apply"}) \in Seq(Command)
         /\ Between(s, {"log"}) \in Seq(Command) /\ Between(s, {"apply"}) \in Seq(Command)
         /\ applied[s] \o Between(s, {"log", "apply"}) \in Seq(Command)
<1>1. applied[s] \in Seq(Command) /\ ring[s] \in Seq(Command)
  BY DEF TypeOK
<1>2. /\ Between(s, {"log", "apply"}) \in Seq(Command)
      /\ Between(s, {"log"}) \in Seq(Command) /\ Between(s, {"apply"}) \in Seq(Command)
  BY BetweenIs
<1>3. applied[s] \o Between(s, {"log", "apply"}) \in Seq(Command)
  BY <1>1, <1>2, ConcatProperties
<1>4. Line(s) \in Seq(Command) /\ Queue(s) \in Seq(Command)
  BY <1>1, <1>2, <1>3, ConcatProperties DEF Line, Queue
<1> QED BY <1>1, <1>2, <1>3, <1>4

\* Everything of a shard but what it has logged.
Pipe(s) == <<Line(s), Queue(s), applied[s], unlogged[s], Between(s, {"apply"})>>

LEMMA PushPipe ==
  ASSUME TypeOK, NEW p \in Producer, TryPush(p), NEW s \in Shard
  PROVE  LET cmd == submitting[p]
         IN  /\ cmd \in Command /\ submitting'[p] = None
             /\ ShardFor(cmd.symbol) \in Shard
             /\ accepted'[p] = Append(accepted[p], cmd)
             /\ logged' = logged /\ applied' = applied /\ unlogged' = unlogged /\ shard' = shard
             /\ s # ShardFor(cmd.symbol) => Pipe(s)' = Pipe(s)
             /\ s = ShardFor(cmd.symbol) => /\ Line(s)' = Append(Line(s), cmd)
                                            /\ Queue(s)' = Append(Queue(s), cmd)
<1> DEFINE cmd == submitting[p]
           t == ShardFor(cmd.symbol)
<1>1. cmd \in Command
  BY DEF TypeOK, TryPush
<1>2. t \in Shard
  BY <1>1, Symbols DEF Command
<1>3. /\ accepted'[p] = Append(accepted[p], cmd) /\ submitting'[p] = None
      /\ logged' = logged /\ applied' = applied /\ unlogged' = unlogged /\ shard' = shard
      /\ ring' = [ring EXCEPT ![t] = Append(ring[t], cmd)]
  BY DEF TypeOK, TryPush, logs
<1>4. \A steps : (Between(s, steps))' = Between(s, steps)
  BY <1>3 DEF Between
<1> HIDE DEF cmd
<1>5. CASE s # t
  <2>1. ring'[s] = ring[s]
    BY <1>3, <1>5 DEF TypeOK
  <2>2. Pipe(s)' = Pipe(s)
    <3>1. Line(s)' = Line(s)
      BY <1>3, <1>4, <2>1 DEF Line
    <3>2. Queue(s)' = Queue(s)
      BY <1>4, <2>1 DEF Queue
    <3>3. (Between(s, {"apply"}))' = Between(s, {"apply"})
      BY <1>4
    <3> QED BY <1>3, <3>1, <3>2, <3>3 DEF Pipe
  <2> QED BY <1>1, <1>2, <1>3, <1>5, <2>2 DEF cmd
<1>6. CASE s = t
  <2>1. ring'[s] = Append(ring[s], cmd)
    BY <1>2, <1>3, <1>6 DEF TypeOK
  <2>2. Line(s)' = Append(Line(s), cmd)
    <3> DEFINE l == applied[s] \o Between(s, {"log", "apply"})
    <3>1. l \in Seq(Command) /\ ring[s] \in Seq(Command)
      BY PipeType
    <3>2. Line(s)' = l \o ring'[s] /\ Line(s) = l \o ring[s]
      BY <1>3, <1>4 DEF Line
    <3> HIDE DEF l
    <3> QED BY SMTT(60), <1>1, <2>1, <3>1, <3>2, ConcatThenAppend
  <2>3. Queue(s)' = Append(Queue(s), cmd)
    <3> DEFINE l == Between(s, {"log"})
    <3>1. l \in Seq(Command) /\ ring[s] \in Seq(Command)
      BY PipeType
    <3>2. Queue(s)' = l \o ring'[s] /\ Queue(s) = l \o ring[s]
      BY <1>4 DEF Queue
    <3> HIDE DEF l
    <3> QED BY SMTT(60), <1>1, <2>1, <3>1, <3>2, ConcatThenAppend
  <2> QED BY <1>1, <1>2, <1>3, <1>6, <2>2, <2>3 DEF cmd
<1> QED BY <1>5, <1>6

LEMMA PipeKept ==
  ASSUME NEW s \in Shard,
         ring'[s] = ring[s], applied'[s] = applied[s], unlogged'[s] = unlogged[s],
         \/ shard'[s] = shard[s]
         \/ shard[s].at \notin {"log", "apply"} /\ shard'[s].at \notin {"log", "apply"}
  PROVE  Pipe(s)' = Pipe(s)
<1>1. (Between(s, {"log", "apply"}))' = Between(s, {"log", "apply"})
  BY DEF Between
<1>2. (Between(s, {"log"}))' = Between(s, {"log"})
  BY DEF Between
<1>3. (Between(s, {"apply"}))' = Between(s, {"apply"})
  BY DEF Between
<1>4. Line(s)' = Line(s)
  BY <1>1 DEF Line
<1>5. Queue(s)' = Queue(s)
  BY <1>2 DEF Queue
<1> QED BY <1>3, <1>4, <1>5 DEF Pipe

\* A step of one shard is nothing to the others.
LEMMA GotoElse ==
  ASSUME TypeOK, NEW s \in Shard, NEW step, NEW cmd, Goto(s, step, cmd)
  PROVE  /\ shard'[s] = [at |-> step, cmd |-> cmd]
         /\ \A t \in Shard \ {s} : shard'[t] = shard[t]
BY DEF TypeOK, Goto

LEMMA PopPipe ==
  ASSUME TypeOK, NEW s \in Shard, Pop(s), NEW t \in Shard
  PROVE  Pipe(t)' = Pipe(t)
<1>1. /\ shard'[s] = [at |-> "log", cmd |-> Head(ring[s])] /\ shard[s].at = "pop"
      /\ \A u \in Shard \ {s} : shard'[u] = shard[u]
  BY Steps, GotoElse DEF Pop, At
<1>2. /\ ring[s] # <<>> /\ ring[s] \in Seq(Command)
      /\ ring'[s] = Tail(ring[s]) /\ \A u \in Shard \ {s} : ring'[u] = ring[u]
  BY DEF TypeOK, Pop
<1>3. applied' = applied /\ unlogged' = unlogged
  BY DEF Pop, logs
<1>4. CASE t # s
  BY <1>1, <1>2, <1>3, <1>4, PipeKept
<1>5. CASE t = s
  <2> DEFINE h == <<Head(ring[s])>>
             r == Tail(ring[s])
  <2>1. (Between(s, {"log", "apply"}))' = h /\ Between(s, {"log", "apply"}) = <<>>
    BY <1>1 DEF Between
  <2>2. (Between(s, {"log"}))' = h /\ Between(s, {"log"}) = <<>>
    BY <1>1 DEF Between
  <2>3. (Between(s, {"apply"}))' = <<>> /\ Between(s, {"apply"}) = <<>>
    BY <1>1 DEF Between
  <2>4. h \o r = ring[s] /\ h \in Seq(Command) /\ r \in Seq(Command)
    BY <1>2, HeadTailProperties, HeadAndTail, Single
  <2>5. applied[s] \in Seq(Command) /\ applied[s] \o <<>> = applied[s]
    BY ConcatEmptySeq DEF TypeOK
  <2>6. <<>> \o ring[s] = ring[s]
    BY <1>2, ConcatEmptySeq
  <2>9. ring'[s] = r
    BY <1>2
  <2> HIDE DEF h, r
  <2>7. Line(s)' = Line(s)
    <3>1. Line(s)' = (applied[s] \o h) \o r
      BY <1>3, <2>1, <2>9 DEF Line
    <3>2. (applied[s] \o h) \o r = applied[s] \o (h \o r)
      <4> DEFINE a == applied[s]
      <4>1. a \in Seq(Command) /\ h \in Seq(Command) /\ r \in Seq(Command)
        BY <2>4, <2>5
      <4> HIDE DEF a
      <4>2. (a \o h) \o r = a \o (h \o r)
        BY SMTT(60), <4>1, ConcatAssociative
      <4> QED BY <4>2 DEF a
    <3>3. Line(s) = applied[s] \o ring[s]
      BY <2>1, <2>5 DEF Line
    <3> QED BY <2>4, <3>1, <3>2, <3>3
  <2>8. Queue(s)' = Queue(s)
    <3>1. Queue(s)' = h \o r
      BY <2>2, <2>9 DEF Queue
    <3> QED BY <2>2, <2>4, <2>6, <3>1 DEF Queue
  <2> QED BY <1>3, <1>5, <2>3, <2>7, <2>8 DEF Pipe
<1> QED BY <1>4, <1>5

LEMMA LogPipe ==
  ASSUME TypeOK, NEW s \in Shard, Log(s), NEW t \in Shard
  PROVE  LET cmd == shard[s].cmd
         IN  /\ t # s => Pipe(t)' = Pipe(t) /\ logged'[t] = logged[t]
             /\ cmd \in Command
             /\ Line(s)' = Line(s) /\ applied' = applied
             /\ Queue(s) = <<cmd>> \o Queue(s)' /\ Queue(s)' = ring[s]
             /\ Between(s, {"apply"}) = <<>> /\ (Between(s, {"apply"}))' = <<cmd>>
             /\ \/ logged'[s] = Append(logged[s], cmd) /\ unlogged'[s] = unlogged[s]
                \/ logged'[s] = logged[s] /\ unlogged'[s] = unlogged[s] \cup {cmd.seq}
<1> DEFINE cmd == shard[s].cmd
<1>1. /\ shard'[s] = [at |-> "apply", cmd |-> cmd] /\ shard[s].at = "log"
      /\ \A u \in Shard \ {s} : shard'[u] = shard[u]
  BY Steps, GotoElse DEF Log, At
<1>2. ring' = ring /\ applied' = applied
  BY DEF Log
<1>3. /\ \/ logged'[s] = Append(logged[s], cmd) /\ unlogged'[s] = unlogged[s]
         \/ logged'[s] = logged[s] /\ unlogged'[s] = unlogged[s] \cup {cmd.seq}
      /\ \A u \in Shard \ {s} : logged'[u] = logged[u] /\ unlogged'[u] = unlogged[u]
  BY DEF TypeOK, Log
<1>4. cmd \in Command /\ ring[s] \in Seq(Command)
  BY <1>1, InHand DEF TypeOK
<1>5. t # s => Pipe(t)' = Pipe(t) /\ logged'[t] = logged[t]
  BY <1>1, <1>2, <1>3, PipeKept
<1>6. (Between(s, {"log", "apply"}))' = <<cmd>> /\ Between(s, {"log", "apply"}) = <<cmd>>
  BY <1>1 DEF Between
<1>7. (Between(s, {"log"}))' = <<>> /\ Between(s, {"log"}) = <<cmd>>
  BY <1>1 DEF Between
<1>8. (Between(s, {"apply"}))' = <<cmd>> /\ Between(s, {"apply"}) = <<>>
  BY <1>1 DEF Between
<1>9. Line(s)' = Line(s)
  BY <1>2, <1>6 DEF Line
<1>10. Queue(s) = <<cmd>> \o Queue(s)' /\ Queue(s)' = ring[s]
  <2>1. <<>> \o ring[s] = ring[s]
    BY <1>4, ConcatEmptySeq
  <2> QED BY <1>2, <1>7, <2>1 DEF Queue
<1> QED BY <1>2, <1>3, <1>4, <1>5, <1>8, <1>9, <1>10

LEMMA ApplyPipe ==
  ASSUME TypeOK, NEW s \in Shard, Apply(s), NEW t \in Shard
  PROVE  LET cmd == shard[s].cmd
         IN  /\ t # s => Pipe(t)' = Pipe(t)
             /\ cmd \in Command /\ cmd.symbol \in Listed
             /\ Line(s)' = Line(s) /\ Queue(s)' = Queue(s)
             /\ applied'[s] = Append(applied[s], cmd)
             /\ Between(s, {"apply"}) = <<cmd>> /\ (Between(s, {"apply"}))' = <<>>
             /\ logged' = logged /\ unlogged' = unlogged
<1> DEFINE cmd == shard[s].cmd
<1>1. /\ shard'[s] = [at |-> "send", cmd |-> cmd] /\ shard[s].at = "apply"
      /\ \A u \in Shard \ {s} : shard'[u] = shard[u]
  BY Steps, GotoElse DEF Apply, At
<1>2. /\ ring' = ring /\ logged' = logged /\ unlogged' = unlogged
      /\ applied'[s] = Append(applied[s], cmd) /\ \A u \in Shard \ {s} : applied'[u] = applied[u]
      /\ cmd.symbol \in Listed
  BY DEF TypeOK, Apply, logs
<1>3. cmd \in Command /\ ring[s] \in Seq(Command) /\ applied[s] \in Seq(Command)
  BY <1>1, InHand DEF TypeOK
<1>4. t # s => Pipe(t)' = Pipe(t)
  BY <1>1, <1>2, PipeKept
<1>5. (Between(s, {"log", "apply"}))' = <<>> /\ Between(s, {"log", "apply"}) = <<cmd>>
  BY <1>1 DEF Between
<1>6. (Between(s, {"log"}))' = <<>> /\ Between(s, {"log"}) = <<>>
  BY <1>1 DEF Between
<1>7. (Between(s, {"apply"}))' = <<>> /\ Between(s, {"apply"}) = <<cmd>>
  BY <1>1 DEF Between
<1>8. Line(s)' = Line(s)
  <2> DEFINE a == Append(applied[s], cmd)
  <2>1. a \in Seq(Command) /\ a \o <<>> = a
    BY <1>3, AppendProperties, ConcatEmptySeq
  <2>2. a = applied[s] \o <<cmd>>
    BY <1>3, AppendIsConcat
  <2> HIDE DEF a
  <2>3. applied'[s] = a
    BY <1>2 DEF a
  <2> QED BY <1>2, <1>5, <2>1, <2>2, <2>3 DEF Line
<1>9. Queue(s)' = Queue(s)
  BY <1>2, <1>6 DEF Queue
<1> QED BY <1>2, <1>3, <1>4, <1>7, <1>8, <1>9

LEMMA PassOverPipe ==
  ASSUME TypeOK, NEW s \in Shard, PassOver(s), NEW t \in Shard
  PROVE  LET cmd == shard[s].cmd
         IN  /\ t # s => Pipe(t)' = Pipe(t)
             /\ cmd \in Command /\ cmd.symbol \notin Listed
             /\ Line(s) = (applied[s] \o <<cmd>>) \o ring[s] /\ Line(s)' = applied[s] \o ring[s]
             /\ Queue(s)' = Queue(s) /\ applied' = applied
             /\ Between(s, {"apply"}) = <<cmd>> /\ (Between(s, {"apply"}))' = <<>>
             /\ logged' = logged /\ unlogged' = unlogged
<1> DEFINE cmd == shard[s].cmd
<1>1. /\ shard'[s] = [at |-> "pop", cmd |-> None] /\ shard[s].at = "apply"
      /\ \A u \in Shard \ {s} : shard'[u] = shard[u]
  BY GotoElse DEF PassOver, At
<1>2. /\ ring' = ring /\ logged' = logged /\ unlogged' = unlogged /\ applied' = applied
      /\ cmd.symbol \notin Listed
  BY DEF PassOver, logs
<1>3. cmd \in Command /\ ring[s] \in Seq(Command) /\ applied[s] \in Seq(Command)
  BY <1>1, InHand DEF TypeOK
<1>4. t # s => Pipe(t)' = Pipe(t)
  BY <1>1, <1>2, PipeKept
<1>5. (Between(s, {"log", "apply"}))' = <<>> /\ Between(s, {"log", "apply"}) = <<cmd>>
  BY <1>1 DEF Between
<1>6. (Between(s, {"log"}))' = <<>> /\ Between(s, {"log"}) = <<>>
  BY <1>1 DEF Between
<1>7. (Between(s, {"apply"}))' = <<>> /\ Between(s, {"apply"}) = <<cmd>>
  BY <1>1 DEF Between
<1>8. applied[s] \o <<>> = applied[s]
  BY <1>3, ConcatEmptySeq
<1>9. Line(s) = (applied[s] \o <<cmd>>) \o ring[s] /\ Line(s)' = applied[s] \o ring[s]
  BY <1>2, <1>5, <1>8 DEF Line
<1>10. Queue(s)' = Queue(s)
  BY <1>2, <1>6 DEF Queue
<1> QED BY <1>2, <1>3, <1>4, <1>7, <1>9, <1>10

\* The steps that leave every pipe alone.
Elsewhere ==
  \/ \E p \in Producer : Sequence(p) \/ Refuse(p)
  \/ \E s \in Shard : Pop(s) \/ Lock(s) \/ Send(s) \/ Forget(s) \/ Unlock(s) \/ Exit(s)
  \/ \E r \in Late : Subscribe(r) \/ DropReceiver(r)
  \/ DropSenders \/ Join \/ UNCHANGED vars

LEMMA ElsewherePipe ==
  ASSUME TypeOK, Elsewhere, NEW t \in Shard
  PROVE  Pipe(t)' = Pipe(t) /\ logged' = logged
<1>1. CASE \E p \in Producer : Sequence(p) \/ Refuse(p)
  BY <1>1, PipeKept DEF Sequence, Refuse, logs
<1>2. ASSUME NEW s \in Shard, Pop(s)
      PROVE  Pipe(t)' = Pipe(t) /\ logged' = logged
  BY <1>2, PopPipe DEF Pop, logs
<1>3. CASE \E s \in Shard : Lock(s) \/ Send(s) \/ Forget(s)
  BY <1>3, PipeKept DEF Lock, Send, Forget, logs
<1>4. ASSUME NEW s \in Shard, Unlock(s) \/ Exit(s)
      PROVE  Pipe(t)' = Pipe(t) /\ logged' = logged
  <2>1. /\ ring' = ring /\ applied' = applied /\ unlogged' = unlogged /\ logged' = logged
        /\ shard[s].at \in {"send", "pop"} /\ (Goto(s, "pop", None) \/ Goto(s, "exited", None))
    BY <1>4 DEF Unlock, Exit, At, logs
  <2>2. /\ shard'[s].at \in {"pop", "exited"}
        /\ \A u \in Shard \ {s} : shard'[u] = shard[u]
    <3>1. CASE Goto(s, "pop", None)
      <4>1. /\ shard'[s] = [at |-> "pop", cmd |-> None]
            /\ \A u \in Shard \ {s} : shard'[u] = shard[u]
        BY <3>1, GotoElse
      <4> QED BY <4>1
    <3>2. CASE Goto(s, "exited", None)
      <4>1. /\ shard'[s] = [at |-> "exited", cmd |-> None]
            /\ \A u \in Shard \ {s} : shard'[u] = shard[u]
        BY <3>2, GotoElse
      <4> QED BY <4>1
    <3> QED BY <2>1, <3>1, <3>2
  <2> QED BY <2>1, <2>2, PipeKept
<1>5. CASE \E r \in Late : Subscribe(r) \/ DropReceiver(r)
  BY <1>5, PipeKept DEF Subscribe, DropReceiver, logs
<1>6. CASE DropSenders \/ Join \/ UNCHANGED vars
  BY <1>6, PipeKept DEF DropSenders, Join, vars, logs
<1> QED BY <1>1, <1>2, <1>3, <1>4, <1>5, <1>6 DEF Elsewhere

LEMMA StepKinds ==
  [Next]_vars => \/ \E p \in Producer : TryPush(p)
                 \/ \E s \in Shard : Log(s) \/ Apply(s) \/ PassOver(s)
                 \/ Elsewhere
BY DEF Next, RunShard, Elsewhere

(***************************************************************************)
(* Numbers: the sequencer gives each to one command, and a command is      *)
(* ahead of the log or behind it, never on both sides.                     *)
(***************************************************************************)

LEMMA NumbersOfShort ==
  ASSUME NEW e \in Command
  PROVE  NumbersOf(<<>>) = {} /\ NumbersOf(<<e>>) = {e.seq}
BY DEF NumbersOf

LEMMA NumbersOfAppend ==
  ASSUME NEW q \in Seq(Command), NEW e \in Command
  PROVE  /\ NumbersOf(Append(q, e)) = NumbersOf(q) \cup {e.seq}
         /\ Distinct(q) /\ e.seq \notin NumbersOf(q) => Distinct(Append(q, e))
<1> DEFINE r == Append(q, e)
<1>1. /\ Len(q) \in Nat /\ DOMAIN q = 1 .. Len(q) /\ DOMAIN r = 1 .. Len(q) + 1
      /\ \A i \in 1 .. Len(q) : r[i] = q[i]
      /\ r[Len(q) + 1] = e
  BY AppendProperties, LenProperties
<1> HIDE DEF r
<1>2. NumbersOf(r) = NumbersOf(q) \cup {e.seq}
  <2>1. \A i \in DOMAIN r : r[i].seq \in NumbersOf(q) \cup {e.seq}
    <3> TAKE i \in DOMAIN r
    <3>1. CASE i \in 1 .. Len(q)
      BY <1>1, <3>1 DEF NumbersOf
    <3>2. CASE i = Len(q) + 1
      BY <1>1, <3>2
    <3> QED BY <1>1, <3>1, <3>2
  <2>2. \A i \in DOMAIN q : q[i].seq \in NumbersOf(r)
    <3> TAKE i \in DOMAIN q
    <3>1. i \in DOMAIN r /\ r[i] = q[i]
      BY <1>1
    <3> QED BY <3>1 DEF NumbersOf
  <2>3. e.seq \in NumbersOf(r)
    <3>1. Len(q) + 1 \in DOMAIN r
      BY <1>1
    <3> QED BY <1>1, <3>1 DEF NumbersOf
  <2>4. NumbersOf(r) \subseteq NumbersOf(q) \cup {e.seq}
    BY <2>1 DEF NumbersOf
  <2>5. NumbersOf(q) \subseteq NumbersOf(r)
    BY <2>2 DEF NumbersOf
  <2> QED BY <2>3, <2>4, <2>5
<1>3. ASSUME Distinct(q), e.seq \notin NumbersOf(q)
      PROVE  Distinct(r)
  <2> SUFFICES ASSUME NEW i \in DOMAIN r, NEW j \in DOMAIN r, r[i].seq = r[j].seq
               PROVE  i = j
    BY DEF Distinct
  <2>1. \A k \in 1 .. Len(q) : q[k].seq # e.seq
    BY <1>1, <1>3 DEF NumbersOf
  <2>2. CASE i \in 1 .. Len(q) /\ j \in 1 .. Len(q)
    BY <1>1, <1>3, <2>2 DEF Distinct
  <2>3. CASE i \in 1 .. Len(q) /\ j = Len(q) + 1
    BY <1>1, <2>1, <2>3
  <2>4. CASE i = Len(q) + 1 /\ j \in 1 .. Len(q)
    BY <1>1, <2>1, <2>4
  <2> QED BY <1>1, <2>2, <2>3, <2>4
<1> QED BY <1>2, <1>3 DEF r

LEMMA NumbersOfFirst ==
  ASSUME NEW q \in Seq(Command), NEW e \in Command, NEW r, r = <<e>> \o q
  PROVE  /\ NumbersOf(r) = {e.seq} \cup NumbersOf(q)
         /\ Distinct(r) => Distinct(q) /\ e.seq \notin NumbersOf(q)
<1> DEFINE u == <<e>>
<1>0. u \in Seq(Command) /\ Len(u) = 1 /\ u[1] = e /\ r = u \o q
  BY Single
<1> HIDE DEF u
<1>1. /\ r \in Seq(Command) /\ Len(r) = 1 + Len(q) /\ Len(q) \in Nat
      /\ \A i \in 1 .. 1 + Len(q) : r[i] = IF i <= 1 THEN u[i] ELSE q[i - 1]
  <2>1. /\ u \o q \in Seq(Command) /\ Len(u \o q) = Len(u) + Len(q)
        /\ \A i \in 1 .. Len(u) + Len(q) : (u \o q)[i] = IF i <= Len(u) THEN u[i] ELSE q[i - Len(u)]
    BY <1>0, ConcatProperties
  <2> QED BY <1>0, <2>1, LenProperties
<1>2. /\ DOMAIN q = 1 .. Len(q) /\ DOMAIN r = 1 .. Len(q) + 1
      /\ r[1] = e /\ \A i \in 1 .. Len(q) : r[i + 1] = q[i]
  <2>1. DOMAIN q = 1 .. Len(q) /\ DOMAIN r = 1 .. Len(r)
    BY <1>1, LenProperties
  <2>2. r[1] = e
    BY <1>0, <1>1
  <2>3. \A i \in 1 .. Len(q) : r[i + 1] = q[i]
    BY <1>1
  <2> QED BY <1>1, <2>1, <2>2, <2>3
<1>3. NumbersOf(r) \subseteq {e.seq} \cup NumbersOf(q)
  <2>1. ASSUME NEW i \in DOMAIN r
        PROVE  r[i].seq \in {e.seq} \cup NumbersOf(q)
    <3>1. CASE i = 1
      BY <1>2, <3>1
    <3>2. CASE i # 1
      <4>1. i - 1 \in DOMAIN q /\ r[i] = q[i - 1]
        BY <1>1, <1>2, <3>2
      <4> QED BY <4>1 DEF NumbersOf
    <3> QED BY <3>1, <3>2
  <2> QED BY <2>1 DEF NumbersOf
<1>4. e.seq \in NumbersOf(r)
  <2>1. 1 \in DOMAIN r
    BY <1>1, <1>2
  <2> QED BY <1>2, <2>1 DEF NumbersOf
<1>5. NumbersOf(q) \subseteq NumbersOf(r)
  <2>1. ASSUME NEW i \in DOMAIN q
        PROVE  q[i].seq \in NumbersOf(r)
    <3>1. i + 1 \in DOMAIN r /\ r[i + 1] = q[i]
      BY <1>1, <1>2
    <3> QED BY <3>1 DEF NumbersOf
  <2> QED BY <2>1 DEF NumbersOf
<1>6. ASSUME Distinct(r)
      PROVE  Distinct(q) /\ e.seq \notin NumbersOf(q)
  <2>1. Distinct(q)
    <3> SUFFICES ASSUME NEW i \in DOMAIN q, NEW j \in DOMAIN q, q[i].seq = q[j].seq
                 PROVE  i = j
      BY DEF Distinct
    <3>1. i + 1 \in DOMAIN r /\ j + 1 \in DOMAIN r /\ r[i + 1].seq = r[j + 1].seq
      BY <1>1, <1>2
    <3>2. i + 1 = j + 1
      BY <1>6, <3>1 DEF Distinct
    <3> QED BY <1>2, <3>2
  <2>2. ASSUME NEW i \in DOMAIN q, q[i].seq = e.seq
        PROVE  FALSE
    <3>1. i + 1 \in DOMAIN r /\ 1 \in DOMAIN r /\ r[i + 1].seq = r[1].seq
      BY <1>1, <1>2, <2>2
    <3>2. i + 1 = 1
      BY <1>6, <3>1 DEF Distinct
    <3> QED BY <1>2, <3>2
  <2> QED BY <2>1, <2>2 DEF NumbersOf
<1> QED BY <1>3, <1>4, <1>5, <1>6

\* A number that is settled stays so, and a command that is pushed settles its.
LEMMA SubmittedStep ==
  ASSUME TypeOK, SubmittedOnce, [Next]_vars
  PROVE  SubmittedOnce' /\ \A n \in Nat : Settled(n) => Settled(n)'
<1>1. ASSUME NEW p \in Producer, Sequence(p)
      PROVE  SubmittedOnce' /\ \A n \in Nat : Settled(n) => Settled(n)'
  <2>1. /\ submitting'[p].seq = next /\ submitting'[p].from = p
        /\ \A q \in Producer \ {p} : submitting'[q] = submitting[q]
        /\ next' = next + 1 /\ next \in Nat
    BY <1>1 DEF TypeOK, Sequence
  <2>2. \A q \in Producer : submitting[q] # None => submitting[q].seq \in Nat /\ submitting[q].seq < next
    BY DEF TypeOK, SubmittedOnce, Command
  <2>3. SubmittedOnce'
    BY <2>1, <2>2 DEF SubmittedOnce
  <2>4. \A n \in Nat : Settled(n) => Settled(n)'
    BY <2>1, <2>2 DEF Settled
  <2> QED BY <2>3, <2>4
<1>2. ASSUME NEW p \in Producer, TryPush(p) \/ Refuse(p)
      PROVE  SubmittedOnce' /\ \A n \in Nat : Settled(n) => Settled(n)'
  <2>1. submitting'[p] = None /\ next' = next /\ \A q \in Producer \ {p} : submitting'[q] = submitting[q]
    BY <1>2 DEF TypeOK, TryPush, Refuse, NumberSpent
  <2> QED BY <2>1 DEF SubmittedOnce, Settled
<1>3. CASE UNCHANGED <<submitting, next>>
  BY <1>3 DEF SubmittedOnce, Settled
<1>4. CASE \E s \in Shard : RunShard(s)
  BY <1>3, <1>4 DEF RunShard, Pop, Log, Apply, PassOver, Lock, Send, Forget, Unlock, Exit, producers
<1>5. CASE \E r \in Late : Subscribe(r) \/ DropReceiver(r)
  BY <1>3, <1>5 DEF Subscribe, DropReceiver, producers
<1>6. CASE DropSenders \/ Join \/ UNCHANGED vars
  BY <1>3, <1>6 DEF DropSenders, Join, vars, producers
<1> QED BY <1>1, <1>2, <1>4, <1>5, <1>6 DEF Next

LEMMA PushSettles ==
  ASSUME TypeOK, SubmittedOnce, NEW p \in Producer, TryPush(p), NEW n, n = submitting[p].seq
  PROVE  Settled(n)' /\ ~Settled(n)
<1>1. submitting'[p] = None /\ next' = next /\ \A q \in Producer \ {p} : submitting'[q] = submitting[q]
  BY DEF TypeOK, TryPush
<1>2. submitting[p] # None
  BY DEF TryPush
<1>3. n < next /\ \A q \in Producer \ {p} : submitting[q] # None => submitting[q].seq # n
  BY <1>2 DEF SubmittedOnce
<1>4. Settled(n)'
  BY <1>1, <1>3 DEF Settled
<1> QED BY <1>2, <1>4 DEF Settled

\* accepted grows by one command at a time.
LEMMA AcceptedElse ==
  ASSUME [Next]_vars, ~\E p \in Producer : TryPush(p)
  PROVE  accepted' = accepted
<1>1. CASE \E p \in Producer : Sequence(p) \/ Refuse(p)
  BY <1>1 DEF Sequence, Refuse, NotAccepted
<1>2. CASE \E s \in Shard : RunShard(s)
  BY <1>2 DEF RunShard, Pop, Log, Apply, PassOver, Lock, Send, Forget, Unlock, Exit, producers
<1>3. CASE \E r \in Late : Subscribe(r) \/ DropReceiver(r)
  BY <1>3 DEF Subscribe, DropReceiver, producers
<1>4. CASE DropSenders \/ Join \/ UNCHANGED vars
  BY <1>4 DEF DropSenders, Join, vars, producers
<1> QED BY <1>1, <1>2, <1>3, <1>4 DEF Next

LEMMA PushAccepts ==
  ASSUME TypeOK, NEW p \in Producer, TryPush(p)
  PROVE  /\ accepted'[p] = Append(accepted[p], submitting[p])
         /\ \A q \in Producer \ {p} : accepted'[q] = accepted[q]
         /\ submitting[p] \in Command /\ submitting[p].seq \in Nat
BY DEF TypeOK, TryPush, Command

LEMMA AcceptedStep ==
  ASSUME TypeOK, SubmittedOnce, AcceptedSettled, AcceptedOnce, [Next]_vars
  PROVE  AcceptedSettled' /\ AcceptedOnce'
<1>0. \A p \in Producer : accepted[p] \in Seq(Command) /\ NumbersOf(accepted[p]) \subseteq Nat
  <2>1. ASSUME NEW p \in Producer, NEW i \in DOMAIN accepted[p]
        PROVE  accepted[p][i].seq \in Nat
    <3>1. accepted[p][i] \in Command
      BY <2>1, ElementOfSeq, LenProperties DEF TypeOK
    <3> QED BY <3>1 DEF Command
  <2> QED BY <2>1 DEF TypeOK, NumbersOf
<1>1. ASSUME NEW p \in Producer, TryPush(p)
      PROVE  AcceptedSettled' /\ AcceptedOnce'
  <2> DEFINE cmd == submitting[p]
             a == accepted'[p]
  <2>1. cmd \in Command /\ cmd.seq \in Nat /\ \A q \in Producer \ {p} : accepted'[q] = accepted[q]
    BY <1>1, PushAccepts
  <2>2. cmd.seq \notin NumbersOf(accepted[p]) /\ \A q \in Producer : cmd.seq \notin NumbersOf(accepted[q])
    BY <1>1, PushSettles DEF AcceptedSettled
  <2>3. NumbersOf(a) = NumbersOf(accepted[p]) \cup {cmd.seq} /\ Distinct(a)
    <3>1. a = Append(accepted[p], cmd)
      BY <1>1, PushAccepts
    <3>2. Distinct(accepted[p])
      BY DEF AcceptedOnce
    <3> HIDE DEF cmd, a
    <3> QED BY <1>0, <2>1, <2>2, <3>1, <3>2, NumbersOfAppend
  <2>4. \A q \in Producer \ {p} : NumbersOf(accepted'[q]) = NumbersOf(accepted[q]) /\ Distinct(accepted'[q])
    BY <2>1 DEF AcceptedOnce
  <2>5. \A n \in Nat : Settled(n) \/ n = cmd.seq => Settled(n)'
    BY <1>1, PushSettles, SubmittedStep
  <2> HIDE DEF cmd, a
  <2>6. \A q \in Producer : \A n \in NumbersOf(accepted'[q]) : n \in Nat /\ (Settled(n) \/ n = cmd.seq)
    <3> TAKE q \in Producer
    <3>1. CASE q = p
      BY <1>0, <2>1, <2>3, <3>1 DEF AcceptedSettled, a
    <3>2. CASE q # p
      BY <1>0, <2>4, <3>2 DEF AcceptedSettled
    <3> QED BY <3>1, <3>2
  <2>7. AcceptedSettled'
    BY <2>5, <2>6 DEF AcceptedSettled
  <2>8. ASSUME NEW q \in Producer
        PROVE  /\ Distinct(accepted'[q])
               /\ \A r \in Producer \ {q} : NumbersOf(accepted'[q]) \cap NumbersOf(accepted'[r]) = {}
    <3>1. CASE q = p
      BY <2>2, <2>3, <2>4, <3>1 DEF AcceptedOnce, a
    <3>2. CASE q # p
      BY <2>2, <2>3, <2>4, <3>2 DEF AcceptedOnce, a
    <3> QED BY <3>1, <3>2
  <2> QED BY <2>7, <2>8 DEF AcceptedOnce
<1>2. CASE ~\E p \in Producer : TryPush(p)
  <2>1. accepted' = accepted
    BY <1>2, AcceptedElse
  <2>2. AcceptedOnce'
    BY <2>1 DEF AcceptedOnce
  <2>3. AcceptedSettled'
    BY <1>0, <2>1, SubmittedStep DEF AcceptedSettled
  <2> QED BY <2>2, <2>3
<1> QED BY <1>1, <1>2

LEMMA PipeSame ==
  ASSUME NEW s \in Shard, Pipe(s)' = Pipe(s)
  PROVE  /\ Ahead(s)' = Ahead(s) /\ Behind(s)' = Behind(s)
         /\ Distinct(Queue(s))' <=> Distinct(Queue(s))
<1>1. Queue(s)' = Queue(s) /\ applied'[s] = applied[s] /\ unlogged'[s] = unlogged[s]
  BY DEF Pipe
<1>2. (Between(s, {"apply"}))' = Between(s, {"apply"})
  BY DEF Pipe
<1> QED BY <1>1, <1>2 DEF Ahead, Behind, NumbersOf, Distinct

LEMMA PassedStep ==
  ASSUME TypeOK, SubmittedOnce, PassedOnce, [Next]_vars
  PROVE  PassedOnce'
<1> SUFFICES ASSUME NEW t \in Shard PROVE Passed(t)'
  BY DEF PassedOnce
<1>0. Passed(t) /\ Ahead(t) \subseteq Nat /\ Behind(t) \subseteq Nat
  <2>1. \A q \in Seq(Command) : NumbersOf(q) \subseteq Nat
    <3>1. ASSUME NEW q \in Seq(Command), NEW i \in DOMAIN q
          PROVE  q[i].seq \in Nat
      <4>1. q[i] \in Command
        BY <3>1, ElementOfSeq, LenProperties
      <4> QED BY <4>1 DEF Command
    <3> QED BY <3>1 DEF NumbersOf
  <2>2. unlogged[t] \subseteq Nat
    BY DEF TypeOK
  <2> QED BY <2>1, <2>2, PipeType DEF PassedOnce, Ahead, Behind
<1>1. CASE Pipe(t)' = Pipe(t)
  BY <1>0, <1>1, PipeSame, SubmittedStep DEF Passed
<1>2. ASSUME NEW p \in Producer, TryPush(p)
      PROVE  Passed(t)'
  <2> DEFINE cmd == submitting[p]
  <2>1. CASE t # ShardFor(cmd.symbol)
    BY <1>1, <1>2, <2>1, PushPipe
  <2>2. CASE t = ShardFor(cmd.symbol)
    <3>1. /\ cmd \in Command /\ Queue(t)' = Append(Queue(t), cmd) /\ cmd.seq \in Nat
          /\ applied' = applied /\ unlogged' = unlogged /\ shard' = shard
      BY <1>2, <2>2, PushPipe, PushAccepts
    <3>2. cmd.seq \notin Ahead(t) /\ cmd.seq \notin Behind(t)
      BY <1>0, <1>2, PushSettles DEF Passed
    <3>3. Behind(t)' = Behind(t)
      BY <3>1 DEF Behind, Between, NumbersOf
    <3>4. Ahead(t)' = Ahead(t) \cup {cmd.seq} /\ Distinct(Queue(t)')
      <4>1. Queue(t) \in Seq(Command) /\ Distinct(Queue(t))
        BY <1>0, PipeType DEF Passed
      <4>2. Ahead(t)' = NumbersOf(Queue(t)') /\ Ahead(t) = NumbersOf(Queue(t))
        BY DEF Ahead, NumbersOf
      <4> HIDE DEF cmd
      <4> QED BY <3>1, <3>2, <4>1, <4>2, NumbersOfAppend
    <3>5. \A n \in Nat : Settled(n) \/ n = cmd.seq => Settled(n)'
      BY <1>2, PushSettles, SubmittedStep
    <3> HIDE DEF cmd
    <3>6. \A n \in Ahead(t)' \cup Behind(t)' : Settled(n)'
      BY <1>0, <3>1, <3>3, <3>4, <3>5 DEF Passed
    <3>7. Ahead(t)' \cap Behind(t)' = {}
      BY <1>0, <3>2, <3>3, <3>4 DEF Passed
    <3>8. Distinct(Queue(t))'
      BY <3>4 DEF Distinct
    <3> QED BY <3>6, <3>7, <3>8 DEF Passed
  <2> QED BY <2>1, <2>2
<1>3. ASSUME NEW s \in Shard, Log(s)
      PROVE  Passed(t)'
  <2>1. CASE t # s
    BY <1>1, <1>3, <2>1, LogPipe
  <2>2. CASE t = s
    <3> DEFINE cmd == shard[s].cmd
    <3>1. /\ cmd \in Command /\ applied' = applied
          /\ Queue(t) = <<cmd>> \o Queue(t)' /\ Queue(t)' \in Seq(Command)
      <4>1. ring[s] \in Seq(Command)
        BY DEF TypeOK
      <4> QED BY <1>3, <2>2, <4>1, LogPipe
    <3>2. unlogged'[s] = unlogged[s] \/ unlogged'[s] = unlogged[s] \cup {cmd.seq}
      BY <1>3, LogPipe
    <3>3. Between(s, {"apply"}) = <<>> /\ (Between(s, {"apply"}))' = <<cmd>>
      BY <1>3, LogPipe
    <3>4. Behind(t)' = Behind(t) \cup {cmd.seq}
      <4>1. Behind(t)' = NumbersOf(applied[s]) \cup unlogged'[s] \cup NumbersOf(<<cmd>>)
        BY <2>2, <3>1, <3>3 DEF Behind
      <4>2. Behind(t) = NumbersOf(applied[s]) \cup unlogged[s] \cup NumbersOf(<<>>)
        BY <2>2, <3>3 DEF Behind
      <4> HIDE DEF cmd
      <4> QED BY <3>1, <3>2, <4>1, <4>2, NumbersOfShort
    <3>5. Ahead(t) = {cmd.seq} \cup Ahead(t)' /\ Distinct(Queue(t)') /\ cmd.seq \notin Ahead(t)'
      <4>1. Distinct(Queue(t))
        BY <1>0 DEF Passed
      <4>2. Ahead(t)' = NumbersOf(Queue(t)') /\ Ahead(t) = NumbersOf(Queue(t))
        BY DEF Ahead, NumbersOf
      <4> DEFINE q == Queue(t)'
                 r == Queue(t)
      <4>3. q \in Seq(Command) /\ cmd \in Command /\ r = <<cmd>> \o q
        BY <3>1
      <4> HIDE DEF cmd, q, r
      <4>4. NumbersOf(r) = {cmd.seq} \cup NumbersOf(q) /\ (Distinct(r) => Distinct(q) /\ cmd.seq \notin NumbersOf(q))
        BY <4>3, NumbersOfFirst
      <4> QED BY <4>1, <4>2, <4>4 DEF q, r
    <3> HIDE DEF cmd
    <3>6. \A n \in Ahead(t)' \cup Behind(t)' : n \in Ahead(t) \cup Behind(t)
      BY <3>4, <3>5
    <3>7. \A n \in Ahead(t)' \cup Behind(t)' : Settled(n)'
      BY <1>0, <3>6, SubmittedStep DEF Passed
    <3>8. Ahead(t)' \cap Behind(t)' = {}
      BY <1>0, <3>4, <3>5 DEF Passed
    <3>9. Distinct(Queue(t))'
      BY <3>5 DEF Distinct
    <3> QED BY <3>7, <3>8, <3>9 DEF Passed
  <2> QED BY <2>1, <2>2
<1>4. ASSUME NEW s \in Shard, Apply(s) \/ PassOver(s)
      PROVE  Passed(t)'
  <2>1. CASE t # s
    BY <1>1, <1>4, <2>1, ApplyPipe, PassOverPipe
  <2>2. CASE t = s
    <3> DEFINE cmd == shard[s].cmd
    <3>1. /\ cmd \in Command /\ Queue(s)' = Queue(s) /\ unlogged' = unlogged
          /\ applied'[s] = applied[s] \/ applied'[s] = Append(applied[s], cmd)
      BY <1>4, ApplyPipe, PassOverPipe
    <3>2. Between(s, {"apply"}) = <<cmd>> /\ (Between(s, {"apply"}))' = <<>>
      BY <1>4, ApplyPipe, PassOverPipe
    <3>3. Behind(t)' \subseteq Behind(t)
      <4>1. Behind(t)' = NumbersOf(applied'[s]) \cup unlogged[s] \cup NumbersOf(<<>>)
        BY <2>2, <3>1, <3>2 DEF Behind
      <4>2. Behind(t) = NumbersOf(applied[s]) \cup unlogged[s] \cup NumbersOf(<<cmd>>)
        BY <2>2, <3>2 DEF Behind
      <4>3. applied[s] \in Seq(Command)
        BY DEF TypeOK
      <4> HIDE DEF cmd
      <4>4. NumbersOf(applied'[s]) \subseteq NumbersOf(applied[s]) \cup {cmd.seq}
        BY <3>1, <4>3, NumbersOfAppend
      <4> QED BY <3>1, <4>1, <4>2, <4>4, NumbersOfShort
    <3>4. Ahead(t)' = Ahead(t)
      BY <2>2, <3>1 DEF Ahead, NumbersOf
    <3>5. Distinct(Queue(t))'
      BY <1>0, <2>2, <3>1 DEF Passed, Distinct
    <3> HIDE DEF cmd
    <3>6. \A n \in Ahead(t)' \cup Behind(t)' : Settled(n)'
      BY <1>0, <3>3, <3>4, SubmittedStep DEF Passed
    <3>7. Ahead(t)' \cap Behind(t)' = {}
      BY <1>0, <3>3, <3>4 DEF Passed
    <3> QED BY <3>5, <3>6, <3>7 DEF Passed
  <2> QED BY <2>1, <2>2
<1>5. CASE Elsewhere
  BY <1>1, <1>5, ElsewherePipe
<1> QED BY <1>2, <1>3, <1>4, <1>5, StepKinds

(***************************************************************************)
(* AppliedInOrder: what a producer has been told of is on the shard's      *)
(* line, in the order it was told.                                         *)
(***************************************************************************)

From(p) == {cmd \in Command : cmd.from = p /\ WithBook(cmd)}
To(s)   == {cmd \in Command : ShardFor(cmd.symbol) = s /\ WithBook(cmd)}

InOrder(p, s) == Only(Line(s), From(p)) = Only(accepted[p], To(s))

LEMMA InOrderIs == AppliedInOrder <=> \A p \in Producer, s \in Shard : InOrder(p, s)
BY DEF AppliedInOrder, InOrder, Line, From, To

\* A command that is not selected may as well be left out.
LEMMA OnlyWithout ==
  ASSUME NEW X, NEW S, NEW a \in Seq(X), NEW e \in X \ S, NEW r \in Seq(X)
  PROVE  Only((a \o <<e>>) \o r, S) = Only(a \o r, S)
<1> DEFINE b == Append(a, e)
<1>1. b = a \o <<e>> /\ b \in Seq(X)
  BY AppendIsConcat, AppendProperties
<1>2. Only(b, S) = Only(a, S)
  BY OnlyAppend
<1> HIDE DEF b
<1>3. Only(b \o r, S) = Only(b, S) \o Only(r, S) /\ Only(a \o r, S) = Only(a, S) \o Only(r, S)
  BY ZenonT(60), <1>1, OnlyConcat
<1> QED BY <1>1, <1>2, <1>3

LEMMA InOrderStep ==
  ASSUME TypeOK, SubmittedOnce, AppliedInOrder, [Next]_vars
  PROVE  AppliedInOrder'
<1> SUFFICES ASSUME NEW p \in Producer, NEW s \in Shard
             PROVE  Only(Line(s)', From(p)) = Only(accepted'[p], To(s))
  BY DEF AppliedInOrder, Line, From, To, WithBook, ShardFor
<1>0. Only(Line(s), From(p)) = Only(accepted[p], To(s))
  BY InOrderIs DEF InOrder
<1>1. ASSUME NEW q \in Producer, TryPush(q)
      PROVE  Only(Line(s)', From(p)) = Only(accepted'[p], To(s))
  <2> DEFINE cmd == submitting[q]
             t == ShardFor(cmd.symbol)
  <2>1. /\ cmd \in Command /\ cmd.from = q
        /\ accepted'[q] = Append(accepted[q], cmd)
        /\ \A r \in Producer \ {q} : accepted'[r] = accepted[r]
    BY <1>1, PushAccepts DEF SubmittedOnce, TryPush
  <2>2. s # t => Line(s)' = Line(s)
    BY <1>1, PushPipe DEF Pipe
  <2>3. s = t => Line(s)' = Append(Line(s), cmd)
    BY <1>1, PushPipe
  <2>4. Line(s) \in Seq(Command) /\ accepted[p] \in Seq(Command)
    BY PipeType DEF TypeOK
  <2>5. cmd \in From(p) <=> p = q /\ WithBook(cmd)
    BY <2>1 DEF From
  <2>6. cmd \in To(s) <=> s = t /\ WithBook(cmd)
    BY <2>1 DEF To
  <2> DEFINE l == Line(s)
             a == accepted[p]
             f == From(p)
             g == To(s)
  <2>11. Only(l, f) = Only(a, g) /\ l \in Seq(Command) /\ a \in Seq(Command)
    BY <1>0, <2>4
  <2>12. (cmd \in f <=> p = q /\ WithBook(cmd)) /\ (cmd \in g <=> s = t /\ WithBook(cmd))
    BY <2>5, <2>6
  <2>13. Only(Append(l, cmd), f) = IF cmd \in f THEN Append(Only(l, f), cmd) ELSE Only(l, f)
    <3> HIDE DEF cmd, t, l, a, f, g
    <3> QED BY <2>1, <2>11, OnlyAppend
  <2>14. Only(Append(a, cmd), g) = IF cmd \in g THEN Append(Only(a, g), cmd) ELSE Only(a, g)
    <3> HIDE DEF cmd, t, l, a, f, g
    <3> QED BY <2>1, <2>11, OnlyAppend
  <2> HIDE DEF cmd, t, f, g
  <2>7. CASE s = t /\ p = q
    BY <2>1, <2>3, <2>7, <2>11, <2>12, <2>13, <2>14 DEF f, g
  <2>8. CASE s = t /\ p # q
    BY <2>1, <2>3, <2>8, <2>11, <2>12, <2>13 DEF f, g
  <2>9. CASE s # t /\ p = q
    BY <2>1, <2>2, <2>9, <2>11, <2>12, <2>14 DEF f, g
  <2>10. CASE s # t /\ p # q
    BY <1>0, <2>1, <2>2, <2>10
  <2> QED BY <2>7, <2>8, <2>9, <2>10
<1>2. CASE ~\E q \in Producer : TryPush(q)
  <2>1. accepted' = accepted
    BY <1>2, AcceptedElse
  <2>2. CASE Line(s)' = Line(s)
    BY <1>0, <2>1, <2>2
  <2>3. ASSUME NEW t \in Shard, PassOver(t), t = s
        PROVE  Only(Line(s)', From(p)) = Only(accepted'[p], To(s))
    <3> DEFINE cmd == shard[s].cmd
    <3>1. /\ cmd \in Command /\ cmd \notin From(p)
          /\ Line(s) = (applied[s] \o <<cmd>>) \o ring[s] /\ Line(s)' = applied[s] \o ring[s]
      BY <2>3, PassOverPipe DEF From, WithBook
    <3>2. applied[s] \in Seq(Command) /\ ring[s] \in Seq(Command)
      BY DEF TypeOK
    <3> HIDE DEF cmd
    <3>3. Only(Line(s)', From(p)) = Only(Line(s), From(p))
      <4> DEFINE a == applied[s]
                 r == ring[s]
      <4>1. a \in Seq(Command) /\ r \in Seq(Command) /\ cmd \in Command \ From(p)
        BY <3>1, <3>2
      <4> HIDE DEF a, r
      <4>2. Only((a \o <<cmd>>) \o r, From(p)) = Only(a \o r, From(p))
        BY <4>1, OnlyWithout
      <4> QED BY <3>1, <4>2 DEF a, r
    <3> QED BY <1>0, <2>1, <3>3
  <2>4. CASE \E t \in Shard : PassOver(t) /\ t = s
    BY <2>3, <2>4
  <2>5. CASE \E t \in Shard : (Log(t) \/ Apply(t) \/ PassOver(t)) /\ t # s
    <3>1. Pipe(s)' = Pipe(s)
      BY <2>5, LogPipe, ApplyPipe, PassOverPipe
    <3> QED BY <2>2, <3>1 DEF Pipe
  <2>6. CASE Log(s)
    BY <2>2, <2>6, LogPipe
  <2>7. CASE Apply(s)
    BY <2>2, <2>7, ApplyPipe
  <2>8. CASE Elsewhere
    <3>1. Pipe(s)' = Pipe(s)
      BY <2>8, ElsewherePipe
    <3> QED BY <2>2, <3>1 DEF Pipe
  <2> QED BY <1>2, <2>4, <2>5, <2>6, <2>7, <2>8, StepKinds
<1> QED BY <1>1, <1>2

(***************************************************************************)
(* LogAhead.                                                               *)
(***************************************************************************)

WithBooks == {cmd \in Command : WithBook(cmd)}

\* A shard's commands with a book whose append has not failed.
Kept(s) == {cmd \in Command : WithBook(cmd) /\ cmd.seq \notin unlogged[s]}

\* The commands that have been to the log.
PastLog(s) == applied[s] \o Between(s, {"apply"})

LEMMA LogAheadStep ==
  ASSUME TypeOK, PassedOnce, LogAhead, [Next]_vars
  PROVE  LogAhead'
<1> SUFFICES ASSUME NEW t \in Shard
             PROVE  Only(logged'[t], WithBooks) = Only(PastLog(t)', Kept(t)')
  BY DEF LogAhead, WithBooks, Kept, PastLog, WithBook
<1>0. Only(logged[t], WithBooks) = Only(PastLog(t), Kept(t))
  BY DEF LogAhead, WithBooks, Kept, PastLog
<1>1. CASE Pipe(t)' = Pipe(t) /\ logged'[t] = logged[t]
  <2>1. applied'[t] = applied[t] /\ unlogged'[t] = unlogged[t]
    BY <1>1 DEF Pipe
  <2>2. (Between(t, {"apply"}))' = Between(t, {"apply"})
    BY <1>1 DEF Pipe
  <2>3. PastLog(t)' = PastLog(t) /\ Kept(t)' = Kept(t)
    BY <2>1, <2>2 DEF PastLog, Kept, WithBook
  <2> QED BY <1>0, <1>1, <2>3
<1>2. ASSUME NEW s \in Shard, Log(s), t = s
      PROVE  Only(logged'[t], WithBooks) = Only(PastLog(t)', Kept(t)')
  <2> DEFINE cmd == shard[s].cmd
             a == applied[s]
  <2>1. /\ cmd \in Command /\ applied'[s] = a /\ cmd.seq \in Ahead(s) /\ cmd.seq \notin Behind(s)
    <3>1. Queue(s) = <<cmd>> \o Queue(s)' /\ Queue(s)' = ring[s] /\ cmd \in Command /\ applied' = applied
      BY <1>2, LogPipe
    <3>2. cmd.seq \in NumbersOf(Queue(s))
      <4> DEFINE q == Queue(s)
                 r == ring[s]
      <4>1. r \in Seq(Command) /\ q = <<cmd>> \o r
        BY <3>1 DEF TypeOK
      <4>2. cmd \in Command
        BY <3>1
      <4> HIDE DEF q, r, cmd
      <4>3. NumbersOf(q) = {cmd.seq} \cup NumbersOf(r)
        BY <4>1, <4>2, NumbersOfFirst
      <4> QED BY <4>3 DEF q
    <3> QED BY <3>1, <3>2 DEF Ahead, PassedOnce, Passed
  <2>2. Between(s, {"apply"}) = <<>> /\ (Between(s, {"apply"}))' = <<cmd>>
    BY <1>2, LogPipe
  <2>3. a \in Seq(Command) /\ logged[s] \in Seq(Command)
    BY DEF TypeOK
  <2>4. cmd.seq \notin unlogged[s] /\ \A i \in 1 .. Len(a) : a[i] \in Command /\ a[i].seq # cmd.seq
    BY <2>1, <2>3, ElementOfSeq, LenProperties DEF Behind, NumbersOf
  <2>5. PastLog(s) = a
    BY <2>2, <2>3, ConcatEmptySeq DEF PastLog
  <2>6. PastLog(s)' = Append(a, cmd)
    <3>1. PastLog(s)' = a \o <<cmd>>
      BY <2>1, <2>2 DEF PastLog
    <3> HIDE DEF a, cmd
    <3> QED BY <2>1, <2>3, <3>1, AppendIsConcat
  <2> HIDE DEF cmd, a
  <2>7. CASE logged'[s] = Append(logged[s], cmd) /\ unlogged'[s] = unlogged[s]
    <3>1. Kept(s)' = Kept(s)
      BY <2>7 DEF Kept, WithBook
    <3>2. cmd \in WithBooks <=> cmd \in Kept(s)
      BY <2>1, <2>4 DEF WithBooks, Kept
    <3>3. Only(logged'[s], WithBooks)
            = IF cmd \in WithBooks THEN Append(Only(logged[s], WithBooks), cmd) ELSE Only(logged[s], WithBooks)
      <4> DEFINE l == logged[s]
      <4>1. l \in Seq(Command) /\ cmd \in Command /\ logged'[s] = Append(l, cmd)
        BY <2>1, <2>3, <2>7
      <4> HIDE DEF l
      <4>2. Only(Append(l, cmd), WithBooks)
              = IF cmd \in WithBooks THEN Append(Only(l, WithBooks), cmd) ELSE Only(l, WithBooks)
        BY <4>1, OnlyAppend
      <4> QED BY <4>1, <4>2 DEF l
    <3>4. Only(PastLog(s)', Kept(s))
            = IF cmd \in Kept(s) THEN Append(Only(a, Kept(s)), cmd) ELSE Only(a, Kept(s))
      BY <2>1, <2>3, <2>6, OnlyAppend
    <3> QED BY <1>0, <1>2, <2>5, <3>1, <3>2, <3>3, <3>4
  <2>8. CASE logged'[s] = logged[s] /\ unlogged'[s] = unlogged[s] \cup {cmd.seq}
    <3> DEFINE K == Kept(s)'
               L == Kept(s)
    <3>1. cmd \notin K
      BY <2>1, <2>8 DEF Kept
    <3>2. \A i \in 1 .. Len(a) : a[i] \in K <=> a[i] \in L
      BY <2>4, <2>8 DEF Kept, WithBook
    <3> HIDE DEF K, L
    <3>3. Only(a, K) = Only(a, L)
      BY <2>3, <3>2, OnlyAgree
    <3>4. Only(PastLog(s)', K) = Only(a, K)
      BY <2>1, <2>3, <2>6, <3>1, OnlyAppend
    <3> QED BY <1>0, <1>2, <2>5, <2>8, <3>3, <3>4 DEF K, L
  <2> QED BY <1>2, <2>7, <2>8, LogPipe DEF cmd
<1>3. ASSUME NEW s \in Shard, Apply(s), t = s
      PROVE  Only(logged'[t], WithBooks) = Only(PastLog(t)', Kept(t)')
  <2> DEFINE cmd == shard[s].cmd
             a == applied[s]
  <2>1. /\ cmd \in Command /\ applied'[s] = Append(a, cmd) /\ logged' = logged /\ unlogged' = unlogged
    BY <1>3, ApplyPipe
  <2>2. Between(s, {"apply"}) = <<cmd>> /\ (Between(s, {"apply"}))' = <<>>
    BY <1>3, ApplyPipe
  <2>3. a \in Seq(Command)
    BY DEF TypeOK
  <2>4. PastLog(s)' = PastLog(s)
    <3>1. PastLog(s) = a \o <<cmd>> /\ PastLog(s)' = Append(a, cmd) \o <<>>
      BY <2>1, <2>2 DEF PastLog
    <3> HIDE DEF a, cmd
    <3>2. Append(a, cmd) = a \o <<cmd>> /\ Append(a, cmd) \in Seq(Command)
      BY <2>1, <2>3, AppendIsConcat, AppendProperties
    <3> QED BY <3>1, <3>2, ConcatEmptySeq
  <2>5. Kept(s)' = Kept(s)
    BY <2>1 DEF Kept, WithBook
  <2> QED BY <1>0, <1>3, <2>1, <2>4, <2>5
<1>4. ASSUME NEW s \in Shard, PassOver(s), t = s
      PROVE  Only(logged'[t], WithBooks) = Only(PastLog(t)', Kept(t)')
  <2> DEFINE cmd == shard[s].cmd
             a == applied[s]
  <2>1. /\ cmd \in Command /\ cmd \notin Kept(s)
        /\ applied'[s] = a /\ logged' = logged /\ unlogged' = unlogged
    BY <1>4, PassOverPipe DEF Kept, WithBook
  <2>2. Between(s, {"apply"}) = <<cmd>> /\ (Between(s, {"apply"}))' = <<>>
    BY <1>4, PassOverPipe
  <2>3. a \in Seq(Command)
    BY DEF TypeOK
  <2>4. PastLog(s) = a \o <<cmd>> /\ PastLog(s)' = a \o <<>>
    BY <2>1, <2>2 DEF PastLog
  <2>5. Kept(s)' = Kept(s)
    BY <2>1 DEF Kept, WithBook
  <2> HIDE DEF a, cmd
  <2>6. PastLog(s) = Append(a, cmd) /\ PastLog(s)' = a
    BY <2>1, <2>3, <2>4, AppendIsConcat, ConcatEmptySeq
  <2>7. Only(PastLog(s), Kept(s)) = Only(a, Kept(s))
    BY <2>1, <2>3, <2>6, OnlyAppend
  <2> QED BY <1>0, <1>4, <2>1, <2>5, <2>6, <2>7
<1>5. CASE \E s \in Shard : (Log(s) \/ Apply(s) \/ PassOver(s)) /\ t # s
  BY <1>1, <1>5, LogPipe, ApplyPipe, PassOverPipe
<1>6. CASE \E p \in Producer : TryPush(p)
  <2>1. applied' = applied /\ unlogged' = unlogged /\ shard' = shard /\ logged' = logged
    BY <1>6, PushPipe
  <2>2. PastLog(t)' = PastLog(t) /\ Kept(t)' = Kept(t)
    BY <2>1 DEF PastLog, Kept, WithBook, Between
  <2> QED BY <1>0, <2>1, <2>2
<1>7. CASE Elsewhere
  BY <1>1, <1>7, ElsewherePipe
<1> QED BY <1>2, <1>3, <1>4, <1>5, <1>6, <1>7, StepKinds

(***************************************************************************)
(* The end: nothing comes in once the senders are dropped, and a shard     *)
(* leaves nothing behind.                                                  *)
(***************************************************************************)

LEMMA ClosingStep ==
  ASSUME TypeOK, Closing, [Next]_vars
  PROVE  Closing'
<1>1. ASSUME NEW p \in Producer, Sequence(p) \/ TryPush(p) \/ Refuse(p)
      PROVE  Closing'
  <2>1. open /\ open' = open /\ shard' = shard /\ joined' = joined
    BY <1>1 DEF Closing, Sequence, TryPush, Refuse
  <2> QED BY <2>1 DEF Closing, At
<1>2. ASSUME NEW s \in Shard, Pop(s) \/ Log(s) \/ Apply(s) \/ PassOver(s) \/ Unlock(s)
      PROVE  Closing'
  <2>1. /\ shard[s].at # "exited" /\ open' = open /\ submitting' = submitting /\ joined' = joined
        /\ \A t \in Shard \ {s} : ring'[t] = ring[t]
    BY <1>2 DEF TypeOK, Pop, Log, Apply, PassOver, Unlock, At, producers
  <2>2. /\ shard'[s].at # "exited" /\ \A t \in Shard \ {s} : shard'[t] = shard[t]
    <3>1. \E step \in {"pop", "log", "apply", "send"} : \E cmd : Goto(s, step, cmd)
      BY <1>2, Steps DEF Pop, Log, Apply, PassOver, Unlock
    <3>2. PICK step \in {"pop", "log", "apply", "send"} : \E cmd : Goto(s, step, cmd)
      BY <3>1
    <3>3. PICK cmd : Goto(s, step, cmd)
      BY <3>2
    <3>4. shard'[s] = [at |-> step, cmd |-> cmd] /\ \A t \in Shard \ {s} : shard'[t] = shard[t]
      BY <3>3, GotoElse
    <3> QED BY <3>4
  <2>3. ~joined
    BY <2>1 DEF Closing, At
  <2> QED BY <2>1, <2>2, <2>3 DEF Closing, At
<1>3. ASSUME NEW s \in Shard, Exit(s)
      PROVE  Closing'
  <2>1. /\ ~open /\ ring[s] = <<>> /\ open' = open /\ submitting' = submitting /\ joined' = joined
        /\ ring' = ring /\ Goto(s, "exited", None)
    BY <1>3 DEF Exit, DisconnectedAndDrained, producers
  <2>2. shard'[s] = [at |-> "exited", cmd |-> None] /\ \A t \in Shard \ {s} : shard'[t] = shard[t]
    BY <2>1, GotoElse
  <2> QED BY <2>1, <2>2 DEF Closing, At
<1>4. CASE \/ \E s \in Shard : Lock(s) \/ Send(s) \/ Forget(s)
           \/ \E r \in Late : Subscribe(r) \/ DropReceiver(r)
           \/ UNCHANGED vars
  <2>1. UNCHANGED <<open, submitting, ring, shard, joined>>
    BY <1>4 DEF Lock, Send, Forget, Subscribe, DropReceiver, vars, producers
  <2> QED BY <2>1 DEF Closing, At
<1>5. CASE DropSenders
  BY <1>5 DEF DropSenders, Closing, At, producers
<1>6. CASE Join
  BY <1>6 DEF Join, Closing, At, producers
<1> QED BY <1>1, <1>2, <1>3, <1>4, <1>5, <1>6 DEF Next, RunShard

(***************************************************************************)
(* The theorems.                                                           *)
(***************************************************************************)

LEMMA InductiveInit == Init => Inductive
<1> SUFFICES ASSUME Init PROVE Inductive
  OBVIOUS
<1>1. TypeOK
  BY TypeInit
<1>2. \A s \in Shard : /\ shard[s].at = "pop" /\ ring[s] = <<>> /\ applied[s] = <<>>
                       /\ unlogged[s] = {} /\ logged[s] = <<>>
  BY DEF Init
<1>3. \A s \in Shard : /\ Between(s, {"log", "apply"}) = <<>> /\ Between(s, {"log"}) = <<>>
                       /\ Between(s, {"apply"}) = <<>>
  BY <1>2 DEF Between
<1>4. <<>> \o <<>> = <<>>
  BY ConcatEmptySeq, EmptySeq
<1>5. \A s \in Shard : Line(s) = <<>> /\ Queue(s) = <<>>
  BY <1>2, <1>3, <1>4 DEF Line, Queue
<1>6. NumbersOf(<<>>) = {} /\ Distinct(<<>>)
  BY DEF NumbersOf, Distinct
<1>7. \A s \in Shard : Ahead(s) = {} /\ Behind(s) = {}
  BY <1>2, <1>3, <1>5, <1>6 DEF Ahead, Behind
<1>8. \A p \in Producer : accepted[p] = <<>> /\ submitting[p] = None
  BY DEF Init
<1>9. SubmittedOnce /\ AcceptedSettled /\ AcceptedOnce
  BY <1>6, <1>8 DEF SubmittedOnce, AcceptedSettled, AcceptedOnce
<1>10. PassedOnce
  BY <1>5, <1>6, <1>7 DEF PassedOnce, Passed
<1>11. AppliedInOrder
  <2>1. \A p \in Producer, s \in Shard : InOrder(p, s)
    BY <1>5, <1>8, OnlyEmpty DEF InOrder
  <2> QED BY <2>1, InOrderIs
<1>12. LogAhead
  BY <1>2, <1>3, <1>4, OnlyEmpty DEF LogAhead
<1>13. Closing
  BY <1>2, <1>8 DEF Init, Closing, At
<1> QED BY <1>1, <1>9, <1>10, <1>11, <1>12, <1>13 DEF Inductive

LEMMA InductiveStep == Inductive /\ [Next]_vars => Inductive'
BY TypeStep, SubmittedStep, AcceptedStep, PassedStep, InOrderStep, LogAheadStep, ClosingStep
   DEF Inductive

LEMMA InductiveAlways == Spec => []Inductive
<1>1. Init => Inductive
  BY InductiveInit
<1>2. Inductive /\ [Next]_vars => Inductive'
  BY InductiveStep
<1> QED BY <1>1, <1>2, PTL DEF Spec

\* The sequencer never gives two accepted commands the same number, however many
\* threads race in submit and however many of them a full ring refuses.
THEOREM SubmitNumbersOnce == Spec => []NumbersUnique
<1>1. Inductive => NumbersUnique
  <2> SUFFICES ASSUME AcceptedOnce,
                      NEW p \in Producer, NEW q \in Producer,
                      NEW i \in DOMAIN accepted[p], NEW j \in DOMAIN accepted[q],
                      accepted[p][i].seq = accepted[q][j].seq
               PROVE  p = q /\ i = j
    BY DEF NumbersUnique, Inductive
  <2>1. p = q
    BY DEF AcceptedOnce, NumbersOf
  <2> QED BY <2>1 DEF AcceptedOnce, Distinct
<1> QED BY <1>1, InductiveAlways, PTL

\* What submit said Ok to, for a symbol with a book, reaches it once, in the order
\* of the producer's calls: neither the ring nor the shard loses, repeats or
\* overtakes a command.
THEOREM SubmitInOrder == Spec => []AppliedInOrder
<1>1. Inductive => AppliedInOrder
  BY DEF Inductive
<1> QED BY <1>1, InductiveAlways, PTL

\* No command reaches a book before its shard's log has been offered it, and the
\* log has them in the order of the book.
THEOREM LogBeforeBook == Spec => []LogAhead
<1>1. Inductive => LogAhead
  BY DEF Inductive
<1> QED BY <1>1, InductiveAlways, PTL

(***************************************************************************)
(* The egress bus: what the receivers hear, for every number of shards and *)
(* receivers, every batch size, and receivers that come and go at any time.*)
(***************************************************************************)

BusSound ==
  /\ subs # <<>> /\ subs[1] = Own
  /\ \A i, j \in DOMAIN subs : subs[i] = subs[j] => i = j
  /\ \A s \in Shard : holder # s => sent[s] = FirstEvent
  /\ holder # None => /\ At(holder, "send")
                      /\ sent[holder].sub <= Len(subs) + 1
                      /\ sent[holder].sub = Len(subs) + 1 => sent[holder].event = 1
  /\ \A r \in Subscriber \ gone : r \notin ToSet(subs) => heard[r] = <<>> /\ since[r] = None

\* How much of the batch being sent has come to the receiver at place j of
\* subs, and how much it had heard before that batch.
Reached(j) ==
  IF holder = None \/ j > sent[holder].sub THEN 0
  ELSE IF j < sent[holder].sub THEN BatchSize
  ELSE sent[holder].event - 1

Before(j) == Len(heard[subs[j]]) - Reached(j)

\* Before the batch being sent a receiver had heard whole batches, all that Own
\* had since the receiver subscribed; and of that batch, its first events.
Aligned(j) ==
  /\ Before(j) \in 0 .. Before(1)
  /\ Before(j) % BatchSize = 0
  /\ since[subs[j]] = Before(1) - Before(j)
  /\ \A i \in 1 .. Before(j) : heard[subs[j]][i] = heard[Own][Before(1) - Before(j) + i]
  /\ \A i \in 1 .. Reached(j) :
       heard[subs[j]][Before(j) + i] = [seq |-> shard[holder].cmd.seq, event |-> i]

AllAligned == \A j \in DOMAIN subs : Aligned(j)

\* No command is applied without being sent.
Sent(s, cmd) ==
  \/ [seq |-> cmd.seq, event |-> BatchSize] \in ToSet(heard[Own])
  \/ At(s, "send") /\ shard[s].cmd = cmd /\ (holder = s => sent[s].sub = 1)

AppliedAreSent == \A s \in Shard : \A i \in DOMAIN applied[s] : Sent(s, applied[s][i])

BusInductive == TypeOK /\ BusSound /\ AllAligned /\ BatchesWhole /\ AppliedAreSent

(***************************************************************************)
(* Whole batches, in arithmetic.                                           *)
(***************************************************************************)

LEMMA Remainder ==
  ASSUME NEW b \in Nat \ {0}, NEW q \in Int, NEW r \in 0 .. b - 1
  PROVE  ((b * q) + r) % b = r
OBVIOUS

LEMMA ZeroRemainder ==
  ASSUME NEW b \in Nat \ {0}
  PROVE  0 % b = 0
OBVIOUS

LEMMA Division ==
  ASSUME NEW n \in Nat, NEW b \in Nat \ {0}, n % b = 0
  PROVE  \E q \in Nat : n = b * q
<1>1. n = (b * (n \div b)) + (n % b) /\ n \div b \in Nat
  OBVIOUS
<1> QED BY <1>1

LEMMA WithinBatch ==
  ASSUME NEW n \in Nat, NEW b \in Nat \ {0}, n % b = 0, NEW r \in 0 .. b - 1
  PROVE  (n + r) % b = r
<1>1. PICK q \in Nat : n = b * q
  BY Division
<1> QED BY <1>1, Remainder

LEMMA NextBatch ==
  ASSUME NEW n \in Nat, NEW b \in Nat \ {0}, n % b = 0
  PROVE  (n + b) % b = 0
<1>1. PICK q \in Nat : n = b * q
  BY Division
<1>2. n + b = (b * (q + 1)) + 0 /\ q + 1 \in Int /\ 0 \in 0 .. b - 1
  BY <1>1
<1>3. ((b * (q + 1)) + 0) % b = 0
  BY <1>2, Remainder
<1> QED BY <1>2, <1>3

(***************************************************************************)
(* The bus step by step.                                                   *)
(***************************************************************************)

\* Where the holder of the mutex is.
LEMMA HolderIs ==
  ASSUME TypeOK, BusSound, holder # None
  PROVE  /\ holder \in Shard /\ sent[holder] \in Place
         /\ sent[holder].sub \in 1 .. Len(subs) + 1 /\ sent[holder].event \in 1 .. BatchSize
         /\ shard[holder].cmd \in Command /\ shard[holder].at = "send"
<1>1. holder \in Shard /\ sent[holder] \in Place
  BY DEF TypeOK, Place
<1>2. Len(subs) \in Nat
  BY LenProperties DEF TypeOK
<1>3. shard[holder].at = "send"
  BY DEF BusSound, At
<1>4. shard[holder].cmd \in Command
  BY <1>1, <1>3, InHand
<1>5. sent[holder].sub \in Nat \ {0} /\ sent[holder].event \in 1 .. BatchSize
  BY <1>1 DEF Place
<1>6. sent[holder].sub <= Len(subs) + 1
  BY DEF BusSound
<1> QED BY <1>1, <1>2, <1>3, <1>4, <1>5, <1>6

LEMMA ReceiverIs ==
  ASSUME TypeOK, BusSound
  PROVE  /\ Len(subs) \in Nat \ {0} /\ DOMAIN subs = 1 .. Len(subs)
         /\ \A j \in DOMAIN subs : /\ subs[j] \in Subscriber /\ heard[subs[j]] \in Seq(Event)
                                   /\ Len(heard[subs[j]]) \in Nat
                                   /\ DOMAIN heard[subs[j]] = 1 .. Len(heard[subs[j]])
         /\ Own \notin gone
<1>1. Len(subs) \in Nat \ {0} /\ DOMAIN subs = 1 .. Len(subs)
  BY EmptySeq, LenProperties DEF TypeOK, BusSound
<1>2. \A j \in DOMAIN subs : subs[j] \in Subscriber
  BY <1>1, ElementOfSeq DEF TypeOK
<1>3. \A r \in Subscriber : /\ heard[r] \in Seq(Event) /\ Len(heard[r]) \in Nat
                            /\ DOMAIN heard[r] = 1 .. Len(heard[r])
  BY LenProperties DEF TypeOK
<1>4. Own \notin gone
  BY OwnAssumption DEF TypeOK
<1> QED BY <1>1, <1>2, <1>3, <1>4

LEMMA ReachedType ==
  ASSUME TypeOK, BusSound, NEW j \in DOMAIN subs
  PROVE  Reached(j) \in 0 .. BatchSize
<1>1. j \in Nat /\ BatchSize \in Nat \ {0}
  BY ReceiverIs, BatchAssumption
<1>2. CASE holder = None
  BY <1>1, <1>2 DEF Reached
<1>3. CASE holder # None
  BY <1>1, <1>3, HolderIs DEF Reached
<1> QED BY <1>2, <1>3

\* What the holder does not touch.
LEMMA BusKept ==
  ASSUME TypeOK, BusSound, AllAligned, BatchesWhole, UNCHANGED bus,
         holder # None => shard'[holder] = shard[holder]
  PROVE  BusSound' /\ AllAligned' /\ BatchesWhole'
<1>1. UNCHANGED <<subs, holder, sent, heard, gone, since>>
  BY DEF bus
<1>2. BusSound'
  BY <1>1 DEF BusSound, At
<1>3. BatchesWhole'
  BY <1>1 DEF BatchesWhole
<1>4. \A j \in DOMAIN subs : Reached(j)' = Reached(j)
  BY <1>1 DEF Reached
<1>5. \A j \in DOMAIN subs : Before(j)' = Before(j)
  BY <1>1, <1>4 DEF Before
<1>6. 1 \in DOMAIN subs
  BY ReceiverIs
<1>7. CASE holder = None
  <2>1. \A j \in DOMAIN subs : Reached(j) = 0
    BY <1>7 DEF Reached
  <2> QED BY <1>1, <1>2, <1>3, <1>4, <1>5, <1>6, <2>1 DEF AllAligned, Aligned
<1>8. CASE holder # None
  BY <1>1, <1>2, <1>3, <1>4, <1>5, <1>6, <1>8 DEF AllAligned, Aligned
<1> QED BY <1>7, <1>8

LEMMA LockStep ==
  ASSUME TypeOK, BusSound, AllAligned, BatchesWhole, NEW s \in Shard, Lock(s)
  PROVE  BusSound' /\ AllAligned' /\ BatchesWhole'
<1>1. /\ holder = None /\ holder' = s /\ At(s, "send")
      /\ UNCHANGED <<subs, sent, heard, gone, since, shard>>
  BY DEF Lock
<1>2. s # None
  BY NoneAssumption
<1>3. sent[s] = [sub |-> 1, event |-> 1]
  BY <1>1, <1>2 DEF BusSound, FirstEvent
<1>4. Len(subs) \in Nat \ {0} /\ DOMAIN subs = 1 .. Len(subs)
  BY ReceiverIs
<1>5. BusSound'
  BY <1>1, <1>2, <1>3, <1>4, NoneAssumption DEF BusSound, At
<1>6. \A j \in DOMAIN subs : Reached(j) = 0 /\ Reached(j)' = 0
  BY <1>1, <1>2, <1>3, <1>4 DEF Reached
<1>7. \A j \in DOMAIN subs : Before(j)' = Before(j)
  BY <1>1, <1>6 DEF Before
<1>8. AllAligned'
  <2>1. ASSUME NEW j \in DOMAIN subs
        PROVE  Aligned(j)'
    <3>1. Aligned(j) /\ Before(j)' = Before(j) /\ Before(1)' = Before(1)
      BY <1>4, <1>7 DEF AllAligned
    <3>2. 1 .. Reached(j)' = {}
      BY <1>6
    <3> QED BY <1>1, <3>1, <3>2 DEF Aligned
  <2> QED BY <1>1, <2>1 DEF AllAligned
<1>9. BatchesWhole'
  BY <1>1 DEF BatchesWhole
<1> QED BY <1>5, <1>8, <1>9

LEMMA UnlockStep ==
  ASSUME TypeOK, BusSound, AllAligned, BatchesWhole, NEW s \in Shard, Unlock(s)
  PROVE  BusSound' /\ AllAligned' /\ BatchesWhole'
<1>1. /\ holder = s /\ holder' = None /\ sent[s].sub > Len(subs)
      /\ sent'[s] = FirstEvent /\ \A t \in Shard \ {s} : sent'[t] = sent[t]
      /\ UNCHANGED <<subs, heard, gone, since>>
  BY DEF TypeOK, Unlock, Released
<1>2. s # None
  BY NoneAssumption
<1>3. Len(subs) \in Nat \ {0} /\ DOMAIN subs = 1 .. Len(subs)
  BY ReceiverIs
<1>4. BusSound'
  BY <1>1 DEF BusSound
<1>5. \A j \in DOMAIN subs : Reached(j) = BatchSize /\ Reached(j)' = 0
  <2>1. sent[s].sub \in Nat
    BY <1>1, <1>2, HolderIs
  <2> QED BY <1>1, <1>2, <1>3, <2>1 DEF Reached
<1>6. ASSUME NEW j \in DOMAIN subs
      PROVE  /\ Before(j) \in Nat /\ Len(heard[subs[j]]) = Before(j) + BatchSize
             /\ Before(j)' = Before(j) + BatchSize
  <2>1. Len(heard[subs[j]]) \in Nat
    BY ReceiverIs
  <2>2. Before(j) \in 0 .. Before(1) /\ Before(1) \in 0 .. Before(1)
    BY <1>3 DEF AllAligned, Aligned
  <2> QED BY <1>1, <1>5, <2>1, <2>2, BatchAssumption DEF Before
<1>7. ASSUME NEW j \in DOMAIN subs
      PROVE  Aligned(j)'
  <2> DEFINE b == Before(j)
             f == Before(1)
             h == heard[subs[j]]
             o == heard[Own]
             n == shard[s].cmd.seq
  <2>0. 1 \in DOMAIN subs /\ subs[1] = Own
    BY <1>3 DEF BusSound
  <2>1. b \in Nat /\ f \in Nat /\ b <= f /\ b % BatchSize = 0 /\ BatchSize \in Nat \ {0}
    BY <1>6, <2>0, BatchAssumption DEF AllAligned, Aligned
  <2>2. Before(j)' = b + BatchSize /\ Before(1)' = f + BatchSize
    BY <1>6, <2>0
  <2>3. \A i \in 1 .. b : h[i] = o[f - b + i]
    BY DEF AllAligned, Aligned
  <2>4. \A i \in 1 .. BatchSize : h[b + i] = [seq |-> n, event |-> i]
    BY <1>1, <1>5 DEF AllAligned, Aligned
  <2>5. \A i \in 1 .. BatchSize : o[f + i] = [seq |-> n, event |-> i]
    BY <1>1, <1>5, <2>0 DEF AllAligned, Aligned
  <2> HIDE DEF b, f, h, o, n
  <2>6. (b + BatchSize) % BatchSize = 0
    BY <2>1, NextBatch
  <2>7. ASSUME NEW i \in 1 .. b + BatchSize
        PROVE  h[i] = o[(f + BatchSize) - (b + BatchSize) + i]
    <3>1. (f + BatchSize) - (b + BatchSize) + i = f - b + i
      BY <2>1
    <3>2. CASE i <= b
      BY <2>1, <2>3, <3>1, <3>2
    <3>3. CASE ~(i <= b)
      <4> DEFINE x == i - b
      <4>1. x \in 1 .. BatchSize /\ b + x = i /\ f + x = f - b + i
        BY <2>1, <3>3
      <4> HIDE DEF x
      <4>2. h[b + x] = o[f + x]
        BY <2>4, <2>5, <4>1
      <4> QED BY <3>1, <4>1, <4>2
    <3> QED BY <3>2, <3>3
  <2>8. b + BatchSize \in 0 .. f + BatchSize
    BY <2>1
  <2>9. heard'[subs'[j]] = h /\ heard'[Own] = o /\ Reached(j)' = 0
    BY <1>1, <1>5 DEF h, o
  <2>10. since'[subs'[j]] = (f + BatchSize) - (b + BatchSize)
    <3>1. since'[subs'[j]] = f - b
      BY <1>1 DEF AllAligned, Aligned, f, b
    <3> QED BY <2>1, <3>1
  <2> QED BY <2>2, <2>6, <2>7, <2>8, <2>9, <2>10 DEF Aligned
<1>8. AllAligned'
  BY <1>1, <1>7 DEF AllAligned
<1>9. BatchesWhole'
  BY <1>1 DEF BatchesWhole
<1> QED BY <1>4, <1>8, <1>9

\* Send adds one event to what one receiver has heard, and to nothing else.
LEMMA SendHeard ==
  ASSUME TypeOK, BusSound, NEW s \in Shard, Send(s), NEW j \in DOMAIN subs
  PROVE  LET k == sent[s].sub
             h == heard[subs[j]]
             e == [seq |-> shard[s].cmd.seq, event |-> sent[s].event]
         IN  /\ holder = s /\ k \in DOMAIN subs
             /\ j = k => heard'[subs[j]] = Append(h, e)
             /\ j # k => heard'[subs[j]] = h
             /\ Len(heard'[subs[j]]) = Len(h) + (IF j = k THEN 1 ELSE 0)
             /\ \A i \in 1 .. Len(h) : heard'[subs[j]][i] = h[i]
<1> DEFINE k == sent[s].sub
           h == heard[subs[j]]
           e == [seq |-> shard[s].cmd.seq, event |-> sent[s].event]
<1>1. holder = s /\ k \in DOMAIN subs /\ heard' = [heard EXCEPT ![subs[k]] = Append(heard[subs[k]], e)]
  BY DEF Send
<1>2. subs[j] \in Subscriber /\ subs[k] \in Subscriber /\ h \in Seq(Event)
  BY <1>1, ReceiverIs
<1>3. j # k => subs[j] # subs[k]
  BY <1>1 DEF BusSound
<1>4. e \in Event
  <2>1. holder # None
    BY <1>1, NoneAssumption
  <2>2. shard[s].cmd \in Command /\ sent[s].event \in 1 .. BatchSize
    BY <1>1, <2>1, HolderIs
  <2> QED BY <2>2 DEF Event, Command
<1> HIDE DEF e
<1>5. j = k => heard'[subs[j]] = Append(h, e)
  BY <1>1, <1>2 DEF TypeOK
<1>6. j # k => heard'[subs[j]] = h
  BY <1>1, <1>2, <1>3 DEF TypeOK
<1> HIDE DEF h, k
<1>7. /\ Len(Append(h, e)) = Len(h) + 1 /\ Len(h) \in Nat
      /\ \A i \in 1 .. Len(h) : Append(h, e)[i] = h[i]
  BY <1>2, <1>4, AppendProperties, LenProperties
<1>8. /\ Len(heard'[subs[j]]) = Len(h) + (IF j = k THEN 1 ELSE 0)
      /\ \A i \in 1 .. Len(h) : heard'[subs[j]][i] = h[i]
  <2>1. CASE j = k
    BY <1>5, <1>7, <2>1
  <2>2. CASE j # k
    BY <1>6, <1>7, <2>2
  <2> QED BY <2>1, <2>2
<1> QED BY <1>1, <1>5, <1>6, <1>8 DEF h, k, e

LEMMA SendReached ==
  ASSUME TypeOK, BusSound, NEW s \in Shard, Send(s), NEW j \in DOMAIN subs
  PROVE  /\ Reached(j)' = Reached(j) + (IF j = sent[s].sub THEN 1 ELSE 0)
         /\ sent'[s] \in Place /\ subs' = subs /\ holder' = s /\ holder = s /\ s # None
         /\ j = sent[s].sub => Reached(j) = sent[s].event - 1
<1>1. holder = s /\ holder' = s /\ s # None /\ sent[s].sub \in DOMAIN subs /\ subs' = subs
  BY NoneAssumption DEF Send, HeldForBatch
<1>2. sent'[s] = AfterEvent(sent[s]) /\ sent[s] \in Place
  BY DEF TypeOK, Send, Place
<1>3. sent[s].sub \in Nat \ {0} /\ sent[s].event \in 1 .. BatchSize
  BY <1>2 DEF Place
<1>4. j \in Nat /\ BatchSize \in Nat \ {0}
  BY ReceiverIs, BatchAssumption
<1>7. sent'[s] \in Place
  BY <1>2, Places
<1>8. j = sent[s].sub => Reached(j) = sent[s].event - 1
  BY <1>1, <1>3, <1>4 DEF Reached
<1>5. CASE sent[s].event < BatchSize
  <2>1. sent'[s] = [sub |-> sent[s].sub, event |-> sent[s].event + 1]
    BY <1>2, <1>5, Places
  <2>2. sent'[s].sub = sent[s].sub /\ sent'[s].event = sent[s].event + 1
    BY <2>1
  <2>3. Reached(j)' = Reached(j) + (IF j = sent[s].sub THEN 1 ELSE 0)
    BY <1>1, <1>3, <1>4, <2>2 DEF Reached
  <2> QED BY <1>1, <1>7, <1>8, <2>3
<1>6. CASE ~(sent[s].event < BatchSize)
  <2>1. sent'[s] = [sub |-> sent[s].sub + 1, event |-> 1] /\ sent[s].event = BatchSize
    <3>1. sent'[s] = [sub |-> sent[s].sub + 1, event |-> 1]
      BY <1>2, <1>6, Places
    <3>2. sent[s].event = BatchSize
      BY <1>3, <1>4, <1>6
    <3> QED BY <3>1, <3>2
  <2>2. sent'[s].sub = sent[s].sub + 1 /\ sent'[s].event = 1 /\ sent[s].event = BatchSize
    BY <2>1
  <2>3. Reached(j)' = Reached(j) + (IF j = sent[s].sub THEN 1 ELSE 0)
    BY <1>1, <1>3, <1>4, <2>2 DEF Reached
  <2> QED BY <1>1, <1>7, <1>8, <2>3
<1> QED BY <1>5, <1>6

LEMMA SendAligned ==
  ASSUME TypeOK, BusSound, AllAligned, NEW s \in Shard, Send(s), NEW j \in DOMAIN subs
  PROVE  Aligned(j)'
<1> DEFINE k == sent[s].sub
           h == heard[subs[j]]
           g == heard'[subs[j]]
           o == heard[Own]
           p == heard'[Own]
           b == Before(j)
           f == Before(1)
           r == Reached(j)
           n == shard[s].cmd.seq
<1>0. 1 \in DOMAIN subs /\ subs[1] = Own /\ BatchSize \in Nat \ {0}
  BY ReceiverIs, BatchAssumption DEF BusSound
<1>1. /\ holder = s /\ s # None /\ subs' = subs /\ holder' = s /\ shard'[s] = shard[s]
      /\ since' = since
      /\ Reached(j)' = r + (IF j = k THEN 1 ELSE 0)
      /\ j = k => r = sent[s].event - 1
  BY SendReached DEF Send
<1>2. Reached(1)' = Reached(1) + (IF 1 = k THEN 1 ELSE 0)
  BY <1>0, SendReached
<1>3. /\ j = k => g = Append(h, [seq |-> n, event |-> sent[s].event])
      /\ Len(g) = Len(h) + (IF j = k THEN 1 ELSE 0)
      /\ \A i \in 1 .. Len(h) : g[i] = h[i]
  BY SendHeard
<1>4. Len(p) = Len(o) + (IF 1 = k THEN 1 ELSE 0) /\ \A i \in 1 .. Len(o) : p[i] = o[i]
  BY <1>0, SendHeard
<1>5. r \in 0 .. BatchSize /\ Reached(1) \in 0 .. BatchSize
  BY <1>0, ReachedType
<1>6. h \in Seq(Event) /\ Len(h) \in Nat /\ Len(o) \in Nat /\ sent[s].event \in 1 .. BatchSize
  BY <1>0, <1>1, ReceiverIs, HolderIs
<1>7. b = Len(h) - r /\ f = Len(o) - Reached(1)
  BY <1>0 DEF Before
<1>8. Before(j)' = b /\ Before(1)' = f
  <2>1. Before(j)' = Len(g) - Reached(j)' /\ Before(1)' = Len(p) - Reached(1)'
    BY <1>0, <1>1 DEF Before
  <2> DEFINE r1 == Reached(1)
  <2>2. r1 \in Int /\ r \in Int
    BY <1>5
  <2> HIDE DEF b, f, g, p, r, r1, k, h, o
  <2>3. Len(g) - Reached(j)' = b
    BY <1>1, <1>3, <1>6, <1>7, <2>2
  <2>4. Len(p) - Reached(1)' = f
    BY <1>2, <1>4, <1>6, <1>7, <2>2 DEF r1
  <2> QED BY <2>1, <2>3, <2>4
<1>9. /\ b \in 0 .. f /\ f \in Nat /\ b % BatchSize = 0 /\ since[subs[j]] = f - b
      /\ \A i \in 1 .. b : h[i] = o[f - b + i]
      /\ \A i \in 1 .. r : h[b + i] = [seq |-> n, event |-> i]
  <2>1. f \in 0 .. f
    BY <1>0 DEF AllAligned, Aligned
  <2> QED BY <1>1, <2>1 DEF AllAligned, Aligned
<1>10. j = k => g[b + r + 1] = [seq |-> n, event |-> r + 1]
  <2> SUFFICES ASSUME j = k PROVE g[b + r + 1] = [seq |-> n, event |-> r + 1]
    OBVIOUS
  <2> DEFINE e == [seq |-> n, event |-> sent[s].event]
  <2>1. g = Append(h, e) /\ e \in Event
    <3>1. shard[s].cmd \in Command
      BY <1>1, HolderIs
    <3>2. n \in Nat
      BY <3>1 DEF Command
    <3> QED BY <1>3, <1>6, <3>2 DEF Event
  <2>2. r + 1 = sent[s].event /\ b + r + 1 = Len(h) + 1
    <3> HIDE DEF e, b, r, h, g
    <3> QED BY <1>1, <1>5, <1>6, <1>7
  <2> HIDE DEF e, b, r, h, g
  <2>3. g[Len(h) + 1] = e
    BY <1>6, <2>1, AppendProperties
  <2> QED BY <2>2, <2>3 DEF e
<1> HIDE DEF k, h, g, o, p, b, f, r, n
<1>11. \A i \in 1 .. b : g[i] = p[f - b + i]
  <2> TAKE i \in 1 .. b
  <2>1. i \in 1 .. Len(h) /\ f - b + i \in 1 .. Len(o)
    BY <1>5, <1>6, <1>7, <1>9, SMTT(60)
  <2> QED BY <1>3, <1>4, <1>9, <2>1
<1>12. \A i \in 1 .. r + (IF j = k THEN 1 ELSE 0) : g[b + i] = [seq |-> n, event |-> i]
  <2> TAKE i \in 1 .. r + (IF j = k THEN 1 ELSE 0)
  <2>1. CASE i \in 1 .. r
    <3>1. b + i \in 1 .. Len(h)
      BY <1>5, <1>6, <1>7, <1>9, <2>1
    <3> QED BY <1>3, <1>9, <2>1, <3>1
  <2>2. CASE i \notin 1 .. r
    <3>1. j = k /\ i = r + 1 /\ b + i = b + r + 1
      BY <1>5, <1>9, <2>2
    <3> QED BY <1>10, <3>1
  <2> QED BY <2>1, <2>2
<1>13. /\ since'[subs'[j]] = since[subs[j]]
       /\ heard'[subs'[j]] = g /\ heard'[Own] = p /\ Before(j)' = b /\ Before(1)' = f
       /\ Reached(j)' = r + (IF j = k THEN 1 ELSE 0) /\ shard'[holder'].cmd.seq = n
  BY <1>1, <1>8 DEF g, p, n
<1> QED BY <1>9, <1>11, <1>12, <1>13 DEF Aligned

LEMMA SendBatches ==
  ASSUME TypeOK, BusSound, AllAligned, BatchesWhole, NEW s \in Shard, Send(s)
  PROVE  BatchesWhole'
<1> DEFINE k == sent[s].sub
           x == subs[k]
           n == shard[s].cmd.seq
           e == sent[s].event
<1>1. holder = s /\ k \in DOMAIN subs /\ heard' = [heard EXCEPT ![x] = Append(heard[x], [seq |-> n, event |-> e])]
  BY DEF Send
<1>2. x \in Subscriber /\ heard[x] \in Seq(Event) /\ Len(heard[x]) \in Nat /\ DOMAIN heard[x] = 1 .. Len(heard[x])
  BY <1>1, ReceiverIs
<1>3. s # None /\ e \in 1 .. BatchSize /\ BatchSize \in Nat \ {0} /\ n \in Nat
  <2>1. s # None
    BY NoneAssumption
  <2>2. shard[s].cmd \in Command /\ e \in 1 .. BatchSize
    BY <1>1, <2>1, HolderIs
  <2> QED BY <2>1, <2>2, BatchAssumption DEF Command
<1>4. SUFFICES ASSUME NEW r \in Subscriber, NEW i \in DOMAIN heard'[r]
               PROVE  /\ heard'[r][i].event = ((i - 1) % BatchSize) + 1
                      /\ heard'[r][i].event > 1 => heard'[r][i].seq = heard'[r][i - 1].seq
  BY DEF BatchesWhole
<1>5. CASE r # x
  <2>1. heard'[r] = heard[r]
    BY <1>1, <1>2, <1>5 DEF TypeOK
  <2> QED BY <2>1 DEF BatchesWhole
<1>6. CASE r = x
  <2> DEFINE h == heard[x]
             g == heard'[x]
             ev == [seq |-> n, event |-> e]
  <2>1. g = Append(h, ev) /\ ev \in Event
    BY <1>1, <1>2, <1>3 DEF TypeOK, Event
  <2>2. h \in Seq(Event) /\ Len(h) \in Nat /\ DOMAIN h = 1 .. Len(h)
    BY <1>2
  <2>3. \A m \in DOMAIN h : /\ h[m].event = ((m - 1) % BatchSize) + 1
                             /\ (h[m].event > 1 => h[m].seq = h[m - 1].seq)
    BY <1>2 DEF BatchesWhole
  <2>4. /\ Before(k) \in Nat /\ Before(k) % BatchSize = 0 /\ Len(h) = Before(k) + (e - 1)
        /\ \A m \in 1 .. e - 1 : h[Before(k) + m] = [seq |-> n, event |-> m]
    <3>1. Aligned(k) /\ Aligned(1)
      BY <1>1, ReceiverIs DEF AllAligned
    <3>2. Reached(k) = e - 1
      BY <1>1, SendReached
    <3>3. Before(k) \in Nat
      <4>1. Before(k) \in 0 .. Before(1) /\ Before(1) \in 0 .. Before(1)
        BY <3>1 DEF Aligned
      <4> QED BY <4>1
    <3>4. Before(k) = Len(h) - (e - 1)
      BY <3>2 DEF Before
    <3>5. Len(h) = Before(k) + (e - 1)
      <4> DEFINE b == Before(k)
      <4>1. b = Len(h) - (e - 1) /\ b \in Nat
        BY <3>3, <3>4
      <4> HIDE DEF b, h, e
      <4>2. Len(h) = b + (e - 1)
        BY <1>3, <2>2, <4>1
      <4> QED BY <4>2 DEF b
    <3>6. \A m \in 1 .. e - 1 : h[Before(k) + m] = [seq |-> n, event |-> m]
      BY <1>1, <3>1, <3>2 DEF Aligned
    <3>7. Before(k) % BatchSize = 0
      BY <3>1 DEF Aligned
    <3> QED BY <3>3, <3>5, <3>6, <3>7
  <2> DEFINE b == Before(k)
  <2> HIDE DEF h, g, ev, b, e, n, k
  <2>5. /\ Len(g) = Len(h) + 1 /\ DOMAIN g = 1 .. Len(h) + 1
        /\ \A m \in 1 .. Len(h) : g[m] = h[m]
        /\ g[Len(h) + 1] = ev
    BY <2>1, <2>2, AppendProperties, LenProperties
  <2>6. ASSUME NEW m \in DOMAIN g
        PROVE  /\ g[m].event = ((m - 1) % BatchSize) + 1
               /\ g[m].event > 1 => g[m].seq = g[m - 1].seq
    <3>1. CASE m \in 1 .. Len(h)
      <4>1. g[m] = h[m] /\ m \in DOMAIN h
        BY <2>2, <2>5, <3>1
      <4>2. h[m].event > 1 => m - 1 \in 1 .. Len(h)
        <5>1. CASE m = 1
          <6>1. (m - 1) % BatchSize = 0
            <7>1. ((BatchSize * 0) + 0) % BatchSize = 0
              BY <1>3, Remainder
            <7> QED BY <1>3, <5>1, <7>1
          <6>2. h[m].event = ((m - 1) % BatchSize) + 1
            BY <2>3, <4>1
          <6>3. h[m].event = 1
            BY <6>1, <6>2
          <6> QED BY <6>3
        <5>2. CASE m # 1
          BY <2>2, <3>1, <5>2
        <5> QED BY <5>1, <5>2
      <4>3. h[m].event > 1 => g[m - 1] = h[m - 1]
        BY <2>5, <4>2
      <4>4. /\ h[m].event = ((m - 1) % BatchSize) + 1
            /\ h[m].event > 1 => h[m].seq = h[m - 1].seq
        BY <2>3, <4>1
      <4> QED BY <4>1, <4>3, <4>4
    <3>2. CASE m = Len(h) + 1
      <4>1. m - 1 = b + (e - 1) /\ e - 1 \in 0 .. BatchSize - 1 /\ b \in Nat /\ b % BatchSize = 0
        BY <1>3, <2>2, <2>4, <3>2 DEF b
      <4>2. (m - 1) % BatchSize = e - 1
        <5> DEFINE part == e - 1
        <5>1. b \in Nat /\ part \in 0 .. BatchSize - 1 /\ b % BatchSize = 0 /\ BatchSize \in Nat \ {0}
          BY <1>3, <4>1
        <5> HIDE DEF part
        <5>2. (b + part) % BatchSize = part
          BY <5>1, WithinBatch
        <5> QED BY <4>1, <5>2 DEF part
      <4>3. g[m].event = e /\ g[m].seq = n
        BY <2>5, <3>2 DEF ev
      <4>4. ASSUME e > 1
            PROVE  g[m - 1].seq = n
        <5>1. m - 1 \in 1 .. Len(h) /\ e - 1 \in 1 .. e - 1 /\ m - 1 = b + (e - 1)
          BY <1>3, <2>2, <3>2, <4>1, <4>4
        <5>2. h[b + (e - 1)] = [seq |-> n, event |-> e - 1]
          BY <2>4, <5>1 DEF b
        <5> QED BY <2>5, <5>1, <5>2
      <4> QED BY <1>3, <4>2, <4>3, <4>4
    <3> QED BY <2>2, <2>5, <3>1, <3>2
  <2> QED BY <1>4, <1>6, <2>6 DEF g
<1> QED BY <1>5, <1>6

LEMMA SendStep ==
  ASSUME TypeOK, BusSound, AllAligned, BatchesWhole, NEW s \in Shard, Send(s)
  PROVE  BusSound' /\ AllAligned' /\ BatchesWhole'
<1>0. 1 \in DOMAIN subs
  BY ReceiverIs
<1>1. /\ UNCHANGED <<subs, holder, gone, since, shard>> /\ holder = s /\ s # None
      /\ sent[s].sub \in DOMAIN subs
      /\ \A t \in Shard \ {s} : sent'[t] = sent[t]
      /\ sent'[s] = AfterEvent(sent[s]) /\ sent[s] \in Place
  BY NoneAssumption DEF TypeOK, Send, HeldForBatch, Place
<1>2. AllAligned'
  BY <1>1, SendAligned DEF AllAligned
<1>3. /\ sent'[s].sub <= Len(subs) + 1
      /\ sent'[s].sub = Len(subs) + 1 => sent'[s].event = 1
  <2>1. Len(subs) \in Nat /\ sent[s].sub \in 1 .. Len(subs) /\ sent[s].event \in 1 .. BatchSize
    BY <1>1, ReceiverIs DEF Place
  <2>2. CASE sent[s].event < BatchSize
    <3>1. sent'[s] = [sub |-> sent[s].sub, event |-> sent[s].event + 1]
      BY <1>1, <2>2, Places
    <3> QED BY <2>1, <3>1
  <2>3. CASE ~(sent[s].event < BatchSize)
    <3>1. sent'[s] = [sub |-> sent[s].sub + 1, event |-> 1]
      BY <1>1, <2>3, Places
    <3> QED BY <2>1, <3>1
  <2> QED BY <2>2, <2>3
<1>4. \A r \in Subscriber : r \notin ToSet(subs) => heard'[r] = heard[r]
  BY <1>1 DEF TypeOK, Send, ToSet
<1>5. BusSound'
  BY <1>1, <1>3, <1>4 DEF BusSound, At
<1> QED BY <1>2, <1>5, SendBatches

\* Forget moves up the receivers after the one that has gone, and the next of
\* them takes its place.
LEMMA ForgetSubs ==
  ASSUME TypeOK, BusSound, NEW s \in Shard, Forget(s)
  PROVE  LET k == sent[s].sub
             n == Len(subs)
         IN  /\ holder = s /\ s # None /\ holder' = s /\ UNCHANGED <<heard, gone, since, shard>>
             /\ n \in Nat \ {0} /\ k \in 2 .. n /\ subs[k] \in gone
             /\ Len(subs') = n - 1 /\ DOMAIN subs' = 1 .. n - 1
             /\ \A j \in 1 .. n - 1 : subs'[j] = IF j < k THEN subs[j] ELSE subs[j + 1]
             /\ sent'[s] = [sub |-> k, event |-> 1] /\ \A t \in Shard \ {s} : sent'[t] = sent[t]
<1> DEFINE k == sent[s].sub
           n == Len(subs)
           a == SubSeq(subs, 1, k - 1)
           b == SubSeq(subs, k + 1, n)
<1>1. /\ holder = s /\ s # None /\ holder' = s /\ UNCHANGED <<heard, gone, since, shard>>
      /\ k \in DOMAIN subs /\ subs[k] \in gone /\ subs' = a \o b
      /\ sent'[s] = SamePlace(sent[s]) /\ \A t \in Shard \ {s} : sent'[t] = sent[t]
  BY NoneAssumption DEF TypeOK, Forget, RemoveAt
<1>2. sent'[s] = [sub |-> k, event |-> 1]
  BY <1>1, Places DEF TypeOK, Place
<1>3. n \in Nat \ {0} /\ DOMAIN subs = 1 .. n /\ \A j \in 1 .. n : subs[j] \in Subscriber
  BY ReceiverIs
<1>4. k # 1
  BY <1>1, ReceiverIs DEF BusSound
<1>5. k \in 2 .. n
  BY <1>1, <1>3, <1>4
<1>6. UNCHANGED <<heard, gone, since, shard>> /\ subs' = a \o b
  BY <1>1
<1> HIDE DEF k, n
<1>7. /\ a \in Seq(Subscriber) /\ Len(a) = k - 1
      /\ \A i \in 1 .. (k - 1) - 1 + 1 : a[i] = subs[1 + i - 1]
  <2>1. 1 \in Int /\ k - 1 \in Int /\ 1 <= k - 1 /\ \A i \in 1 .. k - 1 : subs[i] \in Subscriber
    BY <1>3, <1>5
  <2> DEFINE m == k - 1
  <2>2. m \in Int /\ 1 <= m /\ \A i \in 1 .. m : subs[i] \in Subscriber
    BY <2>1
  <2> HIDE DEF m
  <2>3. /\ SubSeq(subs, 1, m) \in Seq(Subscriber) /\ Len(SubSeq(subs, 1, m)) = m - 1 + 1
        /\ \A i \in 1 .. m - 1 + 1 : SubSeq(subs, 1, m)[i] = subs[1 + i - 1]
    BY <2>2, SubSeqProperties
  <2> QED BY <1>5, <2>3 DEF m
<1>8. /\ b \in Seq(Subscriber) /\ Len(b) = n - k
      /\ \A i \in 1 .. n - (k + 1) + 1 : b[i] = subs[(k + 1) + i - 1]
  <2> DEFINE m == k + 1
  <2>1. m \in Int /\ n \in Int /\ \A i \in m .. n : subs[i] \in Subscriber
    BY <1>3, <1>5
  <2> HIDE DEF m
  <2>2. /\ SubSeq(subs, m, n) \in Seq(Subscriber)
        /\ Len(SubSeq(subs, m, n)) = IF m <= n THEN n - m + 1 ELSE 0
        /\ \A i \in 1 .. n - m + 1 : SubSeq(subs, m, n)[i] = subs[m + i - 1]
    BY <2>1, SubSeqProperties
  <2>3. (IF m <= n THEN n - m + 1 ELSE 0) = n - k
    BY <1>3, <1>5 DEF m
  <2> QED BY <2>2, <2>3 DEF m
<1> HIDE DEF a, b
<1>9. /\ a \o b \in Seq(Subscriber) /\ Len(a \o b) = Len(a) + Len(b)
      /\ \A i \in 1 .. Len(a) + Len(b) : (a \o b)[i] = IF i <= Len(a) THEN a[i] ELSE b[i - Len(a)]
  BY <1>7, <1>8, ConcatProperties
<1>10. Len(subs') = n - 1 /\ subs' \in Seq(Subscriber)
  BY <1>3, <1>5, <1>6, <1>7, <1>8, <1>9
<1>11. DOMAIN subs' = 1 .. n - 1
  BY <1>10, LenProperties
<1>12. ASSUME NEW j \in 1 .. n - 1
       PROVE  subs'[j] = IF j < k THEN subs[j] ELSE subs[j + 1]
  <2>1. CASE j < k
    <3>1. j <= Len(a) /\ j \in 1 .. Len(a) + Len(b) /\ j \in 1 .. (k - 1) - 1 + 1 /\ 1 + j - 1 = j
      BY <1>3, <1>5, <1>7, <1>8, <2>1
    <3> QED BY <1>6, <1>7, <1>9, <2>1, <3>1
  <2>2. CASE ~(j < k)
    <3> DEFINE i == j - Len(a)
    <3>1. /\ ~(j <= Len(a)) /\ j \in 1 .. Len(a) + Len(b) /\ i \in 1 .. n - (k + 1) + 1
          /\ (k + 1) + i - 1 = j + 1
      BY <1>3, <1>5, <1>7, <1>8, <2>2
    <3>2. (a \o b)[j] = b[i]
      BY <1>9, <3>1
    <3> HIDE DEF i
    <3> QED BY <1>6, <1>8, <2>2, <3>1, <3>2
  <2> QED BY <2>1, <2>2
<1> QED BY <1>1, <1>2, <1>3, <1>5, <1>10, <1>11, <1>12 DEF k, n

LEMMA ForgetStep ==
  ASSUME TypeOK, BusSound, AllAligned, BatchesWhole, NEW s \in Shard, Forget(s)
  PROVE  BusSound' /\ AllAligned' /\ BatchesWhole'
<1> DEFINE k == sent[s].sub
           n == Len(subs)
           Was(j) == IF j < k THEN j ELSE j + 1
<1>1. /\ holder = s /\ s # None /\ holder' = s /\ UNCHANGED <<heard, gone, since, shard>>
      /\ n \in Nat \ {0} /\ k \in 2 .. n /\ subs[k] \in gone
      /\ Len(subs') = n - 1 /\ DOMAIN subs' = 1 .. n - 1
      /\ \A j \in 1 .. n - 1 : subs'[j] = IF j < k THEN subs[j] ELSE subs[j + 1]
      /\ sent'[s] = [sub |-> k, event |-> 1] /\ \A t \in Shard \ {s} : sent'[t] = sent[t]
  BY ForgetSubs
<1>2. sent'[s].sub = k /\ sent'[s].event = 1 /\ sent[s].event \in 1 .. BatchSize
  BY <1>1, HolderIs
<1>3. DOMAIN subs = 1 .. n
  BY ReceiverIs
<1> HIDE DEF k, n
<1>4. ASSUME NEW j \in DOMAIN subs'
      PROVE  /\ Was(j) \in DOMAIN subs /\ subs'[j] = subs[Was(j)]
             /\ Reached(j)' = Reached(Was(j))
  <2>1. j \in 1 .. n - 1
    BY <1>1
  <2>2. Was(j) \in DOMAIN subs /\ subs'[j] = subs[Was(j)]
    BY <1>1, <1>3, <2>1
  <2>3. CASE j < k
    <3>1. Reached(j)' = BatchSize
      BY <1>1, <1>2, <2>1, <2>3 DEF Reached
    <3>2. Reached(j) = BatchSize
      BY <1>1, <2>1, <2>3 DEF Reached, k
    <3> QED BY <2>2, <2>3, <3>1, <3>2
  <2>4. CASE ~(j < k)
    <3>1. Reached(j)' = 0
      BY <1>1, <1>2, <2>1, <2>4 DEF Reached
    <3>2. Reached(j + 1) = 0
      <4>1. j + 1 > k
        BY <1>1, <2>1, <2>4
      <4> QED BY <1>1, <4>1 DEF Reached, k
    <3> QED BY <2>2, <2>4, <3>1, <3>2
  <2> QED BY <2>2, <2>3, <2>4
<1>5. \A j \in DOMAIN subs' : Before(j)' = Before(Was(j))
  <2> TAKE j \in DOMAIN subs'
  <2>1. Before(j)' = Len(heard'[subs'[j]]) - Reached(j)'
    BY DEF Before
  <2>2. Before(Was(j)) = Len(heard[subs[Was(j)]]) - Reached(Was(j))
    BY DEF Before
  <2> HIDE DEF Was
  <2> QED BY <1>1, <1>4, <2>1, <2>2
<1>6. 1 \in DOMAIN subs' /\ Was(1) = 1
  BY <1>1
<1>7. Before(1)' = Before(1)
  BY <1>5, <1>6
<1>8. ASSUME NEW j \in DOMAIN subs'
      PROVE  Aligned(j)'
  <2> DEFINE m == Was(j)
  <2>1. /\ m \in DOMAIN subs /\ subs'[j] = subs[m] /\ Reached(j)' = Reached(m)
        /\ Before(j)' = Before(m)
    BY <1>4, <1>5
  <2> HIDE DEF m, Was
  <2>2. Aligned(m)
    BY <2>1 DEF AllAligned
  <2> QED BY <1>1, <1>7, <2>1, <2>2 DEF Aligned
<1>9. AllAligned'
  BY <1>8 DEF AllAligned
<1>10. BatchesWhole'
  BY <1>1 DEF BatchesWhole
<1>11. subs' # <<>> /\ subs'[1] = Own
  <2>1. subs'[1] = subs[1] /\ 1 \in DOMAIN subs'
    BY <1>4, <1>6
  <2> QED BY <2>1 DEF BusSound
<1>12. \A i, j \in DOMAIN subs' : subs'[i] = subs'[j] => i = j
  <2> TAKE i, j \in DOMAIN subs'
  <2> HAVE subs'[i] = subs'[j]
  <2>1. Was(i) = Was(j)
    <3>1. Was(i) \in DOMAIN subs /\ Was(j) \in DOMAIN subs /\ subs[Was(i)] = subs[Was(j)]
      BY <1>4
    <3> HIDE DEF Was
    <3> QED BY <3>1 DEF BusSound
  <2> QED BY <1>1, <2>1
<1>13. \A r \in Subscriber \ gone : r \notin ToSet(subs') => r \notin ToSet(subs)
  <2> SUFFICES ASSUME NEW r \in Subscriber \ gone, NEW i \in DOMAIN subs, r = subs[i]
               PROVE  r \in ToSet(subs')
    BY DEF ToSet
  <2>1. i # k
    BY <1>1
  <2>2. CASE i < k
    <3>1. i \in DOMAIN subs' /\ subs'[i] = r
      BY <1>1, <1>3, <2>2
    <3> QED BY <3>1 DEF ToSet
  <2>3. CASE i > k
    <3>1. i - 1 \in DOMAIN subs' /\ subs'[i - 1] = r
      <4>1. i - 1 \in 1 .. n - 1 /\ ~(i - 1 < k) /\ (i - 1) + 1 = i
        BY <1>1, <1>3, <2>3
      <4> QED BY <1>1, <4>1
    <3> QED BY <3>1 DEF ToSet
  <2> QED BY <1>1, <1>3, <2>1, <2>2, <2>3
<1>14. sent'[s].sub <= Len(subs') + 1 /\ At(s, "send")
  BY <1>1, <1>2 DEF BusSound
<1>15. BusSound'
  BY <1>1, <1>2, <1>11, <1>12, <1>13, <1>14 DEF BusSound, At
<1> QED BY <1>9, <1>10, <1>15

LEMMA SubscribeStep ==
  ASSUME TypeOK, BusSound, AllAligned, BatchesWhole, NEW r \in Late, Subscribe(r)
  PROVE  BusSound' /\ AllAligned' /\ BatchesWhole'
<1> DEFINE n == Len(subs)
<1>1. /\ holder = None /\ r \notin ToSet(subs) /\ r \notin gone /\ subs' = Append(subs, r)
      /\ UNCHANGED <<holder, sent, heard, gone, shard>>
      /\ since' = [since EXCEPT ![r] = Len(heard[Own])]
  BY DEF Subscribe
<1>2. n \in Nat \ {0} /\ DOMAIN subs = 1 .. n /\ r \in Subscriber
  BY ReceiverIs DEF Subscriber
<1>3. /\ Len(subs') = n + 1 /\ DOMAIN subs' = 1 .. n + 1
      /\ \A j \in 1 .. n : subs'[j] = subs[j]
      /\ subs'[n + 1] = r
  <2>1. subs' \in Seq(Subscriber) /\ Len(subs') = n + 1
    BY <1>1, <1>2, AppendProperties DEF TypeOK
  <2>2. DOMAIN subs' = 1 .. Len(subs')
    BY <2>1, LenProperties
  <2> QED BY <1>1, <1>2, <2>1, <2>2, AppendProperties DEF TypeOK
<1>4. heard[r] = <<>> /\ Len(heard[r]) = 0
  <2>1. heard[r] = <<>>
    BY <1>1, <1>2 DEF BusSound
  <2> QED BY <2>1, EmptySeq
<1> HIDE DEF n
<1>5. \A j : Reached(j) = 0 /\ Reached(j)' = 0
  BY <1>1 DEF Reached
<1>6. \A j \in DOMAIN subs : Before(j)' = Before(j) /\ Before(j) = Len(heard[subs[j]])
  <2> TAKE j \in DOMAIN subs
  <2>1. Len(heard[subs[j]]) \in Nat /\ subs'[j] = subs[j]
    BY <1>2, <1>3, ReceiverIs
  <2>2. Before(j) = Len(heard[subs[j]]) - 0 /\ Before(j)' = Len(heard[subs[j]]) - 0
    BY <1>1, <1>5, <2>1 DEF Before
  <2> QED BY <2>1, <2>2
<1>7. 1 \in DOMAIN subs /\ Before(1) \in Nat
  BY <1>2, <1>6, ReceiverIs
<1>11. \A j \in DOMAIN subs : subs[j] # r
  BY <1>1 DEF ToSet
<1>9. ASSUME NEW j \in DOMAIN subs'
      PROVE  Aligned(j)'
  <2>1. CASE j \in DOMAIN subs
    <3>1. subs'[j] = subs[j] /\ Before(j)' = Before(j) /\ Before(1)' = Before(1)
      BY <1>2, <1>3, <1>6, <1>7, <2>1
    <3>2. Aligned(j)
      BY <2>1 DEF AllAligned
    <3>3. since'[subs'[j]] = since[subs[j]]
      BY <1>1, <1>11, <2>1, <3>1, ReceiverIs DEF TypeOK
    <3> QED BY <1>1, <1>5, <3>1, <3>2, <3>3 DEF Aligned
  <2>2. CASE j = n + 1
    <3>1. 0 % BatchSize = 0
      BY BatchAssumption, ZeroRemainder
    <3>2. Before(1)' \in Nat /\ Before(j)' = 0 /\ Reached(j)' = 0
      <4>1. heard'[subs'[j]] = <<>> /\ Len(heard'[subs'[j]]) = 0
        BY <1>1, <1>3, <1>4, <2>2
      <4> QED BY <1>5, <1>6, <1>7, <4>1 DEF Before
    <3>3. since'[subs'[j]] = Before(1)'
      <4>1. subs'[j] = r /\ since'[r] = Len(heard[Own])
        BY <1>1, <1>2, <1>3, <2>2 DEF TypeOK
      <4>2. Before(1)' = Len(heard[Own])
        BY <1>6, <1>7 DEF BusSound
      <4> QED BY <4>1, <4>2
    <3> QED BY <3>1, <3>2, <3>3 DEF Aligned
  <2> QED BY <1>2, <1>3, <2>1, <2>2
<1>10. BatchesWhole'
  BY <1>1 DEF BatchesWhole
<1>12. subs' # <<>> /\ subs'[1] = Own
  BY <1>2, <1>3 DEF BusSound
<1>13. \A i, j \in DOMAIN subs' : subs'[i] = subs'[j] => i = j
  <2>1. \A i, j \in 1 .. n : subs[i] = subs[j] => i = j
    BY <1>2 DEF BusSound
  <2> QED BY <1>2, <1>3, <1>11, <2>1
<1>14. ToSet(subs) \subseteq ToSet(subs')
  <2>1. \A i \in DOMAIN subs : i \in DOMAIN subs' /\ subs'[i] = subs[i]
    BY <1>2, <1>3
  <2> QED BY <2>1 DEF ToSet
<1>16. \A q \in Subscriber \ gone' : q \notin ToSet(subs') => heard'[q] = <<>> /\ since'[q] = None
  <2> TAKE q \in Subscriber \ gone'
  <2> HAVE q \notin ToSet(subs')
  <2>1. q # r
    BY <1>2, <1>3 DEF ToSet
  <2>2. since'[q] = since[q] /\ heard'[q] = heard[q]
    BY <1>1, <2>1 DEF TypeOK
  <2> QED BY <1>1, <1>14, <2>2 DEF BusSound
<1>15. BusSound'
  BY <1>1, <1>12, <1>13, <1>16, NoneAssumption DEF BusSound
<1> QED BY <1>9, <1>10, <1>15 DEF AllAligned

LEMMA DropStep ==
  ASSUME TypeOK, BusSound, AllAligned, BatchesWhole, NEW r \in Late, DropReceiver(r)
  PROVE  BusSound' /\ AllAligned' /\ BatchesWhole'
<1>1. UNCHANGED <<subs, holder, sent, heard, since, shard>> /\ gone \subseteq gone'
  BY DEF DropReceiver
<1>2. BusSound'
  BY <1>1 DEF BusSound, At
<1>3. \A j \in DOMAIN subs : Reached(j)' = Reached(j)
  BY <1>1 DEF Reached
<1>4. \A j \in DOMAIN subs : Before(j)' = Before(j)
  BY <1>1, <1>3 DEF Before
<1>5. 1 \in DOMAIN subs
  BY ReceiverIs
<1>6. AllAligned'
  BY <1>1, <1>3, <1>4, <1>5 DEF AllAligned, Aligned
<1> QED BY <1>1, <1>2, <1>6 DEF BatchesWhole

LEMMA BusStep ==
  ASSUME TypeOK, BusSound, AllAligned, BatchesWhole, [Next]_vars
  PROVE  BusSound' /\ AllAligned' /\ BatchesWhole'
<1>1. CASE \/ \E p \in Producer : Sequence(p) \/ TryPush(p) \/ Refuse(p)
           \/ DropSenders \/ Join \/ UNCHANGED vars
  <2>1. UNCHANGED bus /\ shard' = shard
    BY <1>1 DEF Sequence, TryPush, Refuse, DropSenders, Join, vars
  <2> QED BY <2>1, BusKept
<1>2. ASSUME NEW s \in Shard, Pop(s) \/ Log(s) \/ Apply(s) \/ PassOver(s) \/ Exit(s)
      PROVE  BusSound' /\ AllAligned' /\ BatchesWhole'
  <2>1. UNCHANGED bus /\ shard[s].at # "send"
    BY <1>2 DEF Pop, Log, Apply, PassOver, Exit, At
  <2>2. \A t \in Shard \ {s} : shard'[t] = shard[t]
    BY <1>2 DEF TypeOK, Pop, Log, Apply, PassOver, Exit, Goto
  <2>3. holder # None => holder \in Shard \ {s}
    BY <2>1, HolderIs
  <2> QED BY <2>1, <2>2, <2>3, BusKept
<1>3. CASE \E s \in Shard : Lock(s) \/ Send(s) \/ Forget(s) \/ Unlock(s)
  BY <1>3, LockStep, SendStep, ForgetStep, UnlockStep
<1>4. CASE \E r \in Late : Subscribe(r) \/ DropReceiver(r)
  BY <1>4, SubscribeStep, DropStep
<1> QED BY <1>1, <1>2, <1>3, <1>4 DEF Next, RunShard

(***************************************************************************)
(* What is applied is sent.                                                *)
(***************************************************************************)

\* What Own has heard only grows.
LEMMA OwnGrows ==
  ASSUME TypeOK, BusSound, [Next]_vars
  PROVE  ToSet(heard[Own]) \subseteq ToSet(heard'[Own])
<1>1. CASE heard' = heard
  BY <1>1
<1>2. ASSUME NEW s \in Shard, Send(s)
      PROVE  ToSet(heard[Own]) \subseteq ToSet(heard'[Own])
  <2>1. 1 \in DOMAIN subs /\ subs[1] = Own
    BY ReceiverIs DEF BusSound
  <2>2. /\ Len(heard'[Own]) = Len(heard[Own]) + (IF 1 = sent[s].sub THEN 1 ELSE 0)
        /\ \A i \in 1 .. Len(heard[Own]) : heard'[Own][i] = heard[Own][i]
    BY <1>2, <2>1, SendHeard
  <2>3. heard' \in [Subscriber -> Seq(Event)] /\ Own \in Subscriber
    BY TypeStep DEF TypeOK, Subscriber
  <2>4. /\ Len(heard[Own]) \in Nat /\ DOMAIN heard[Own] = 1 .. Len(heard[Own])
        /\ DOMAIN heard'[Own] = 1 .. Len(heard'[Own])
    BY <2>3, LenProperties DEF TypeOK
  <2>5. \A i \in DOMAIN heard[Own] : i \in DOMAIN heard'[Own] /\ heard'[Own][i] = heard[Own][i]
    <3> DEFINE h == heard[Own]
               g == heard'[Own]
    <3>1. /\ Len(g) = Len(h) + (IF 1 = sent[s].sub THEN 1 ELSE 0) /\ Len(h) \in Nat
          /\ \A i \in 1 .. Len(h) : g[i] = h[i]
          /\ DOMAIN h = 1 .. Len(h) /\ DOMAIN g = 1 .. Len(g)
      BY <2>2, <2>4
    <3> HIDE DEF g, h
    <3>2. \A i \in DOMAIN h : i \in DOMAIN g /\ g[i] = h[i]
      BY <3>1
    <3> QED BY <3>2 DEF g, h
  <2> QED BY <2>5 DEF ToSet
<1>3. CASE ~\E s \in Shard : Send(s)
  <2>1. heard' = heard
    BY <1>3 DEF Next, RunShard, Sequence, TryPush, Refuse, Pop, Log, Apply, PassOver, Lock, Forget,
                Unlock, Exit, Subscribe, DropReceiver, DropSenders, Join, vars, bus
  <2> QED BY <1>1, <2>1
<1> QED BY <1>2, <1>3

LEMMA SentStays ==
  ASSUME TypeOK, BusSound, AppliedAreSent, [Next]_vars,
         NEW s \in Shard, NEW i \in DOMAIN applied[s], NEW cmd, cmd = applied[s][i]
  PROVE  Sent(s, cmd)'
<1> DEFINE last == [seq |-> cmd.seq, event |-> BatchSize]
<1>1. CASE last \in ToSet(heard[Own])
  <2>1. last \in ToSet(heard'[Own])
    BY <1>1, OwnGrows
  <2> QED BY <2>1 DEF Sent
<1>2. CASE last \notin ToSet(heard[Own])
  <2>1. At(s, "send") /\ shard[s].cmd = cmd /\ (holder = s => sent[s].sub = 1)
    BY <1>2 DEF AppliedAreSent, Sent
  <2>2. CASE shard'[s] = shard[s] /\ sent'[s] = sent[s] /\ (holder' = s => holder = s)
    BY <2>1, <2>2 DEF Sent, At
  <2>3. CASE Lock(s)
    <3>1. sent'[s] = FirstEvent /\ shard' = shard
      BY <2>3, NoneAssumption DEF Lock, BusSound
    <3> QED BY <2>1, <3>1 DEF Sent, At, FirstEvent
  <2>4. CASE Send(s)
    <3> DEFINE e == sent[s].event
    <3>1. /\ holder = s /\ sent[s].sub = 1 /\ shard' = shard /\ sent'[s] = AfterEvent(sent[s])
          /\ sent[s] \in Place
      BY <2>1, <2>4 DEF TypeOK, Send, Place
    <3>2. CASE e < BatchSize
      <4>1. sent'[s] = [sub |-> 1, event |-> e + 1]
        BY <3>1, <3>2, Places
      <4> QED BY <2>1, <3>1, <4>1 DEF Sent, At
    <3>3. CASE ~(e < BatchSize)
      <4>1. e = BatchSize
        BY <3>1, <3>3, BatchAssumption DEF Place
      <4>2. subs[1] = Own /\ 1 \in DOMAIN subs
        BY ReceiverIs DEF BusSound
      <4>3. heard'[Own] = Append(heard[Own], last)
        BY <2>1, <2>4, <3>1, <4>1, <4>2, SendHeard
      <4>4. last \in Event /\ heard[Own] \in Seq(Event)
        <5>1. cmd \in Command
          BY <2>1, InHand DEF At
        <5>2. cmd.seq \in Nat /\ BatchSize \in 1 .. BatchSize
          BY <5>1, BatchAssumption DEF Command
        <5>3. heard[Own] \in Seq(Event)
          BY DEF TypeOK, Subscriber
        <5> QED BY <5>2, <5>3 DEF Event
      <4>5. last \in ToSet(heard'[Own])
        <5> DEFINE h == heard[Own]
                   g == heard'[Own]
        <5>1. h \in Seq(Event) /\ last \in Event /\ g = Append(h, last)
          BY <4>3, <4>4
        <5> HIDE DEF h, g, last
        <5>2. Len(h) + 1 \in DOMAIN g /\ g[Len(h) + 1] = last
          <6>1. g \in Seq(Event) /\ Len(g) = Len(h) + 1 /\ g[Len(h) + 1] = last /\ Len(h) \in Nat
            BY <5>1, AppendProperties, LenProperties
          <6>2. DOMAIN g = 1 .. Len(g)
            BY <6>1, LenProperties
          <6> QED BY <6>1, <6>2
        <5>3. last \in ToSet(g)
          BY <5>2 DEF ToSet
        <5> QED BY <5>3 DEF g
      <4> QED BY <4>5 DEF Sent
    <3> QED BY <3>2, <3>3
  <2>5. CASE Forget(s)
    <3>1. sent[s].sub \in 2 .. Len(subs) /\ holder = s
      BY <2>5, ForgetSubs
    <3> QED BY <2>1, <3>1
  <2>6. CASE Unlock(s)
    <3>1. sent[s].sub > Len(subs) /\ holder = s /\ Len(subs) \in Nat \ {0}
      BY <2>6, ReceiverIs DEF Unlock
    <3> QED BY <2>1, <3>1
  <2>7. CASE Pop(s) \/ Log(s) \/ Apply(s) \/ PassOver(s) \/ Exit(s)
    BY <2>1, <2>7 DEF Pop, Log, Apply, PassOver, Exit, At
  <2>8. ASSUME NEW t \in Shard \ {s}, RunShard(t)
        PROVE  shard'[s] = shard[s] /\ sent'[s] = sent[s] /\ (holder' = s => holder = s)
    <3>1. CASE Pop(t) \/ Log(t) \/ Apply(t) \/ PassOver(t) \/ Exit(t)
      BY <3>1 DEF TypeOK, Pop, Log, Apply, PassOver, Exit, Goto, bus
    <3>2. CASE Lock(t) \/ Send(t) \/ Forget(t) \/ Unlock(t)
      BY <3>2, NoneAssumption DEF TypeOK, Lock, Send, Forget, Unlock, Goto, HeldForBatch, Released
    <3> QED BY <2>8, <3>1, <3>2 DEF RunShard
  <2>9. CASE \/ \E p \in Producer : Sequence(p) \/ TryPush(p) \/ Refuse(p)
             \/ \E r \in Late : Subscribe(r) \/ DropReceiver(r)
             \/ DropSenders \/ Join \/ UNCHANGED vars
    <3>1. UNCHANGED <<shard, sent, holder>>
      BY <2>9 DEF Sequence, TryPush, Refuse, Subscribe, DropReceiver, DropSenders, Join, vars, bus
    <3> QED BY <2>2, <3>1
  <2> QED BY <2>2, <2>3, <2>4, <2>5, <2>6, <2>7, <2>8, <2>9 DEF Next, RunShard
<1> QED BY <1>1, <1>2

LEMMA AppliedStep ==
  ASSUME TypeOK, BusSound, AppliedAreSent, [Next]_vars
  PROVE  AppliedAreSent'
<1> SUFFICES ASSUME NEW s \in Shard, NEW i \in DOMAIN applied'[s], NEW cmd, cmd = applied'[s][i]
             PROVE  Sent(s, cmd)'
  BY DEF AppliedAreSent, Sent
<1>1. CASE applied'[s] = applied[s]
  BY <1>1, SentStays
<1>2. CASE Apply(s)
  <2> DEFINE a == applied[s]
             c == shard[s].cmd
  <2>1. a \in Seq(Command) /\ c \in Command /\ applied'[s] = Append(a, c)
    BY <1>2, ApplyPipe DEF TypeOK
  <2>2. /\ DOMAIN a = 1 .. Len(a) /\ DOMAIN Append(a, c) = 1 .. Len(a) + 1 /\ Len(a) \in Nat
        /\ \A j \in 1 .. Len(a) : Append(a, c)[j] = a[j]
        /\ Append(a, c)[Len(a) + 1] = c
    <3> HIDE DEF a, c
    <3> QED BY <2>1, AppendProperties, LenProperties
  <2>3. CASE i \in 1 .. Len(a)
    BY <2>1, <2>2, <2>3, SentStays
  <2>4. CASE i = Len(a) + 1
    <3>1. cmd = c
      BY <2>1, <2>2, <2>4
    <3>2. shard'[s] = [at |-> "send", cmd |-> c] /\ holder' = holder
      BY <1>2, Steps, GotoElse DEF Apply, bus
    <3>3. holder # s
      BY <1>2, NoneAssumption DEF Apply, At, BusSound
    <3> QED BY <3>1, <3>2, <3>3 DEF Sent, At
  <2> QED BY <2>1, <2>2, <2>3, <2>4
<1>3. CASE applied'[s] # applied[s]
  BY <1>2, <1>3 DEF TypeOK, Next, RunShard, Sequence, TryPush, Refuse, Pop, Log, Apply, PassOver, Lock, Send,
           Forget, Unlock, Exit, Subscribe, DropReceiver, DropSenders, Join, vars
<1> QED BY <1>1, <1>3

(***************************************************************************)
(* The theorems.                                                           *)
(***************************************************************************)

LEMMA BusInductiveInit == Init => BusInductive
<1> SUFFICES ASSUME Init PROVE BusInductive
  OBVIOUS
<1>1. TypeOK
  BY TypeInit
<1>2. subs = <<Own>> /\ Len(subs) = 1 /\ DOMAIN subs = 1 .. 1 /\ subs[1] = Own
  BY DEF Init
<1>3. \A r \in Subscriber : heard[r] = <<>> /\ Len(heard[r]) = 0 /\ DOMAIN heard[r] = {}
  BY EmptySeq DEF Init
<1>9. since[Own] = 0 /\ \A r \in Subscriber \ {Own} : since[r] = None
  BY DEF Init, Subscriber
<1>10. Own \in ToSet(subs)
  BY <1>2 DEF ToSet
<1>4. holder = None /\ gone = {} /\ \A s \in Shard : sent[s] = FirstEvent
  BY DEF Init
<1>5. BusSound
  <2>1. subs # <<>>
    BY <1>2, EmptySeq
  <2>2. \A i, j \in DOMAIN subs : subs[i] = subs[j] => i = j
    BY <1>2
  <2> QED BY <1>2, <1>3, <1>4, <1>9, <1>10, <2>1, <2>2 DEF BusSound
<1>6. AllAligned
  <2>1. Reached(1) = 0
    BY <1>4 DEF Reached
  <2>2. Before(1) = 0
    BY <1>2, <1>3, <2>1 DEF Before, Subscriber
  <2>3. 0 % BatchSize = 0
    BY BatchAssumption, ZeroRemainder
  <2>4. Aligned(1)
    BY <1>2, <1>9, <2>1, <2>2, <2>3 DEF Aligned
  <2> QED BY <1>2, <2>4 DEF AllAligned
<1>7. BatchesWhole
  BY <1>3 DEF BatchesWhole
<1>8. AppliedAreSent
  <2>1. \A s \in Shard : applied[s] = <<>>
    BY DEF Init
  <2> QED BY <2>1 DEF AppliedAreSent
<1> QED BY <1>1, <1>5, <1>6, <1>7, <1>8 DEF BusInductive

LEMMA BusInductiveStep == BusInductive /\ [Next]_vars => BusInductive'
BY TypeStep, BusStep, AppliedStep DEF BusInductive

LEMMA BusInductiveAlways == Spec => []BusInductive
<1>1. Init => BusInductive
  BY BusInductiveInit
<1>2. BusInductive /\ [Next]_vars => BusInductive'
  BY BusInductiveStep
<1> QED BY <1>1, <1>2, PTL DEF Spec

\* send_batch keeps the mutex for the batch: no receiver ever hears an event of
\* one command between two of another, and none hears a batch with a gap.
THEOREM BatchesStayWhole == Spec => []BatchesWhole
<1>1. BusInductive => BatchesWhole
  BY DEF BusInductive
<1> QED BY <1>1, BusInductiveAlways, PTL

LEMMA AlignedMissNothing == BusInductive => NothingMissed
<1> SUFFICES ASSUME BusInductive, holder = None,
                    NEW r \in Late \ gone, since[r] # None
             PROVE  heard[r] = SubSeq(heard[Own], since[r] + 1, Len(heard[Own]))
  BY DEF NothingMissed
<1>0. PICK j \in DOMAIN subs : subs[j] = r
  <2>1. r \in ToSet(subs)
    BY DEF BusInductive, BusSound, Subscriber
  <2> QED BY <2>1 DEF ToSet
<1> DEFINE h == heard[subs[j]]
           o == heard[Own]
           skip == since[r]
<1>1. 1 \in DOMAIN subs /\ subs[1] = Own
  BY ReceiverIs DEF BusInductive, BusSound
<1>2. h \in Seq(Event) /\ o \in Seq(Event) /\ Len(h) \in Nat /\ Len(o) \in Nat
  BY <1>1, ReceiverIs DEF BusInductive
<1>3. Reached(j) = 0 /\ Reached(1) = 0
  BY DEF Reached
<1>4. Before(j) = Len(h) /\ Before(1) = Len(o)
  BY <1>1, <1>2, <1>3 DEF Before
<1>5. /\ skip = Len(o) - Len(h) /\ Len(h) \in 0 .. Len(o)
      /\ \A i \in 1 .. Len(h) : h[i] = o[skip + i]
  <2>1. Aligned(j)
    BY DEF BusInductive, AllAligned
  <2>2. /\ Before(j) \in 0 .. Before(1) /\ since[subs[j]] = Before(1) - Before(j)
        /\ \A i \in 1 .. Before(j) :
             heard[subs[j]][i] = heard[Own][Before(1) - Before(j) + i]
    BY <2>1 DEF Aligned
  <2> HIDE DEF h, o
  <2>3. Len(h) \in 0 .. Len(o)
    BY <1>4, <2>2
  <2>4. \A i \in 1 .. Len(h) : heard[subs[j]][i] = heard[Own][Len(o) - Len(h) + i]
    BY <1>4, <2>2
  <2>5. skip = Len(o) - Len(h)
    BY <1>0, <1>4, <2>2
  <2> QED BY <2>3, <2>4, <2>5 DEF h, o
<1> HIDE DEF h, o, skip
<1>6. \A i \in 1 .. Len(o) : o[i] \in Event
  BY <1>2, ElementOfSeq
<1> DEFINE m == skip + 1
           n == Len(o)
           t == SubSeq(o, m, n)
<1>7. m \in 1 .. n + 1 /\ n \in Nat /\ (IF m <= n THEN n - m + 1 ELSE 0) = Len(h) /\ n - m + 1 = Len(h)
  BY <1>2, <1>5
<1>8. /\ t \in Seq(Event) /\ Len(t) = IF m <= n THEN n - m + 1 ELSE 0
      /\ \A i \in 1 .. n - m + 1 : t[i] = o[m + i - 1]
  <2> HIDE DEF m
  <2>1. m \in Int /\ n \in Int /\ \A i \in m .. n : o[i] \in Event
    BY <1>6, <1>7
  <2> HIDE DEF n
  <2> QED BY <2>1, SubSeqProperties
<1>9. \A i \in 1 .. Len(h) : h[i] = t[i]
  <2> TAKE i \in 1 .. Len(h)
  <2>1. m + i - 1 = skip + i
    BY <1>2, <1>5
  <2>2. h[i] = o[skip + i]
    BY <1>5
  <2>3. t[i] = o[m + i - 1]
    BY <1>7, <1>8
  <2> QED BY <2>1, <2>2, <2>3
<1>10. Len(t) = Len(h)
  BY <1>7, <1>8
<1> HIDE DEF t
<1>11. h = t
  BY <1>2, <1>8, <1>9, <1>10, SeqEqual
<1> QED BY <1>0, <1>11 DEF h, o, t, skip

\* A receiver that subscribes late hears all that the engine's own receiver hears
\* from then on, in the same order, until it is dropped itself: retain forgets no
\* receiver that is still there, whoever else subscribes or goes away.
THEOREM LateMissNothing == Spec => []NothingMissed
BY AlignedMissNothing, BusInductiveAlways, PTL

\* shutdown returns only when all that was accepted, for symbols with a book, has
\* been applied and sent.
THEOREM ShutdownLosesNothing == Spec => []ShutdownDrains
<1>1. Inductive /\ BusInductive => ShutdownDrains
  <2> SUFFICES ASSUME Inductive, BusInductive, joined,
                      NEW p \in Producer, NEW i \in DOMAIN accepted[p],
                      NEW cmd, cmd = accepted[p][i], WithBook(cmd)
               PROVE  /\ cmd \in ToSet(applied[ShardFor(cmd.symbol)])
                      /\ [seq |-> cmd.seq, event |-> BatchSize] \in ToSet(heard[Own])
    BY DEF ShutdownDrains
  <2> DEFINE s == ShardFor(cmd.symbol)
  <2>1. cmd \in Command /\ accepted[p] \in Seq(Command)
    BY ElementOfSeq, LenProperties DEF Inductive, TypeOK
  <2>2. s \in Shard
    BY <2>1, Symbols DEF Command
  <2> HIDE DEF s
  <2>3. shard[s].at = "exited" /\ ring[s] = <<>>
    BY <2>2 DEF Inductive, Closing, At
  <2>4. Line(s) = applied[s] /\ applied[s] \in Seq(Command)
    <3>1. Between(s, {"log", "apply"}) = <<>>
      BY <2>3 DEF Between
    <3>2. applied[s] \in Seq(Command)
      BY <2>2 DEF Inductive, TypeOK
    <3> QED BY <2>3, <3>1, <3>2, ConcatEmptySeq DEF Line
  <2>5. cmd \in Range(applied[s])
    <3> DEFINE a == accepted[p]
               l == applied[s]
               f == From(p)
               g == To(s)
    <3>1. Only(l, f) = Only(a, g)
      BY <2>2, <2>4, InOrderIs DEF Inductive, InOrder
    <3>2. cmd \in g
      BY <2>1 DEF To, s
    <3>3. cmd \in Range(a)
      BY DEF Range
    <3>4. a \in Seq(Command) /\ l \in Seq(Command)
      BY <2>1, <2>4
    <3> HIDE DEF a, l, f, g
    <3>5. Range(Only(a, g)) = Range(a) \cap g /\ Range(Only(l, f)) = Range(l) \cap f
      BY <3>4, OnlyRange
    <3>6. cmd \in Range(l)
      BY <3>1, <3>2, <3>3, <3>5
    <3> QED BY <3>6 DEF l
  <2>6. PICK n \in DOMAIN applied[s] : applied[s][n] = cmd
    BY <2>5 DEF Range
  <2>7. Sent(s, cmd)
    BY <2>2, <2>6 DEF BusInductive, AppliedAreSent
  <2>8. [seq |-> cmd.seq, event |-> BatchSize] \in ToSet(heard[Own])
    BY <2>3, <2>7 DEF Sent, At
  <2> QED BY <2>6, <2>8 DEF ToSet, s
<1> QED BY <1>1, InductiveAlways, BusInductiveAlways, PTL

===============================================================================
