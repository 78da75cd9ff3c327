------------------------------- MODULE Engine -------------------------------
(***************************************************************************)
(* The engine of crates/engine: producers (gateway sessions) submit        *)
(* commands, a sequencer numbers them, a bounded ring takes them to the    *)
(* shard of their symbol, and the shard's thread logs them, applies them   *)
(* to its book and sends the events to every subscriber of the egress bus. *)
(*                                                                         *)
(* Threads interleave between any two accesses to what they share: the     *)
(* counter, the rings, the bus behind its mutex. What apply does to a book *)
(* is the business of Matcher, how a log survives that of Wal; here a      *)
(* command is known by its number and has a batch of events, and an append *)
(* to the log succeeds or fails.                                           *)
(***************************************************************************)
EXTENDS Integers, SequencesExt, Selection

CONSTANTS
  Producer,      \* the threads that share the Engine
  Late,          \* receivers that subscribe while the engine runs
  Own,           \* the receiver Engine::start subscribes itself
  Symbol,        \* the symbols commands name, numbers
  Listed,        \* those that have a book
  NumShards,
  RingCapacity,
  BatchSize,     \* events that apply produces for a command, never none
  MaxSeq,        \* bounds: commands submitted,
  MaxFailures,   \* and appends that fail
  None

ASSUME SymbolAssumption == Symbol \subseteq Nat /\ Listed \subseteq Symbol
ASSUME ShardsAssumption == NumShards \in Nat \ {0}
ASSUME CapacityAssumption == RingCapacity \in Nat \ {0}
ASSUME BatchAssumption == BatchSize \in Nat \ {0}

Shard == 0 .. NumShards - 1

Subscriber == {Own} \cup Late

\* A numbered command, and one event of the batch it causes.
Command == [seq : Nat, from : Producer, symbol : Symbol]

Event == [seq : Nat, event : 1 .. BatchSize]

\* Engine::start keeps its own receiver: nobody else has it, or drops it.
ASSUME OwnAssumption == Own \notin Late
ASSUME NoneAssumption == None \notin Command /\ None \notin Shard /\ None \notin Nat

VARIABLES
  next,       \* the sequencer's counter
  submitting, \* producer -> the numbered command it is about to push, or None
  accepted,   \* producer -> the commands whose submit returned Ok, in order
  ring,       \* shard -> the commands in its ring buffer
  open,       \* the senders of the rings have not been dropped
  shard,      \* shard -> where run_shard is and the command it has in hand
  logged,     \* shard -> the commands its log has taken, in order
  unlogged,   \* shard -> the numbers of those whose append failed
  applied,    \* shard -> the commands applied to its books, in order
  subs,       \* the bus: the senders it fans out to, in order
  holder,     \* the shard that holds the mutex of the bus, or None
  sent,       \* shard -> the event to send next: position in subs, number in the batch
  heard,      \* subscriber -> the events that reached its channel
  gone,       \* the receivers that have been dropped
  since,      \* history: subscriber -> how many events Own had heard when it
              \* subscribed, or None if it has not
  joined      \* shutdown has returned

producers == <<next, submitting, accepted>>
logs      == <<logged, unlogged>>
bus       == <<subs, holder, sent, heard, gone, since>>
vars      == <<producers, ring, open, shard, logs, applied, bus, joined>>

\* shard_for
ShardFor(symbol) == symbol % NumShards

(***************************************************************************)
(* Engine::submit, by any number of threads at once.                       *)
(***************************************************************************)

\* The number is taken here ...
Sequence(p) ==
  /\ open /\ submitting[p] = None /\ next <= MaxSeq
  /\ \E symbol \in Symbol :
       submitting' = [submitting EXCEPT ![p] = [seq |-> next, from |-> p, symbol |-> symbol]]
  /\ next' = next + 1
  /\ UNCHANGED <<accepted, ring, open, shard, logs, applied, bus, joined>>

\* ... and the command is pushed there. In between, others push theirs.
TryPush(p) ==
  /\ submitting[p] # None
  /\ LET target == ShardFor(submitting[p].symbol)
     IN  /\ Len(ring[target]) < RingCapacity
         /\ ring' = [ring EXCEPT ![target] = Append(@, submitting[p])]
  /\ accepted' = [accepted EXCEPT ![p] = Append(@, submitting[p])]
  /\ submitting' = [submitting EXCEPT ![p] = None]
  /\ UNCHANGED <<next, open, shard, logs, applied, bus, joined>>

\* Mutant: a refused command gives its number back.
NumberReturned == next - 1

NumberSpent == next

\* Mutant: the error of try_push is dropped, submit says Ok.
OkAnyway(p) == [accepted EXCEPT ![p] = Append(@, submitting[p])]

NotAccepted(p) == accepted

\* Mutant: submit waits for a place in the ring, by RingSender::push.
PushAndWait(p) == FALSE

\* The ring is full: the caller gets its command back, the number is gone.
Refuse(p) ==
  /\ submitting[p] # None
  /\ Len(ring[ShardFor(submitting[p].symbol)]) = RingCapacity
  /\ submitting' = [submitting EXCEPT ![p] = None]
  /\ next' = NumberSpent
  /\ accepted' = NotAccepted(p)
  /\ UNCHANGED <<ring, open, shard, logs, applied, bus, joined>>

(***************************************************************************)
(* run_shard: pop, log, apply, send.                                       *)
(***************************************************************************)

At(s, step) == shard[s].at = step

Goto(s, step, cmd) == shard' = [shard EXCEPT ![s] = [at |-> step, cmd |-> cmd]]

\* Mutant: the command is logged when it has been applied.
AppliedFirst(step) == CASE step = "pop"   -> "apply"
                        [] step = "apply" -> "log"
                        [] step = "log"   -> "send"

\* The steps for one command, in the order of run_shard.
After(step) == CASE step = "pop"   -> "log"
                 [] step = "log"   -> "apply"
                 [] step = "apply" -> "send"

Pop(s) ==
  /\ At(s, "pop") /\ ring[s] # <<>>
  /\ Goto(s, After("pop"), Head(ring[s]))
  /\ ring' = [ring EXCEPT ![s] = Tail(@)]
  /\ UNCHANGED <<producers, open, logs, applied, bus, joined>>

\* The result of wal.append is ignored.
Log(s) ==
  /\ At(s, "log")
  /\ \/ /\ logged' = [logged EXCEPT ![s] = Append(@, shard[s].cmd)]
        /\ UNCHANGED unlogged
     \/ /\ Cardinality(UNION {unlogged[t] : t \in Shard}) < MaxFailures
        /\ unlogged' = [unlogged EXCEPT ![s] = @ \cup {shard[s].cmd.seq}]
        /\ UNCHANGED logged
  /\ Goto(s, After("log"), shard[s].cmd)
  /\ UNCHANGED <<producers, ring, open, applied, bus, joined>>

Apply(s) ==
  /\ At(s, "apply") /\ shard[s].cmd.symbol \in Listed
  /\ applied' = [applied EXCEPT ![s] = Append(@, shard[s].cmd)]
  /\ Goto(s, After("apply"), shard[s].cmd)
  /\ UNCHANGED <<producers, ring, open, logs, bus, joined>>

\* A command for a symbol without a book is forgotten without an event.
PassOver(s) ==
  /\ At(s, "apply") /\ shard[s].cmd.symbol \notin Listed
  /\ Goto(s, "pop", None)
  /\ UNCHANGED <<producers, ring, open, logs, applied, bus, joined>>

(***************************************************************************)
(* EgressBus: one mutex, unbounded channels.                               *)
(***************************************************************************)

Lock(s) ==
  /\ At(s, "send") /\ holder = None
  /\ holder' = s
  /\ UNCHANGED <<producers, ring, open, shard, logs, applied, subs, sent, heard, gone, since, joined>>

\* Mutant: the mutex is taken for each event and not for the batch.
HeldPerEvent == None

HeldForBatch == holder

FirstEvent == [sub |-> 1, event |-> 1]

\* Mutant: one event too many is sent to each subscriber.
OneTooMany(here) == IF here.event <= BatchSize THEN [here EXCEPT !.event = @ + 1]
                                               ELSE [sub |-> here.sub + 1, event |-> 1]

AfterEvent(here) == IF here.event < BatchSize THEN [here EXCEPT !.event = @ + 1]
                                              ELSE [sub |-> here.sub + 1, event |-> 1]

\* send_batch delivers the whole batch to one subscriber after the other ...
Send(s) ==
  /\ At(s, "send") /\ holder = s /\ sent[s].sub \in DOMAIN subs
  /\ LET sub == subs[sent[s].sub]
     IN  /\ sub \notin gone
         /\ heard' = [heard EXCEPT
              ![sub] = Append(@, [seq |-> shard[s].cmd.seq, event |-> sent[s].event])]
  /\ sent' = [sent EXCEPT ![s] = AfterEvent(@)]
  /\ holder' = HeldForBatch
  /\ UNCHANGED <<producers, ring, open, shard, logs, applied, subs, gone, since, joined>>

\* Mutant: the subscriber that moves up is not looked at.
AfterRemoval(here) == [sub |-> here.sub + 1, event |-> 1]

SamePlace(here) == [here EXCEPT !.event = 1]

\* ... and retains only those whose receiver is still there.
Forget(s) ==
  /\ At(s, "send") /\ holder = s /\ sent[s].sub \in DOMAIN subs
  /\ subs[sent[s].sub] \in gone
  /\ subs' = RemoveAt(subs, sent[s].sub)
  /\ sent' = [sent EXCEPT ![s] = SamePlace(@)]
  /\ UNCHANGED <<producers, ring, open, shard, logs, applied, holder, heard, gone, since, joined>>

\* Mutant: the guard of the mutex is leaked.
Leaked == holder

Released == None

Unlock(s) ==
  /\ At(s, "send") /\ holder = s /\ sent[s].sub > Len(subs)
  /\ holder' = Released
  /\ sent' = [sent EXCEPT ![s] = FirstEvent]
  /\ Goto(s, "pop", None)
  /\ UNCHANGED <<producers, ring, open, logs, applied, subs, heard, gone, since, joined>>

Subscribe(r) ==
  /\ ~joined /\ holder = None
  /\ r \notin ToSet(subs) \cup gone
  /\ subs' = Append(subs, r)
  /\ since' = [since EXCEPT ![r] = Len(heard[Own])]
  /\ UNCHANGED <<producers, ring, open, shard, logs, applied, holder, sent, heard, gone, joined>>

\* A client of the bus goes away, in the middle of a batch if need be.
DropReceiver(r) ==
  /\ r \in ToSet(subs) \ gone
  /\ gone' = gone \cup {r}
  /\ UNCHANGED <<producers, ring, open, shard, logs, applied, subs, holder, sent, heard, since, joined>>

(***************************************************************************)
(* Engine::shutdown consumes the engine: no thread can be in submit.       *)
(***************************************************************************)

DropSenders ==
  /\ open /\ \A p \in Producer : submitting[p] = None
  /\ open' = FALSE
  /\ UNCHANGED <<producers, ring, shard, logs, applied, bus, joined>>

\* Mutant: the shard leaves as soon as the senders are gone.
Disconnected(s) == ~open

\* recv fails only when the channel is closed and empty.
DisconnectedAndDrained(s) == ~open /\ ring[s] = <<>>

Exit(s) ==
  /\ At(s, "pop") /\ DisconnectedAndDrained(s)
  /\ Goto(s, "exited", None)
  /\ UNCHANGED <<producers, ring, open, logs, applied, bus, joined>>

Join ==
  /\ ~open /\ ~joined /\ \A s \in Shard : At(s, "exited")
  /\ joined' = TRUE
  /\ UNCHANGED <<producers, ring, open, shard, logs, applied, bus>>

Init ==
  /\ next = 1
  /\ submitting = [p \in Producer |-> None] /\ accepted = [p \in Producer |-> <<>>]
  /\ ring = [s \in Shard |-> <<>>] /\ open = TRUE
  /\ shard = [s \in Shard |-> [at |-> "pop", cmd |-> None]]
  /\ logged = [s \in Shard |-> <<>>] /\ unlogged = [s \in Shard |-> {}]
  /\ applied = [s \in Shard |-> <<>>]
  /\ subs = <<Own>> /\ holder = None /\ sent = [s \in Shard |-> FirstEvent]
  /\ heard = [r \in Subscriber |-> <<>>] /\ gone = {}
  /\ since = [r \in Subscriber |-> IF r = Own THEN 0 ELSE None]
  /\ joined = FALSE

RunShard(s) == \/ Pop(s) \/ Log(s) \/ Apply(s) \/ PassOver(s)
               \/ Lock(s) \/ Send(s) \/ Forget(s) \/ Unlock(s)
               \/ Exit(s)

Next == \/ \E p \in Producer : Sequence(p) \/ TryPush(p) \/ Refuse(p)
        \/ \E s \in Shard : RunShard(s)
        \/ \E r \in Late : Subscribe(r) \/ DropReceiver(r)
        \/ DropSenders \/ Join

Spec == Init /\ [][Next]_vars

\* The system schedules every shard's thread.
FairSpec == Spec /\ (\A s \in Shard : WF_vars(RunShard(s))) /\ WF_vars(Join)

(***************************************************************************)
(* Properties.                                                             *)
(***************************************************************************)

\* A shard has a command in hand just when it is between two steps for it.
TypeOK ==
  /\ next \in Nat \ {0}
  /\ submitting \in [Producer -> Command \cup {None}]
  /\ accepted \in [Producer -> Seq(Command)]
  /\ ring \in [Shard -> Seq(Command)]
  /\ open \in BOOLEAN /\ joined \in BOOLEAN
  /\ shard \in [Shard -> [at : {"pop", "exited"}, cmd : {None}]
                          \cup [at : {"log", "apply", "send"}, cmd : Command]]
  /\ logged \in [Shard -> Seq(Command)] /\ unlogged \in [Shard -> SUBSET Nat]
  /\ applied \in [Shard -> Seq(Command)]
  /\ subs \in Seq(Subscriber) /\ holder \in Shard \cup {None}
  /\ sent \in [Shard -> [sub : Nat \ {0}, event : 1 .. BatchSize]]
  /\ heard \in [Subscriber -> Seq(Event)]
  /\ gone \in SUBSET Late /\ since \in [Subscriber -> Nat \cup {None}]

WithBook(cmd) == cmd.symbol \in Listed

\* The command a shard holds between two steps, if it holds one there.
Between(s, steps) == IF shard[s].at \in steps THEN <<shard[s].cmd>> ELSE <<>>

\* The sequencer never gives two commands the same number, though producers
\* race for it and some are refused by a full ring.
NumbersUnique ==
  \A p, q \in Producer :
    \A i \in DOMAIN accepted[p], j \in DOMAIN accepted[q] :
      accepted[p][i].seq = accepted[q][j].seq => p = q /\ i = j

\* What submit said Ok to, for a symbol with a book, is applied once, and for each
\* producer and shard in the order of its calls: it is in the ring, in the shard's
\* hand or applied.
AppliedInOrder ==
  \A p \in Producer, s \in Shard :
    Only(applied[s] \o Between(s, {"log", "apply"}) \o ring[s],
         {cmd \in Command : cmd.from = p /\ WithBook(cmd)})
      = Only(accepted[p], {cmd \in Command : ShardFor(cmd.symbol) = s /\ WithBook(cmd)})

\* A shard's log has the commands its books have seen, in the same order and
\* before the books, but for those whose append failed.
LogAhead ==
  \A s \in Shard :
    Only(logged[s], {cmd \in Command : WithBook(cmd)}) =
      Only(applied[s] \o Between(s, {"apply"}),
           {cmd \in Command : WithBook(cmd) /\ cmd.seq \notin unlogged[s]})

\* Receivers hear batches as a whole: no event of another shard comes between
\* two events of one command, and no event of a batch is missing but the last
\* ones while it is being sent.
BatchesWhole ==
  \A r \in Subscriber : \A i \in DOMAIN heard[r] :
    /\ heard[r][i].event = ((i - 1) % BatchSize) + 1
    /\ heard[r][i].event > 1 => heard[r][i].seq = heard[r][i - 1].seq

\* A receiver that subscribes while the engine runs hears all that Own hears from
\* then on, in the same order and up to the last batch that was sent, until it is
\* dropped itself: whoever else subscribes or goes away, retain keeps it.
NothingMissed ==
  \A r \in Late \ gone :
    since[r] # None /\ holder = None
      => heard[r] = SubSeq(heard[Own], since[r] + 1, Len(heard[Own]))

\* When shutdown returns, everything submit said Ok to has been applied, if
\* its symbol has a book, and its events have been sent.
ShutdownDrains ==
  joined =>
    \A p \in Producer : \A i \in DOMAIN accepted[p] :
      LET cmd == accepted[p][i]
      IN  WithBook(cmd) => /\ cmd \in ToSet(applied[ShardFor(cmd.symbol)])
                           /\ [seq |-> cmd.seq, event |-> BatchSize] \in ToSet(heard[Own])

\* shutdown returns: no shard waits for ever for a command or for the bus.
ShutdownReturns == ~open ~> joined

=============================================================================
