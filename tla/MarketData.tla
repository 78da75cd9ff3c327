------------------------------ MODULE MarketData ------------------------------
(***************************************************************************)
(* From the events of the engine to the clients of the market-data feed:   *)
(* the egress consumer of the gateway with a SnapshotBuilder per symbol,   *)
(* the MarketBus, and a task of run_ws_publisher per client.               *)
(*                                                                         *)
(* The bus is a broadcast channel of tokio: a send never waits. It keeps   *)
(* the last Capacity messages; a receiver that was slower than that is     *)
(* told so and goes on with the oldest message kept.                       *)
(***************************************************************************)
EXTENDS Integers, SequencesExt

CONSTANTS
  Listed,     \* the symbols that have a builder
  Client,     \* WebSocket clients
  Capacity,   \* of the MarketBus
  TradeKind,  \* the kinds of events: a trade,
  BookKind,   \* and those for which a builder emits a snapshot
  MaxEvents   \* bound: events, when nothing is said of their source

VARIABLES
  egress,     \* the events sent to the consumer's channel, [event |-> its kind, ...]
  taken,      \* how many of them the consumer has received: its `seq`
  builders,   \* the builders that have not processed the last of these yet
  published,  \* every message sent on the bus, in order
  task,       \* client -> its task: where it is, the next message for its
              \* receiver, the message in hand
  got,        \* client -> where it subscribed and the positions of the messages it
              \* was sent since
  left        \* the clients that have gone away

market == <<taken, builders, published, task, got, left>>

(***************************************************************************)
(* The consumer: every builder processes every event.                      *)
(***************************************************************************)

\* The hash map of the builders is never changed: its order is fixed.
Builders == SetToSeq(Listed)

Take ==
  /\ builders = <<>> /\ taken < Len(egress)
  /\ taken' = taken + 1
  /\ builders' = Builders
  /\ UNCHANGED <<published, task, got, left>>

\* SnapshotBuilder::process. No builder looks at the symbol of a trade, and the
\* levels of a snapshot are empty: update_level is never called.
Messages(symbol, e) ==
  IF e.event \in TradeKind THEN <<[t |-> "trade", symbol |-> symbol, seq |-> taken]>>
  ELSE IF e.event \in BookKind
         THEN <<[t |-> "snapshot", symbol |-> symbol, seq |-> taken, levels |-> {}]>>
  ELSE <<>>

\* Mutant: a full channel makes the sender wait for the slowest receiver.
WaitForAll ==
  \A c \in Client :
    task[c].at \in {"receiving", "sending"} => Len(published) - task[c].next + 1 < Capacity

NeverWait == TRUE

Process ==
  /\ builders # <<>> /\ NeverWait
  /\ published' = published \o Messages(Head(builders), egress[taken])
  /\ builders' = Tail(builders)
  /\ UNCHANGED <<taken, task, got, left>>

(***************************************************************************)
(* run_ws_publisher.                                                       *)
(***************************************************************************)

Goto(c, at, next, hand) == task' = [task EXCEPT ![c] = [at |-> at, next |-> next, hand |-> hand]]

Newest == Len(published)

\* The receiver subscribes before the handshake.
Accept(c) ==
  /\ task[c].at = "away" /\ c \notin left
  /\ Goto(c, "handshake", Newest + 1, 0)
  /\ got' = [got EXCEPT ![c] = <<Newest>>]
  /\ UNCHANGED <<taken, builders, published, left>>

Handshake(c) ==
  /\ task[c].at = "handshake"
  /\ \/ Goto(c, "receiving", task[c].next, 0)
     \/ c \in left /\ Goto(c, "ended", task[c].next, 0)
  /\ UNCHANGED <<taken, builders, published, got, left>>

\* Mutant: a receiver that lags starts anew with what comes next.
NewestKept == Newest + 1

OldestKept == IF Newest > Capacity THEN Newest - Capacity + 1 ELSE 1

\* Mutant: a receiver that lags is taken for one whose channel is closed.
LaggedIsClosed(c) == Goto(c, "ended", task[c].next, 0)

\* MarketReceiver::recv goes on after RecvError::Lagged.
Lagged(c) == Goto(c, "receiving", OldestKept, 0)

Recv(c) ==
  /\ task[c].at = "receiving" /\ task[c].next <= Newest
  /\ IF task[c].next < Newest - Capacity + 1 THEN Lagged(c)
     ELSE Goto(c, "sending", task[c].next + 1, task[c].next)
  /\ UNCHANGED <<taken, builders, published, got, left>>

\* sink.send returns when the client reads, or fails when it is gone.
Sent(c) ==
  /\ task[c].at = "sending"
  /\ \/ /\ Goto(c, "receiving", task[c].next, 0)
        /\ got' = [got EXCEPT ![c] = Append(@, task[c].hand)]
     \/ /\ c \in left
        /\ Goto(c, "ended", task[c].next, 0)
        /\ UNCHANGED got
  /\ UNCHANGED <<taken, builders, published, left>>

Leave(c) ==
  /\ c \notin left
  /\ left' = left \cup {c}
  /\ UNCHANGED <<taken, builders, published, task, got>>

MarketInit ==
  /\ taken = 0 /\ builders = <<>> /\ published = <<>>
  /\ task = [c \in Client |-> [at |-> "away", next |-> 1, hand |-> 0]]
  /\ got = [c \in Client |-> <<>>]
  /\ left = {}

Consume == Take \/ Process

Serve(c) == Handshake(c) \/ Recv(c) \/ Sent(c)

MarketNext == \/ Consume
              \/ \E c \in Client : Accept(c) \/ Serve(c) \/ Leave(c)

\* The source of the events, when it is nothing in particular.
Produce ==
  /\ Len(egress) < MaxEvents
  /\ \E kind \in TradeKind \cup BookKind, symbol \in Listed :
       egress' = Append(egress, [event |-> kind, symbol |-> symbol])
  /\ UNCHANGED market

Init == egress = <<>> /\ MarketInit

Next == \/ Produce
        \/ MarketNext /\ UNCHANGED egress

Spec == Init /\ [][Next]_<<egress, market>>

(***************************************************************************)
(* Properties.                                                             *)
(***************************************************************************)

\* A client misses only messages that were overwritten before its task came to
\* them, and gets the others in order and once.
LosesOnlyOverwritten ==
  \A c \in Client \ left : \A i \in 2 .. Len(got[c]) :
    /\ got[c][i - 1] < got[c][i]
    /\ \A k \in got[c][i - 1] + 1 .. got[c][i] - 1 : k + Capacity <= Newest

\* What bus.rs:49 and architecture.md:179 say of a receiver that lags, and recv does
\* not do: it is dropped, so that no client is sent anything after a gap.
LaggedAreDropped ==
  \A c \in Client : \A i \in 2 .. Len(got[c]) : got[c][i] = got[c][i - 1] + 1

=============================================================================
