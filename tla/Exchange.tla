------------------------------- MODULE Exchange -------------------------------
(***************************************************************************)
(* The whole way from a line of a gateway client to a message of the       *)
(* market-data feed: the sessions of Gateway, the engine, and MarketData   *)
(* with the engine's events for its source. The egress consumer subscribes *)
(* before the gateway opens, so it hears what the engine's own receiver    *)
(* hears.                                                                  *)
(***************************************************************************)
EXTENDS Gateway

CONSTANTS Client, Capacity, TradeKind, BookKind

ASSUME BusCapacityAssumption == Capacity \in Nat \ {0}

VARIABLES taken, builders, published, task, got, left

market == <<taken, builders, published, task, got, left>>

xvars == <<vars, sessions, market>>

Market == INSTANCE MarketData WITH egress <- heard[Own], MaxEvents <- 0

ExchangeInit == GatewayInit /\ Market!MarketInit

ExchangeNext == \/ GatewayNext /\ UNCHANGED market
                \/ Market!MarketNext /\ UNCHANGED <<vars, sessions>>

\* A session that has read a command submits it, and the consumer runs. Nothing is
\* assumed of clients, so nothing of a write to one either: it waits for the client.
ExchangeSpec ==
  /\ ExchangeInit /\ [][ExchangeNext]_xvars
  /\ \A p \in Producer : WF_xvars(Submit(p) /\ UNCHANGED market)
  /\ WF_xvars(Market!Consume /\ UNCHANGED <<vars, sessions>>)

\* What some of the properties assume besides: that the shards run, that a client
\* of the gateway reads its answers, that a client of the feed reads on.
ShardsRun  == \A s \in Shard : WF_xvars(RunShard(s) /\ UNCHANGED <<sessions, market>>)
HearsOut(p) == WF_xvars(Write(p) /\ UNCHANGED market)
ReadsOn(c) == WF_xvars(Market!Serve(c) /\ UNCHANGED <<vars, sessions>>)

(***************************************************************************)
(* Properties.                                                             *)
(***************************************************************************)

\* What the market-data clients miss was overwritten before they came to it.
LosesOnlyOverwritten == Market!LosesOnlyOverwritten

\* A client that reads its answers gets one to every command, and to every line of
\* text that is none, even if the shards stand still: submit hands a command back
\* rather than wait for a place in the ring.
LinesAnswered ==
  \A p \in Producer :
    HearsOut(p) =>
      (session[p].at \in {"submit", "write"} ~> (Len(told[p]) = asked[p] \/ p \in closed))

\* The accepted commands that have a book and no trade on the feed yet.
Unpublished ==
  {cmd \in UNION {ToSet(accepted[p]) : p \in Producer} :
     WithBook(cmd) /\ ~\E i \in DOMAIN published :
       published[i].t = "trade" /\ heard[Own][published[i].seq].seq = cmd.seq}

\* What submit said Ok to and traded comes out on the feed, though clients of the
\* gateway go away or leave their answers unread, and clients of the feed stop
\* reading.
AcceptedIsPublished == ShardsRun => (Unpublished # {} ~> Unpublished = {})

\* A client that reads on comes to the end of the feed, having lost messages
\* to a full channel or not: against what bus.rs:49 and architecture.md:179 say,
\* recv goes on after Lagged.
ReadersCatchUp ==
  \A c \in Client :
    ReadsOn(c) =>
      (task[c].at = "receiving" ~> (c \in left \/ Len(published) \in ToSet(got[c])))

=============================================================================
