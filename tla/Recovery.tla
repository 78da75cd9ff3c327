------------------------------- MODULE Recovery -------------------------------
(***************************************************************************)
(* Snapshots, the log and the matcher across crashes, for the book of one  *)
(* symbol. While the engine lives, its shard logs each command and applies *)
(* it; save_snapshot dumps the book between commands. A recovery, as the   *)
(* documents and tests have it, loads the latest snapshot and replays the  *)
(* records after it into a fresh book. The engine itself never recovers:   *)
(* it starts with an empty book and numbers its commands from 1.           *)
(*                                                                         *)
(* Wal shows what crashes leave of a log: the first records of each        *)
(* process, without a gap. The end is lost with the BufWriter of a process *)
(* that is killed, or unsynced when the power fails; where Wal finds gaps, *)
(* after lost batches, this module does not go. A snapshot is written in   *)
(* place and never synced.                                                 *)
(***************************************************************************)
EXTENDS MatcherRefinement, SequencesExt

CONSTANTS
  Torn,       \* a snapshot file that does not parse
  MaxRecords, \* bounds: commands logged,
  MaxLives,   \* processes that run the engine,
  MaxSaves,   \* snapshots written,
  MaxTorn,    \* writes of a snapshot that are cut short,
  MaxKills,   \* processes killed
  MaxOutages  \* and power failures

VARIABLES
  phase,   \* what the process does, or "down"
  life,    \* how many processes have run the engine
  log,     \* the records in the segments and the BufWriter, in order
  snaps,   \* last_seq, which names the file -> snapshot
  todo,    \* of a recovery: the orders still to load, then the records to replay
  after,   \* and the number replay starts after
  past,    \* history: the views of the live book after each command of its life
  counts   \* records, saves, torn writes, kills and outages so far

recovery == <<life, log, snaps, past, counts>>
rvars    == <<vars, phase, todo, after, recovery>>

Count(what) == counts' = [counts EXCEPT ![what] = @ + 1]

\* What a trader can tell of a book: who waits where, in which order.
View == [queues |-> Queues, waiting |-> Waiting, last |-> book.last]

(***************************************************************************)
(* The engine lives: run_shard for one symbol.                             *)
(***************************************************************************)

\* Log, then apply. The number is the sequencer's, which every process starts
\* from 1.
LogAndApply ==
  /\ phase = "live" /\ counts.records < MaxRecords
  /\ Receive
  /\ log' = Append(log, [life |-> life, seq |-> Len(past) + 1, cmd |-> cmd'])
  /\ Count("records")
  /\ UNCHANGED <<phase, todo, after, life, snaps, past>>

\* A call of apply goes on, of a command that is live or replayed.
ApplyOn ==
  /\ phase \in {"live", "replaying"}
  /\ Apply
  /\ UNCHANGED <<phase, todo, after, recovery>>

Done ==
  /\ phase \in {"live", "replaying"}
  /\ Deliver
  /\ past' = IF phase = "live" THEN Append(past, View) ELSE past
  /\ UNCHANGED <<phase, todo, after, life, log, snaps, counts>>

(***************************************************************************)
(* save_snapshot, called between two commands with the number of the last. *)
(***************************************************************************)

SnapOrder(id) ==
  LET o == book.arena[book.ids[id].slot]
  IN  [id |-> o.id, side |-> o.side, kind |-> o.kind, price |-> o.price,
       stop_price |-> o.stop_price, remaining |-> o.remaining]

\* The orders come as the values of a hash map do: in any order.
Snapshots ==
  {[life |-> life, last_trade |-> book.last, orders |-> [i \in DOMAIN ids |-> SnapOrder(ids[i])]] :
     ids \in SetToSeqs(DOMAIN book.ids)}

Saving == phase = "live" /\ Idle /\ past # <<>> /\ counts.saves < MaxSaves

Save ==
  /\ Saving
  /\ \E snap \in Snapshots : snaps' = Put(snaps, Len(past), snap)
  /\ Count("saves")
  /\ UNCHANGED <<vars, phase, todo, after, life, log, past>>

\* The write fails, or is the last thing the process does.
SaveCutShort ==
  /\ Saving /\ counts.torn < MaxTorn
  /\ snaps' = Put(snaps, Len(past), Torn)
  /\ Count("torn")
  /\ UNCHANGED <<vars, phase, todo, after, life, log, past>>

(***************************************************************************)
(* Crashes and restarts.                                                   *)
(***************************************************************************)

\* What is left of the log when its end is lost for some processes.
WithoutEnds(lives) ==
  {SelectSeq(log, LAMBDA rec : rec.life \in lives => rec.seq <= kept[rec.life]) :
     kept \in [lives -> 0 .. MaxRecords]}

Crash ==
  /\ phase # "down"
  /\ phase' = "down"
  /\ book' = EmptyBook /\ stack' = <<>> /\ out' = <<>> /\ cmd' = None
  /\ todo' = <<>> /\ after' = 0
  /\ UNCHANGED <<life, past>>

\* The BufWriter is lost.
Kill ==
  /\ counts.kills < MaxKills
  /\ Crash
  /\ Count("kills")
  /\ log' \in WithoutEnds(IF phase = "live" THEN {life} ELSE {})
  /\ UNCHANGED snaps

\* Besides, what was not synced: snapshots are gone or cut, ends of segments too.
PowerFailure ==
  /\ counts.outages < MaxOutages
  /\ Crash
  /\ Count("outages")
  /\ log' \in WithoutEnds(1 .. life)
  /\ \E kept \in SUBSET DOMAIN snaps : \E torn \in SUBSET kept :
       snaps' = [n \in kept |-> IF n \in torn THEN Torn ELSE snaps[n]]

\* Engine::start: the books are new, the log is opened and not read.
Start ==
  /\ phase = "down" /\ life < MaxLives
  /\ phase' = "live"
  /\ life' = life + 1
  /\ past' = <<>>
  /\ UNCHANGED <<vars, todo, after, log, snaps, counts>>

(***************************************************************************)
(* A recovery: latest_snapshot, load_snapshot, replay.                     *)
(***************************************************************************)

\* latest_snapshot: the greatest name.
Latest == Max(DOMAIN snaps)

\* Mutant: the last trade is not taken over.
WithoutLastTrade(snap) == EmptyBook

FreshBook(snap) == [EmptyBook EXCEPT !.last = snap.last_trade]

\* Mutant: the record the snapshot ends with is replayed once more.
FromSnapshotOn(rec) == rec.seq >= after

AfterSnapshot(rec) == rec.seq > after

ReplayAll == todo' = log /\ phase' = "replaying"

Recover ==
  /\ phase = "down"
  /\ \/ /\ snaps = << >>
        /\ ReplayAll
        /\ UNCHANGED <<vars, after>>
     \/ /\ snaps # << >> /\ snaps[Latest] = Torn
        /\ phase' = "failed"
        /\ UNCHANGED <<vars, todo, after>>
     \/ /\ snaps # << >> /\ snaps[Latest] # Torn
        /\ phase' = "loading"
        /\ book' = FreshBook(snaps[Latest])
        /\ todo' = snaps[Latest].orders /\ after' = Latest
        /\ UNCHANGED <<stack, out, cmd>>
  /\ UNCHANGED recovery

\* Mutant: the order is not indexed.
LoadedUnindexed(so) ==
  InsertResting(ArenaInsert(book, so @@ [prev |-> None, next |-> None]), VacantSlot(book))

\* One turn of load_snapshot's loop: every order is inserted as a resting one,
\* at its limit price, stops included.
Loaded(so) ==
  LET slot  == VacantSlot(book)
      order == so @@ [prev |-> None, next |-> None]
  IN  InsertResting(
        IndexInsert(ArenaInsert(book, order), so.id,
                    [slot |-> slot, side |-> so.side, price |-> so.price]),
        slot)

LoadOrder ==
  /\ phase = "loading" /\ todo # <<>>
  /\ book' = Loaded(Head(todo))
  /\ todo' = Tail(todo)
  /\ UNCHANGED <<stack, out, cmd, phase, after, recovery>>

StartReplay ==
  /\ phase = "loading" /\ todo = <<>>
  /\ todo' = SelectSeq(log, AfterSnapshot)
  /\ phase' = "replaying"
  /\ UNCHANGED <<vars, after, recovery>>

\* Mutant: the reader does not go on behind the record.
SameRecord == todo

BehindRecord == Tail(todo)

ReplayRecord ==
  /\ phase = "replaying" /\ todo # <<>>
  /\ Receive /\ cmd' = Head(todo).cmd
  /\ todo' = BehindRecord
  /\ UNCHANGED <<phase, after, recovery>>

EndReplay ==
  /\ phase = "replaying" /\ todo = <<>> /\ Idle
  /\ phase' = "recovered"
  /\ UNCHANGED <<vars, todo, after, recovery>>

RecoveryInit ==
  /\ Init
  /\ phase = "live" /\ life = 1
  /\ log = <<>> /\ snaps = << >>
  /\ todo = <<>> /\ after = 0
  /\ past = <<>>
  /\ counts = [records |-> 0, saves |-> 0, torn |-> 0, kills |-> 0, outages |-> 0]

Recovering == \/ LoadOrder \/ StartReplay \/ ReplayRecord \/ EndReplay
              \/ phase = "replaying" /\ (ApplyOn \/ Done)

RecoveryNext == \/ LogAndApply \/ ApplyOn \/ Done
                \/ Save \/ SaveCutShort
                \/ Kill \/ PowerFailure \/ Start
                \/ Recover \/ Recovering

RecoverySpec == RecoveryInit /\ [][RecoveryNext]_rvars

\* A process that recovers goes on unless it is killed.
FairRecoverySpec == RecoverySpec /\ WF_rvars(Recovering)

(***************************************************************************)
(* Properties.                                                             *)
(***************************************************************************)

SetOf(queues) == [q \in DOMAIN queues |-> ToSet(queues[q])]

\* A loaded book has the orders the saved one had, at the same prices with what
\* was open of them, and its last trade: all but their places in the queues.
LoadedIsSaved ==
  (phase = "loading" /\ todo = <<>> /\ snaps[after].life = life) =>
    [View EXCEPT !.queues = SetOf(@)] = [past[after] EXCEPT !.queues = SetOf(@)]

\* The last command of the process that crashed which a recovery can know of:
\* its record or a snapshot survived.
LastKnown ==
  Max({0} \cup {log[i].seq : i \in {j \in DOMAIN log : log[j].life = life}}
          \cup IF after # 0 /\ snaps[after].life = life THEN {after} ELSE {})

OneLife == /\ \A i \in DOMAIN log : log[i].life = life
           /\ after # 0 => snaps[after].life = life

\* The live book after its n-th command.
BookAfter(n) ==
  IF n = 0 THEN [queues |-> << >>, waiting |-> {}, last |-> None] ELSE past[n]

\* What a crash leaves of one process gives its book back as it was after the
\* last command that survived, however the ends of the log and the snapshot
\* lie, if the snapshot has no two orders at one price: none is replayed twice
\* or left out.
ExactWithoutTies ==
  (/\ phase = "recovered" /\ OneLife /\ LastKnown <= Len(past)
   /\ \A q \in DOMAIN BookAfter(after).queues : Len(BookAfter(after).queues[q]) = 1)
  => View = BookAfter(LastKnown)

\* A recovery ends, unless it is killed in turn.
RecoveryEnds == phase \in {"loading", "replaying"} ~> phase \notin {"loading", "replaying"}

\* A recovery succeeds and leads to the book of the process that crashed, as it
\* was after the last command that survived.
RecoveredIsLive ==
  /\ phase # "failed"
  /\ (phase = "recovered" /\ LastKnown <= Len(past)) => View = BookAfter(LastKnown)

=============================================================================
