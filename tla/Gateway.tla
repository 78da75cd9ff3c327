-------------------------------- MODULE Gateway --------------------------------
(***************************************************************************)
(* The TCP gateway: a session per client reads lines, submits what parses  *)
(* as a command, and answers each line before it reads the next. A session *)
(* is one of Engine's producers. Clients come once and may close their     *)
(* connection at any time; what they had sent may still be read, and a     *)
(* write to them may fail or be lost. They may also leave their answers    *)
(* unread, and send lines that are not text.                               *)
(*                                                                         *)
(* Blank lines are skipped and change nothing. No session ever shuts the   *)
(* engine down.                                                            *)
(***************************************************************************)
EXTENDS Engine

CONSTANT MaxBad   \* bound: lines of a session that are no command

VARIABLES
  session,   \* session -> where it is and the answer it is about to write
  asked,     \* session -> how many lines it has taken from its client
  bad,       \* those of them that are no command
  told,      \* session -> the answers that reached its client
  closed     \* the clients that have closed their connection

sessions == <<session, asked, bad, told, closed>>

Ack(seq)   == [t |-> "submitted", seq |-> seq]
Error(msg) == [t |-> "error", msg |-> msg]

Proceed(p, at, answer) == session' = [session EXCEPT ![p] = [at |-> at, answer |-> answer]]

Reading(p) == /\ session[p].at = "read"
              /\ asked' = [asked EXCEPT ![p] = @ + 1]

\* A line that is a command goes to Engine::submit, whose steps are Sequence
\* and TryPush or Refuse.
ReadCommand(p) ==
  /\ Reading(p)
  /\ Sequence(p)
  /\ Proceed(p, "submit", None)
  /\ UNCHANGED <<bad, told, closed>>

ReadBadLine(p) ==
  /\ Reading(p) /\ bad[p] < MaxBad
  /\ bad' = [bad EXCEPT ![p] = @ + 1]
  /\ Proceed(p, "write", Error("parse"))
  /\ UNCHANGED <<vars, told, closed>>

\* next_line takes a line that is not UTF-8 and returns an error: the session ends
\* without an answer, its client connected or not, as "failed".
ReadGarbage(p) ==
  /\ Reading(p) /\ bad[p] < MaxBad
  /\ bad' = [bad EXCEPT ![p] = @ + 1]
  /\ Proceed(p, "failed", None)
  /\ UNCHANGED <<vars, told, closed>>

\* next_line finds no further line: the client has closed, is cut off, or has said
\* that it sends no more, though it may still read.
EndOfInput(p) ==
  /\ session[p].at = "read"
  /\ Proceed(p, "ended", None)
  /\ UNCHANGED <<vars, asked, bad, told, closed>>

\* Mutant: a command the ring refused is answered like any other.
AckRefused(p) == Ack(submitting[p].seq)

RingFull(p) == Error("ring_full")

Submit(p) ==
  /\ session[p].at = "submit"
  /\ \/ TryPush(p) /\ Proceed(p, "write", Ack(submitting[p].seq))
     \/ Refuse(p)  /\ Proceed(p, "write", RingFull(p))
  /\ UNCHANGED <<asked, bad, told, closed>>

\* After a failed write the session ends only if it had a submission to confirm.
FailedWrite(p) ==
  Proceed(p, IF session[p].answer.t = "submitted" THEN "ended" ELSE "read", None)

GoOnReading(p) == Proceed(p, "read", None)

\* write_all returns when the client has read on far enough, or is gone.
Write(p) ==
  /\ session[p].at = "write"
  /\ \/ /\ p \notin closed
        /\ told' = [told EXCEPT ![p] = Append(@, session[p].answer)]
        /\ GoOnReading(p)
     \/ /\ p \in closed
        /\ GoOnReading(p) \/ FailedWrite(p)
        /\ UNCHANGED told
  /\ UNCHANGED <<vars, asked, bad, closed>>

CloseClient(p) ==
  /\ p \notin closed
  /\ closed' = closed \cup {p}
  /\ UNCHANGED <<vars, session, asked, bad, told>>

GatewayInit ==
  /\ Init
  /\ session = [p \in Producer |-> [at |-> "read", answer |-> None]]
  /\ asked = [p \in Producer |-> 0] /\ bad = [p \in Producer |-> 0]
  /\ told = [p \in Producer |-> <<>>]
  /\ closed = {}

\* What a session does on its own; a line must come from the client.
Answer(p) == Submit(p) \/ Write(p)

GatewayNext == \/ \E p \in Producer :
                    \/ ReadCommand(p) \/ ReadBadLine(p) \/ ReadGarbage(p) \/ EndOfInput(p)
                    \/ Answer(p) \/ CloseClient(p)
               \/ \E s \in Shard : RunShard(s) /\ UNCHANGED sessions

(***************************************************************************)
(* Properties.                                                             *)
(***************************************************************************)

\* The answers of a session, the one it is about to write included.
Answers(p) == told[p] \o IF session[p].at = "write" THEN <<session[p].answer>> ELSE <<>>

Acks == [t : {"submitted"}, seq : Nat]

Numbers(s) == [i \in DOMAIN s |-> s[i].seq]

\* How many of the lines it has taken a session has not answered: the command it is
\* submitting, or the line that made next_line fail.
Unanswered(p) == IF session[p].at \in {"submit", "failed"} THEN 1 ELSE 0

\* A client that is connected is told of exactly the commands the rings have taken,
\* in order and with their numbers, and has one answer for every line the session
\* has taken, but for a line that ended it; one that has gone away was told of the
\* first of them.
AnswersAreTrue ==
  \A p \in Producer :
    IF p \in closed
      THEN IsPrefix(Numbers(Only(told[p], Acks)), Numbers(accepted[p]))
      ELSE /\ Numbers(Only(Answers(p), Acks)) = Numbers(accepted[p])
           /\ Len(Answers(p)) + Unanswered(p) = asked[p]

=============================================================================
