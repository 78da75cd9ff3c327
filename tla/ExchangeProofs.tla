---------------------------- MODULE ExchangeProofs ----------------------------
(***************************************************************************)
(* What holds of Exchange for any number of sessions, clients, shards and  *)
(* symbols and any capacities: the gateway uses the engine as Engine says, *)
(* its answers are true, and a client of the feed misses only what was     *)
(* overwritten.                                                            *)
(***************************************************************************)
EXTENDS Exchange, EngineProofs

(***************************************************************************)
(* The engine behind the gateway.                                          *)
(***************************************************************************)

\* Whatever sessions, consumer and feed do, the engine makes only the steps of
\* Engine, so that all that is proved of it holds here.
LEMMA EngineStep == [ExchangeNext]_xvars => [Next]_vars
<1>1. ASSUME NEW p \in Producer,
             \/ ReadCommand(p) \/ ReadBadLine(p) \/ ReadGarbage(p) \/ EndOfInput(p)
             \/ Answer(p) \/ CloseClient(p)
      PROVE  [Next]_vars
  BY <1>1 DEF ReadCommand, ReadBadLine, ReadGarbage, EndOfInput, Answer, Submit, Write,
              CloseClient, Next
<1>2. ASSUME NEW s \in Shard, RunShard(s)
      PROVE  [Next]_vars
  BY <1>2 DEF Next
<1>3. GatewayNext => [Next]_vars
  BY <1>1, <1>2 DEF GatewayNext
<1>4. UNCHANGED xvars => UNCHANGED vars
  BY DEF xvars
<1> QED BY <1>3, <1>4 DEF ExchangeNext

\* The exchange with its gateway and feed implements the engine on its own.
THEOREM ImplementsEngine == ExchangeSpec => Spec
<1>1. ExchangeInit => Init
  BY DEF ExchangeInit, GatewayInit
<1> QED BY <1>1, EngineStep, PTL DEF ExchangeSpec, Spec

LEMMA EngineTyped == ExchangeSpec => []TypeOK
BY ImplementsEngine, TypeCorrect, PTL

(***************************************************************************)
(* Answers. Between two lines a session has answered all of them, and the  *)
(* acknowledgements among the answers are the accepted commands.           *)
(***************************************************************************)

Reply == Acks \cup {Error("parse"), Error("ring_full")}

SessionsOK ==
  /\ session \in [Producer -> [at : {"read", "submit", "write", "ended", "failed"},
                               answer : Reply \cup {None}]]
  /\ \A p \in Producer : session[p].at = "write" => session[p].answer \in Reply
  /\ asked \in [Producer -> Nat] /\ told \in [Producer -> Seq(Reply)]

\* AnswersAreTrue for one session.
Truthful(p) ==
  IF p \in closed
    THEN IsPrefix(Numbers(Only(told[p], Acks)), Numbers(accepted[p]))
    ELSE /\ Numbers(Only(Answers(p), Acks)) = Numbers(accepted[p])
         /\ Len(Answers(p)) + Unanswered(p) = asked[p]

LEMMA TruthfulIs == AnswersAreTrue <=> \A p \in Producer : Truthful(p)
BY DEF AnswersAreTrue, Truthful

LEMMA Replies ==
  /\ \A n \in Nat : Ack(n) \in Acks /\ Ack(n).seq = n
  /\ \A msg \in {"parse", "ring_full"} : Error(msg) \in Reply \ Acks
  /\ Reply \cap Acks = Acks
<1>1. \A msg \in {"parse", "ring_full"} : Error(msg).t # "submitted"
  BY DEF Error
<1> QED BY <1>1 DEF Ack, Acks, Error, Reply

LEMMA ProceedType ==
  ASSUME SessionsOK, NEW p \in Producer, NEW step, NEW answer, Proceed(p, step, answer),
         \/ step \in {"read", "submit", "ended", "failed"} /\ answer = None
         \/ step = "write" /\ answer \in Reply
  PROVE  /\ session' \in [Producer -> [at : {"read", "submit", "write", "ended", "failed"},
                                       answer : Reply \cup {None}]]
         /\ \A q \in Producer : session'[q].at = "write" => session'[q].answer \in Reply
         /\ session'[p].at = step /\ session'[p].answer = answer
         /\ \A q \in Producer \ {p} : session'[q] = session[q]
<1> DEFINE new == [at |-> step, answer |-> answer]
<1>1. new \in [at : {"read", "submit", "write", "ended", "failed"}, answer : Reply \cup {None}]
  OBVIOUS
<1>2. session' = [session EXCEPT ![p] = new]
  BY DEF Proceed
<1>3. session'[p] = new /\ \A q \in Producer \ {p} : session'[q] = session[q]
  BY <1>2 DEF SessionsOK
<1> QED BY <1>1, <1>2, <1>3 DEF SessionsOK

(***************************************************************************)
(* Numbers and prefixes of sequences.                                      *)
(***************************************************************************)

LEMMA NumbersType ==
  ASSUME NEW X, \A x \in X : x.seq \in Nat, NEW s \in Seq(X)
  PROVE  /\ Numbers(s) \in Seq(Nat) /\ Len(Numbers(s)) = Len(s)
         /\ \A i \in 1 .. Len(s) : Numbers(s)[i] = s[i].seq
<1>1. Len(s) \in Nat /\ DOMAIN s = 1 .. Len(s) /\ \A i \in 1 .. Len(s) : s[i] \in X
  BY LenProperties, ElementOfSeq
<1>2. Numbers(s) = [i \in 1 .. Len(s) |-> s[i].seq]
  BY <1>1 DEF Numbers
<1>3. Numbers(s) \in [1 .. Len(s) -> Nat]
  BY <1>1, <1>2
<1> QED BY <1>1, <1>2, <1>3

\* Sequences with the same numbers keep them the same when they grow by elements
\* with the same number.
LEMMA NumbersGrow ==
  ASSUME NEW X, \A x \in X : x.seq \in Nat, NEW s \in Seq(X), NEW e \in X,
         NEW Y, \A y \in Y : y.seq \in Nat, NEW t \in Seq(Y), NEW f \in Y,
         Numbers(s) = Numbers(t), e.seq = f.seq
  PROVE  Numbers(Append(s, e)) = Numbers(Append(t, f))
<1> DEFINE u == Append(s, e)
           v == Append(t, f)
<1>1. /\ Len(s) = Len(t) /\ Len(s) \in Nat
      /\ \A i \in 1 .. Len(s) : s[i].seq = t[i].seq
  BY NumbersType, LenProperties
<1>2. /\ u \in Seq(X) /\ Len(u) = Len(s) + 1 /\ u[Len(s) + 1] = e
      /\ \A i \in 1 .. Len(s) : u[i] = s[i]
  BY AppendProperties
<1>3. /\ v \in Seq(Y) /\ Len(v) = Len(s) + 1 /\ v[Len(s) + 1] = f
      /\ \A i \in 1 .. Len(s) : v[i] = t[i]
  BY <1>1, AppendProperties
<1> HIDE DEF u, v
<1>4. /\ Numbers(u) \in Seq(Nat) /\ Len(Numbers(u)) = Len(s) + 1
      /\ \A i \in 1 .. Len(s) + 1 : Numbers(u)[i] = u[i].seq
  BY <1>2, NumbersType
<1>5. /\ Numbers(v) \in Seq(Nat) /\ Len(Numbers(v)) = Len(s) + 1
      /\ \A i \in 1 .. Len(s) + 1 : Numbers(v)[i] = v[i].seq
  BY <1>3, NumbersType
<1>6. \A i \in 1 .. Len(s) + 1 : u[i].seq = v[i].seq
  <2> TAKE i \in 1 .. Len(s) + 1
  <2>1. CASE i \in 1 .. Len(s)
    BY <1>1, <1>2, <1>3, <2>1
  <2>2. CASE i = Len(s) + 1
    BY <1>2, <1>3, <2>2
  <2> QED BY <1>1, <2>1, <2>2
<1>7. Numbers(u) = Numbers(v)
  BY ZenonT(60), <1>4, <1>5, <1>6, SeqEqual
<1> QED BY <1>7 DEF u, v

LEMMA PrefixIs ==
  ASSUME NEW X, NEW s \in Seq(X), NEW t \in Seq(X)
  PROVE  IsPrefix(s, t) <=> Len(s) <= Len(t) /\ \A i \in 1 .. Len(s) : s[i] = t[i]
<1>1. Len(s) \in Nat /\ Len(t) \in Nat /\ \A i \in 1 .. Len(s) : s[i] \in X
  BY LenProperties, ElementOfSeq
<1> DEFINE n == Len(s)
           u == SubSeq(s, 1, n)
           v == SubSeq(t, 1, n)
<1>2. /\ u \in Seq(X) /\ Len(u) = n /\ \A i \in 1 .. n : u[i] = s[i]
  BY <1>1, SubSeqProperties
<1>3. ASSUME n <= Len(t)
      PROVE  v \in Seq(X) /\ Len(v) = n /\ \A i \in 1 .. n : v[i] = t[i]
  <2>1. \A i \in 1 .. n : t[i] \in X
    BY <1>1, <1>3, ElementOfSeq
  <2> QED BY <1>1, <2>1, SubSeqProperties
<1> HIDE DEF u, v
<1>4. ASSUME n <= Len(t), \A i \in 1 .. n : s[i] = t[i]
      PROVE  u = v
  BY <1>2, <1>3, <1>4, SeqEqual
<1>5. ASSUME n <= Len(t), u = v
      PROVE  \A i \in 1 .. n : s[i] = t[i]
  BY <1>2, <1>3, <1>5
<1> QED BY <1>4, <1>5 DEF IsPrefix, u, v

\* Numbers of a prefix are a prefix, and stay one when the other grows.
LEMMA PrefixGrows ==
  ASSUME NEW X, \A x \in X : x.seq \in Nat, NEW s \in Seq(X), NEW e \in X,
         NEW Y, \A y \in Y : y.seq \in Nat, NEW u \in Seq(Y),
         IsPrefix(Numbers(u), Numbers(s))
  PROVE  IsPrefix(Numbers(u), Numbers(Append(s, e)))
<1> DEFINE v == Append(s, e)
<1>1. v \in Seq(X) /\ Len(v) = Len(s) + 1 /\ Len(s) \in Nat /\ \A i \in 1 .. Len(s) : v[i] = s[i]
  BY AppendProperties, LenProperties
<1> HIDE DEF v
<1>2. /\ Numbers(v) \in Seq(Nat) /\ Len(Numbers(v)) = Len(s) + 1
      /\ \A i \in 1 .. Len(s) : Numbers(v)[i] = s[i].seq
  BY <1>1, NumbersType
<1>3. /\ Numbers(s) \in Seq(Nat) /\ Len(Numbers(s)) = Len(s)
      /\ \A i \in 1 .. Len(s) : Numbers(s)[i] = s[i].seq
  BY NumbersType
<1>4. Numbers(u) \in Seq(Nat) /\ Len(Numbers(u)) \in Nat
  BY NumbersType, LenProperties
<1>5. Len(Numbers(u)) <= Len(s) /\ \A i \in 1 .. Len(Numbers(u)) : Numbers(u)[i] = Numbers(s)[i]
  BY <1>3, <1>4, PrefixIs
<1>6. \A i \in 1 .. Len(Numbers(u)) : Numbers(u)[i] = Numbers(v)[i]
  <2> TAKE i \in 1 .. Len(Numbers(u))
  <2>1. i \in 1 .. Len(s)
    BY <1>1, <1>4, <1>5
  <2>2. Numbers(v)[i] = s[i].seq /\ Numbers(s)[i] = s[i].seq
    BY <1>2, <1>3, <2>1
  <2> QED BY <1>5, <2>2
<1>7. Len(Numbers(u)) <= Len(Numbers(v))
  BY <1>1, <1>2, <1>4, <1>5
<1> QED BY <1>2, <1>4, <1>6, <1>7, PrefixIs DEF v

LEMMA PrefixOfSame ==
  ASSUME NEW X, \A x \in X : x.seq \in Nat, NEW s \in Seq(X), NEW e \in X
  PROVE  /\ IsPrefix(Numbers(s), Numbers(s))
         /\ IsPrefix(Numbers(s), Numbers(Append(s, e)))
<1>1. IsPrefix(Numbers(s), Numbers(s))
  <2>1. Numbers(s) \in Seq(Nat) /\ Len(Numbers(s)) \in Nat
    BY NumbersType, LenProperties
  <2> QED BY <2>1, PrefixIs
<1> QED BY <1>1, PrefixGrows

(***************************************************************************)
(* Each step of a session.                                                 *)
(***************************************************************************)

LEMMA Told ==
  ASSUME NEW t \in Seq(Reply), NEW a \in Reply
  PROVE  /\ t \o <<>> = t /\ t \o <<a>> = Append(t, a)
         /\ Append(t, a) \in Seq(Reply) /\ Len(Append(t, a)) = Len(t) + 1
         /\ Len(t) \in Nat
         /\ Only(t, Acks) \in Seq(Acks)
         /\ a \in Acks => Only(Append(t, a), Acks) = Append(Only(t, Acks), a)
         /\ a \notin Acks => Only(Append(t, a), Acks) = Only(t, Acks)
<1>1. t \o <<>> = t
  BY ConcatEmptySeq
<1>2. <<>> \in Seq(Reply) /\ Append(<<>>, a) = <<a>>
  BY EmptySeq, Single
<1>3. t \o <<a>> = Append(t, a)
  BY <1>1, <1>2, ConcatThenAppend
<1>4. Only(t, Acks) \in Seq(Acks)
  <2>1. Only(t, Acks) \in Seq(Reply \cap Acks)
    BY OnlyType
  <2> QED BY <2>1, Replies
<1> QED BY <1>1, <1>3, <1>4, OnlyAppend, AppendProperties, LenProperties

LEMMA SeqNumbers == (\A a \in Acks : a.seq \in Nat) /\ (\A cmd \in Command : cmd.seq \in Nat)
BY DEF Acks, Command

LEMMA TruthfulKept ==
  ASSUME NEW q \in Producer, Truthful(q),
         session'[q] = session[q], told'[q] = told[q], asked'[q] = asked[q],
         accepted'[q] = accepted[q], q \in closed' <=> q \in closed
  PROVE  Truthful(q)'
BY DEF Truthful, Unanswered, Answers

\* Another session may have done something.
LEMMA OthersKept ==
  ASSUME AnswersAreTrue, NEW p \in Producer, Truthful(p)',
         \A q \in Producer \ {p} :
           /\ session'[q] = session[q] /\ told'[q] = told[q] /\ asked'[q] = asked[q]
           /\ accepted'[q] = accepted[q] /\ (q \in closed' <=> q \in closed)
  PROVE  AnswersAreTrue'
<1>1. \A q \in Producer : Truthful(q)
  BY TruthfulIs
<1>2. \A q \in Producer \ {p} : Truthful(q)'
  BY <1>1, TruthfulKept
<1>3. \A q \in Producer : Truthful(q)'
  BY <1>2
<1> QED BY <1>3 DEF AnswersAreTrue, Truthful

LEMMA ReadStep ==
  ASSUME TypeOK, SessionsOK, AnswersAreTrue, NEW p \in Producer,
         ReadCommand(p) \/ ReadBadLine(p) \/ ReadGarbage(p) \/ EndOfInput(p)
  PROVE  SessionsOK' /\ AnswersAreTrue'
<1>1. Truthful(p) /\ session[p].at = "read" /\ told[p] \in Seq(Reply)
  BY TruthfulIs DEF ReadCommand, ReadBadLine, ReadGarbage, EndOfInput, Reading, SessionsOK
<1>2. accepted' = accepted /\ told' = told /\ closed' = closed
  BY DEF ReadCommand, ReadBadLine, ReadGarbage, EndOfInput, Sequence, vars, producers
<1>3. Answers(p) = told[p]
  BY <1>1, Replies, Told DEF Answers
<1>4. CASE ReadCommand(p)
  <2>1. Proceed(p, "submit", None) /\ asked' = [asked EXCEPT ![p] = @ + 1]
    BY <1>4 DEF ReadCommand, Reading
  <2>2. SessionsOK'
    BY <1>2, <2>1, ProceedType DEF SessionsOK
  <2>3. session'[p].at = "submit" /\ \A q \in Producer \ {p} : session'[q] = session[q]
    BY <2>1, ProceedType
  <2>4. Answers(p)' = told[p]
    BY <1>1, <1>2, <2>3, Replies, Told DEF Answers
  <2>5. asked'[p] = asked[p] + 1 /\ asked[p] \in Nat /\ Len(told[p]) \in Nat
    BY <1>1, <2>1, LenProperties DEF SessionsOK
  <2>6. Truthful(p)'
    BY <1>1, <1>2, <1>3, <2>3, <2>4, <2>5 DEF Truthful, Unanswered
  <2> QED BY <1>2, <2>1, <2>2, <2>3, <2>6, OthersKept DEF SessionsOK
<1>5. CASE ReadBadLine(p)
  <2> DEFINE a == Error("parse")
  <2>0. a \in Reply /\ a \notin Acks
    BY Replies
  <2>1. Proceed(p, "write", a) /\ asked' = [asked EXCEPT ![p] = @ + 1]
    BY <1>5 DEF ReadBadLine, Reading
  <2> HIDE DEF a
  <2>2. SessionsOK'
    BY <1>2, <2>0, <2>1, ProceedType DEF SessionsOK
  <2>3. /\ session'[p].at = "write" /\ session'[p].answer = a
        /\ \A q \in Producer \ {p} : session'[q] = session[q]
    BY <2>0, <2>1, ProceedType
  <2>4. Answers(p)' = Append(told[p], a)
    BY <1>1, <1>2, <2>0, <2>3, Told DEF Answers
  <2>5. asked'[p] = asked[p] + 1 /\ asked[p] \in Nat
    BY <2>1 DEF SessionsOK
  <2>6. Truthful(p)'
    BY <1>1, <1>2, <1>3, <2>0, <2>3, <2>4, <2>5, Told DEF Truthful, Unanswered
  <2> QED BY <1>2, <2>1, <2>2, <2>3, <2>6, OthersKept DEF SessionsOK
<1>6. CASE EndOfInput(p)
  <2>1. Proceed(p, "ended", None) /\ asked' = asked
    BY <1>6 DEF EndOfInput
  <2>2. SessionsOK'
    BY <1>2, <2>1, ProceedType DEF SessionsOK
  <2>3. session'[p].at = "ended" /\ \A q \in Producer \ {p} : session'[q] = session[q]
    BY <2>1, ProceedType
  <2>4. Answers(p)' = told[p]
    BY <1>1, <1>2, <2>3, Replies, Told DEF Answers
  <2>5. Truthful(p)'
    BY <1>1, <1>2, <1>3, <2>1, <2>3, <2>4 DEF Truthful, Unanswered
  <2> QED BY <1>2, <2>1, <2>2, <2>3, <2>5, OthersKept
<1>7. CASE ReadGarbage(p)
  <2>1. Proceed(p, "failed", None) /\ asked' = [asked EXCEPT ![p] = @ + 1]
    BY <1>7 DEF ReadGarbage, Reading
  <2>2. SessionsOK'
    BY <1>2, <2>1, ProceedType DEF SessionsOK
  <2>3. session'[p].at = "failed" /\ \A q \in Producer \ {p} : session'[q] = session[q]
    BY <2>1, ProceedType
  <2>4. Answers(p)' = told[p]
    BY <1>1, <1>2, <2>3, Replies, Told DEF Answers
  <2>5. asked'[p] = asked[p] + 1 /\ asked[p] \in Nat /\ Len(told[p]) \in Nat
    BY <1>1, <2>1, LenProperties DEF SessionsOK
  <2>6. Truthful(p)'
    BY <1>1, <1>2, <1>3, <2>3, <2>4, <2>5 DEF Truthful, Unanswered
  <2> QED BY <1>2, <2>1, <2>2, <2>3, <2>6, OthersKept DEF SessionsOK
<1> QED BY <1>4, <1>5, <1>6, <1>7

LEMMA SubmitStep ==
  ASSUME TypeOK, SessionsOK, AnswersAreTrue, NEW p \in Producer, Submit(p)
  PROVE  SessionsOK' /\ AnswersAreTrue'
<1>1. Truthful(p) /\ session[p].at = "submit" /\ told[p] \in Seq(Reply)
  BY TruthfulIs DEF Submit, SessionsOK
<1>2. told' = told /\ closed' = closed /\ asked' = asked
  BY DEF Submit
<1>3. Answers(p) = told[p]
  BY <1>1, Replies, Told DEF Answers
<1>4. asked[p] \in Nat /\ accepted[p] \in Seq(Command)
  BY DEF SessionsOK, TypeOK
<1>5. CASE TryPush(p) /\ Proceed(p, "write", Ack(submitting[p].seq))
  <2> DEFINE cmd == submitting[p]
             a == Ack(cmd.seq)
  <2>1. /\ accepted'[p] = Append(accepted[p], cmd) /\ cmd \in Command /\ cmd.seq \in Nat
        /\ \A q \in Producer \ {p} : accepted'[q] = accepted[q]
    BY <1>5, PushAccepts
  <2>2. a \in Acks /\ a \in Reply /\ a.seq = cmd.seq
    BY <2>1, Replies DEF Reply
  <2> HIDE DEF a
  <2>3. Proceed(p, "write", a)
    BY <1>5 DEF a
  <2>4. SessionsOK'
    BY <1>2, <2>2, <2>3, ProceedType DEF SessionsOK
  <2>5. /\ session'[p].at = "write" /\ session'[p].answer = a
        /\ \A q \in Producer \ {p} : session'[q] = session[q]
    BY <2>2, <2>3, ProceedType
  <2>6. Answers(p)' = Append(told[p], a)
    BY <1>1, <1>2, <2>2, <2>5, Told DEF Answers
  <2>7. CASE p \in closed
    <3>1. IsPrefix(Numbers(Only(told[p], Acks)), Numbers(accepted[p]))
      BY <1>1, <2>7 DEF Truthful
    <3>2. Only(told[p], Acks) \in Seq(Acks)
      BY <1>1, <2>2, Told
    <3>3. IsPrefix(Numbers(Only(told[p], Acks)), Numbers(Append(accepted[p], cmd)))
      BY <1>4, <2>1, <3>1, <3>2, PrefixGrows, SeqNumbers
    <3>4. Truthful(p)'
      BY <1>2, <2>1, <2>7, <3>3 DEF Truthful
    <3> QED BY <1>2, <2>1, <2>4, <2>5, <3>4, OthersKept
  <2>8. CASE p \notin closed
    <3>1. /\ Numbers(Only(told[p], Acks)) = Numbers(accepted[p])
          /\ Len(told[p]) + 1 = asked[p]
      BY <1>1, <1>3, <2>8 DEF Truthful, Unanswered
    <3>2. /\ Only(told[p], Acks) \in Seq(Acks)
          /\ Only(Append(told[p], a), Acks) = Append(Only(told[p], Acks), a)
          /\ Len(Append(told[p], a)) = Len(told[p]) + 1 /\ Len(told[p]) \in Nat
      BY <1>1, <2>2, Told
    <3>3. Numbers(Append(Only(told[p], Acks), a)) = Numbers(Append(accepted[p], cmd))
      BY SMTT(60), <1>4, <2>1, <2>2, <3>1, <3>2, NumbersGrow, SeqNumbers
    <3>4. Truthful(p)'
      BY <1>2, <2>1, <2>5, <2>6, <2>8, <3>1, <3>2, <3>3 DEF Truthful, Unanswered
    <3> QED BY <1>2, <2>1, <2>4, <2>5, <3>4, OthersKept
  <2> QED BY <2>7, <2>8
<1>6. CASE Refuse(p) /\ Proceed(p, "write", RingFull(p))
  <2> DEFINE a == RingFull(p)
  <2>1. a \in Reply /\ a \notin Acks
    BY Replies DEF RingFull
  <2>2. accepted' = accepted
    BY <1>6 DEF Refuse, NotAccepted
  <2> HIDE DEF a
  <2>3. Proceed(p, "write", a)
    BY <1>6 DEF a
  <2>4. SessionsOK'
    BY <1>2, <2>1, <2>3, ProceedType DEF SessionsOK
  <2>5. /\ session'[p].at = "write" /\ session'[p].answer = a
        /\ \A q \in Producer \ {p} : session'[q] = session[q]
    BY <2>1, <2>3, ProceedType
  <2>6. Answers(p)' = Append(told[p], a)
    BY <1>1, <1>2, <2>1, <2>5, Told DEF Answers
  <2>7. Truthful(p)'
    BY <1>1, <1>2, <1>3, <1>4, <2>1, <2>2, <2>5, <2>6, Told DEF Truthful, Unanswered
  <2> QED BY <1>2, <2>2, <2>4, <2>5, <2>7, OthersKept
<1> QED BY <1>5, <1>6 DEF Submit

LEMMA WriteStep ==
  ASSUME TypeOK, SessionsOK, AnswersAreTrue, NEW p \in Producer, Write(p)
  PROVE  SessionsOK' /\ AnswersAreTrue'
<1> DEFINE a == session[p].answer
<1>1. Truthful(p) /\ session[p].at = "write" /\ a \in Reply /\ told[p] \in Seq(Reply)
  BY TruthfulIs DEF Write, SessionsOK
<1>2. accepted' = accepted /\ closed' = closed /\ asked' = asked
  BY DEF Write, vars, producers
<1>3. \/ Proceed(p, "read", None)
      \/ p \in closed /\ Proceed(p, "ended", None)
  BY DEF Write, GoOnReading, FailedWrite
<1>4. /\ session' \in [Producer -> [at : {"read", "submit", "write", "ended", "failed"},
                                    answer : Reply \cup {None}]]
      /\ \A q \in Producer : session'[q].at = "write" => session'[q].answer \in Reply
      /\ session'[p].at \in {"read", "ended"}
      /\ \A q \in Producer \ {p} : session'[q] = session[q]
  BY <1>3, ProceedType
<1>5. CASE p \notin closed
  <2>1. told' = [told EXCEPT ![p] = Append(@, a)]
    BY <1>5 DEF Write
  <2> HIDE DEF a
  <2>2. /\ told'[p] = Append(told[p], a) /\ Append(told[p], a) \in Seq(Reply)
        /\ \A q \in Producer \ {p} : told'[q] = told[q]
    BY <1>1, <2>1, Told DEF SessionsOK
  <2>3. SessionsOK'
    BY <1>1, <1>2, <1>4, <2>1, <2>2 DEF SessionsOK
  <2>4. Answers(p) = Append(told[p], a)
    BY <1>1, Told DEF Answers, a
  <2>5. Answers(p)' = Append(told[p], a)
    <3>1. Answers(p)' = told'[p] \o <<>>
      BY <1>4 DEF Answers
    <3> QED BY <1>1, <2>2, <3>1, Told
  <2>6. Truthful(p)'
    BY <1>1, <1>2, <1>4, <1>5, <2>4, <2>5 DEF Truthful, Unanswered
  <2> QED BY <1>2, <1>4, <2>2, <2>3, <2>6, OthersKept
<1>6. CASE p \in closed
  <2>1. told' = told
    BY <1>6 DEF Write
  <2>2. SessionsOK'
    BY <1>2, <1>4, <2>1 DEF SessionsOK
  <2>3. Truthful(p)'
    BY <1>1, <1>2, <1>6, <2>1 DEF Truthful
  <2> QED BY <1>2, <1>4, <2>1, <2>2, <2>3, OthersKept
<1> QED BY <1>5, <1>6

LEMMA CloseStep ==
  ASSUME TypeOK, SessionsOK, AnswersAreTrue, NEW p \in Producer, CloseClient(p)
  PROVE  SessionsOK' /\ AnswersAreTrue'
<1>1. /\ Truthful(p) /\ p \notin closed /\ told[p] \in Seq(Reply)
      /\ session[p].at = "write" => session[p].answer \in Reply
  BY TruthfulIs DEF CloseClient, SessionsOK
<1>2. /\ accepted' = accepted /\ asked' = asked /\ told' = told /\ session' = session
      /\ closed' = closed \cup {p}
  BY DEF CloseClient, vars, producers
<1>3. SessionsOK'
  BY <1>2 DEF SessionsOK
<1>4. Numbers(Only(Answers(p), Acks)) = Numbers(accepted[p])
  BY <1>1 DEF Truthful
<1>5. IsPrefix(Numbers(Only(told[p], Acks)), Numbers(accepted[p]))
  <2> DEFINE t == told[p]
             a == session[p].answer
  <2>1. CASE session[p].at = "write"
    <3>1. Answers(p) = Append(t, a) /\ a \in Reply
      BY <1>1, <2>1, Told DEF Answers
    <3> HIDE DEF t, a
    <3>2. t \in Seq(Reply)
      BY <1>1 DEF t
    <3>3. Only(t, Acks) \in Seq(Acks)
      BY <3>1, <3>2, Told
    <3>4. CASE a \in Acks
      <4>1. Only(Append(t, a), Acks) = Append(Only(t, Acks), a)
        BY <3>1, <3>2, <3>4, Told
      <4>2. IsPrefix(Numbers(Only(t, Acks)), Numbers(Append(Only(t, Acks), a)))
        BY <3>3, <3>4, PrefixOfSame, SeqNumbers
      <4> QED BY <1>4, <3>1, <4>1, <4>2 DEF t
    <3>5. CASE a \notin Acks
      <4>1. Only(Append(t, a), Acks) = Only(t, Acks)
        BY <3>1, <3>2, <3>5, Told
      <4>2. IsPrefix(Numbers(Only(t, Acks)), Numbers(Only(t, Acks)))
        BY <3>3, Replies, PrefixOfSame, SeqNumbers
      <4> QED BY <1>4, <3>1, <4>1, <4>2 DEF t
    <3> QED BY <3>4, <3>5
  <2>2. CASE session[p].at # "write"
    <3>1. Answers(p) = t
      BY <1>1, <2>2, Replies, Told DEF Answers
    <3>2. Only(t, Acks) \in Seq(Acks) /\ Ack(0) \in Acks
      BY <1>1, Replies, Told
    <3> HIDE DEF t
    <3>3. IsPrefix(Numbers(Only(t, Acks)), Numbers(Only(t, Acks)))
      BY <3>2, PrefixOfSame, SeqNumbers
    <3> QED BY <1>4, <3>1, <3>3 DEF t
  <2> QED BY <2>1, <2>2
<1>6. Truthful(p)'
  BY <1>2, <1>5 DEF Truthful
<1> QED BY <1>2, <1>3, <1>6, OthersKept

LEMMA SessionsElse ==
  ASSUME TypeOK, SessionsOK, AnswersAreTrue,
         UNCHANGED <<session, asked, bad, told, closed>>, accepted' = accepted
  PROVE  SessionsOK' /\ AnswersAreTrue'
<1>1. session' = session /\ asked' = asked /\ told' = told /\ closed' = closed
  OBVIOUS
<1>2. \A p \in Producer : Truthful(p)
  BY TruthfulIs
<1>3. \A p \in Producer : Truthful(p)'
  BY <1>1, <1>2, TruthfulKept
<1> QED BY <1>1, <1>3 DEF SessionsOK, AnswersAreTrue, Truthful

SessionsInductive == TypeOK /\ SessionsOK /\ AnswersAreTrue

LEMMA SessionsInit == ExchangeInit => SessionsInductive
<1> SUFFICES ASSUME ExchangeInit PROVE SessionsInductive
  OBVIOUS
<1>1. Init /\ GatewayInit
  BY DEF ExchangeInit, GatewayInit
<1>2. TypeOK
  BY <1>1, TypeInit
<1>3. SessionsOK
  BY <1>1, EmptySeq DEF GatewayInit, SessionsOK
<1>4. ASSUME NEW p \in Producer
      PROVE  Truthful(p)
  <2>1. told[p] = <<>> /\ accepted[p] = <<>> /\ asked[p] = 0 /\ session[p].at = "read" /\ p \notin closed
    BY <1>1 DEF GatewayInit, Init
  <2>2. Answers(p) = <<>>
    BY <2>1 DEF Answers
  <2> QED BY <2>1, <2>2, OnlyEmpty DEF Truthful, Unanswered
<1> QED BY <1>2, <1>3, <1>4, TruthfulIs DEF SessionsInductive

LEMMA SessionsStep == SessionsInductive /\ [ExchangeNext]_xvars => SessionsInductive'
<1> SUFFICES ASSUME TypeOK, SessionsOK, AnswersAreTrue, [ExchangeNext]_xvars
             PROVE  TypeOK' /\ SessionsOK' /\ AnswersAreTrue'
  BY DEF SessionsInductive
<1>1. TypeOK'
  BY EngineStep, TypeStep
<1>2. ASSUME NEW p \in Producer,
             \/ ReadCommand(p) \/ ReadBadLine(p) \/ ReadGarbage(p) \/ EndOfInput(p)
             \/ Answer(p) \/ CloseClient(p)
      PROVE  SessionsOK' /\ AnswersAreTrue'
  BY <1>2, ReadStep, SubmitStep, WriteStep, CloseStep DEF Answer
<1>3. ASSUME NEW s \in Shard, RunShard(s), UNCHANGED sessions
      PROVE  SessionsOK' /\ AnswersAreTrue'
  <2>1. accepted' = accepted
    BY <1>3 DEF RunShard, Pop, Log, Apply, PassOver, Lock, Send, Forget, Unlock, Exit, producers
  <2> QED BY <1>3, <2>1, SessionsElse DEF sessions
<1>4. CASE GatewayNext
  BY <1>1, <1>2, <1>3, <1>4 DEF GatewayNext
<1>5. CASE UNCHANGED <<vars, sessions>>
  <2>1. accepted' = accepted
    BY <1>5 DEF vars, producers
  <2> QED BY <1>1, <1>5, <2>1, SessionsElse DEF sessions
<1>6. CASE UNCHANGED xvars
  <2>1. UNCHANGED <<vars, sessions>>
    BY <1>6 DEF xvars
  <2> QED BY <2>1, <1>5
<1> QED BY <1>4, <1>5, <1>6 DEF ExchangeNext

\* A connected client has one answer for each of its lines, but for one that is not
\* text and ends the session, and is acknowledged exactly what the rings took, in
\* order and with its numbers: a number is confirmed only by
\* submit's Ok, a refused command never, and a lost connection only cuts the list.
THEOREM AnswersAlwaysTrue == ExchangeSpec => []AnswersAreTrue
<1>1. SessionsInductive => AnswersAreTrue
  BY DEF SessionsInductive
<1> QED BY <1>1, SessionsInit, SessionsStep, PTL DEF ExchangeSpec

(***************************************************************************)
(* The feed. A task knows the last message its client was sent; all that   *)
(* lies between it and the next one has been overwritten.                  *)
(***************************************************************************)

Newest == Len(published)

Overwritten(from, upto) == \A k \in from .. upto : k + Capacity <= Newest

\* The clients' tasks and what they have sent, whatever the messages are.
FeedOK ==
  /\ \E M : published \in Seq(M)
  /\ task \in [Client -> [at : {"away", "handshake", "receiving", "sending", "ended"},
                          next : Nat \ {0}, hand : Nat]]
  /\ got \in [Client -> Seq(Nat)]

\* What a client has been sent, with all gaps overwritten.
GapsOverwritten(c) ==
  \A i \in 2 .. Len(got[c]) :
    /\ got[c][i - 1] < got[c][i]
    /\ Overwritten(got[c][i - 1] + 1, got[c][i] - 1)

\* The message that comes next, in hand or still on the bus, follows the last one
\* that was sent.
NextFollows(c, following) ==
  LET n == Len(got[c])
  IN  n > 0 /\ got[c][n] < following /\ Overwritten(got[c][n] + 1, following - 1)

TaskFollows(c) ==
  /\ GapsOverwritten(c)
  /\ task[c].at \in {"handshake", "receiving"} => NextFollows(c, task[c].next)
  /\ task[c].at = "sending" => task[c].next = task[c].hand + 1 /\ NextFollows(c, task[c].hand)

FeedInductive == FeedOK /\ \A c \in Client : TaskFollows(c)

LEMMA NewestIs == FeedOK => Newest \in Nat
BY LenProperties DEF FeedOK, Newest

\* What a send on the bus does to the messages: they become more.
LEMMA PublishedGrows ==
  ASSUME NEW M, published \in Seq(M), NEW m, published' \in {published \o <<m>>, published \o <<>>}
  PROVE  (\E N : published' \in Seq(N)) /\ Newest' \in Nat /\ Newest <= Newest'
<1>1. CASE published' = published \o <<m>>
  <2> DEFINE N == M \cup {m}
  <2>1. published \in Seq(N) /\ <<m>> \in Seq(N) /\ Len(<<m>>) = 1
    <3>1. <<m>> \in Seq(N) /\ Len(<<m>>) = 1
      BY Single
    <3> QED BY <3>1, SeqMonotonic
  <2>2. published \o <<m>> \in Seq(N) /\ Len(published \o <<m>>) = Len(published) + 1
    BY <2>1, ConcatProperties
  <2>3. Len(published) \in Nat
    BY LenProperties
  <2> QED BY <1>1, <2>2, <2>3 DEF Newest
<1>2. CASE published' = published \o <<>>
  <2>1. published' = published /\ Len(published) \in Nat
    BY <1>2, ConcatEmptySeq, LenProperties
  <2> QED BY <2>1 DEF Newest
<1> QED BY <1>1, <1>2

LEMMA OverwrittenStays ==
  ASSUME Newest \in Nat, Newest' \in Nat, Newest <= Newest', NEW from \in Int, NEW upto \in Int,
         Overwritten(from, upto)
  PROVE  Overwritten(from, upto)'
BY BusCapacityAssumption DEF Overwritten

\* The task of a client and what it has sent, when they stay as they are.
LEMMA TaskKept ==
  ASSUME FeedOK, NEW c \in Client, TaskFollows(c),
         Newest' \in Nat, Newest <= Newest', task'[c] = task[c], got'[c] = got[c]
  PROVE  TaskFollows(c)'
<1> DEFINE g == got[c]
<1>0. /\ g \in Seq(Nat) /\ Len(g) \in Nat /\ \A i \in 1 .. Len(g) : g[i] \in Nat
      /\ task[c].next \in Nat /\ task[c].hand \in Nat /\ Newest \in Nat
  BY NewestIs, LenProperties, ElementOfSeq DEF FeedOK
<1>1. \A from, upto \in Int : Overwritten(from, upto) => Overwritten(from, upto)'
  BY <1>0, OverwrittenStays
<1>2. GapsOverwritten(c)'
  <2> SUFFICES ASSUME NEW i \in 2 .. Len(g)
               PROVE  g[i - 1] < g[i] /\ Overwritten(g[i - 1] + 1, g[i] - 1)'
    BY DEF GapsOverwritten
  <2>1. g[i - 1] < g[i] /\ Overwritten(g[i - 1] + 1, g[i] - 1)
    BY DEF TaskFollows, GapsOverwritten
  <2>2. g[i - 1] \in Nat /\ g[i] \in Nat
    <3> HIDE DEF g
    <3>1. i - 1 \in 1 .. Len(g) /\ i \in 1 .. Len(g)
      BY <1>0
    <3> QED BY Zenon, <1>0, <3>1
  <2> QED BY <1>1, <2>1, <2>2
<1>3. ASSUME NEW n \in Nat, NextFollows(c, n)
      PROVE  NextFollows(c, n)'
  <2>1. Len(g) > 0 /\ g[Len(g)] < n /\ Overwritten(g[Len(g)] + 1, n - 1)
    BY <1>3 DEF NextFollows
  <2>2. g[Len(g)] \in Nat
    BY <1>0, <2>1
  <2>3. Overwritten(g[Len(g)] + 1, n - 1)'
    BY <1>1, <2>1, <2>2
  <2> QED BY <2>1, <2>3 DEF NextFollows
<1>4. task[c].at \in {"handshake", "receiving"} => NextFollows(c, task[c].next)'
  BY <1>0, <1>3 DEF TaskFollows
<1>5. task[c].at = "sending" => task[c].next = task[c].hand + 1 /\ NextFollows(c, task[c].hand)'
  BY <1>0, <1>3 DEF TaskFollows
<1> QED BY <1>2, <1>4, <1>5 DEF TaskFollows

(***************************************************************************)
(* Each step of the feed.                                                  *)
(***************************************************************************)

LEMMA ConsumeStep ==
  ASSUME FeedInductive, Market!Consume
  PROVE  FeedInductive'
<1>1. FeedOK /\ Newest \in Nat /\ task' = task /\ got' = got
  BY NewestIs DEF FeedInductive, Market!Consume, Market!Take, Market!Process
<1>2. (\E N : published' \in Seq(N)) /\ Newest' \in Nat /\ Newest <= Newest'
  <2>1. CASE Market!Take
    BY <1>1, <2>1 DEF Market!Take, FeedOK, Newest
  <2>2. CASE Market!Process
    <3> DEFINE new == Market!Messages(Head(builders), heard[Own][taken])
    <3>1. published' = published \o new
      BY <2>2 DEF Market!Process
    <3>2. PICK m : new = <<m>> \/ new = <<>>
      BY DEF Market!Messages
    <3> HIDE DEF new
    <3>3. PICK M : published \in Seq(M)
      BY <1>1 DEF FeedOK
    <3>4. published' \in {published \o <<m>>, published \o <<>>}
      BY <3>1, <3>2
    <3> QED BY <3>3, <3>4, PublishedGrows
  <2> QED BY <2>1, <2>2 DEF Market!Consume
<1>3. \A c \in Client : TaskFollows(c)'
  BY <1>1, <1>2, TaskKept DEF FeedInductive
<1> QED BY <1>1, <1>2, <1>3 DEF FeedInductive, FeedOK

\* A step that sends nothing on the bus: the other clients keep what they had.
LEMMA ClientStep ==
  ASSUME FeedInductive, NEW c \in Client, published' = published,
         \A d \in Client \ {c} : task'[d] = task[d] /\ got'[d] = got[d],
         task' \in [Client -> [at : {"away", "handshake", "receiving", "sending", "ended"},
                               next : Nat \ {0}, hand : Nat]],
         got' \in [Client -> Seq(Nat)],
         TaskFollows(c)'
  PROVE  FeedInductive'
<1>1. FeedOK /\ Newest \in Nat /\ Newest' = Newest
  BY NewestIs DEF FeedInductive, Newest
<1>2. \A d \in Client \ {c} : TaskFollows(d)'
  BY <1>1, TaskKept DEF FeedInductive
<1>3. \A d \in Client : TaskFollows(d)'
  BY <1>2
<1> QED BY <1>1, <1>3 DEF FeedInductive, FeedOK

LEMMA TaskGoesTo ==
  ASSUME FeedOK, NEW c \in Client, NEW step, NEW n, NEW hand, Market!Goto(c, step, n, hand),
         step \in {"away", "handshake", "receiving", "sending", "ended"},
         n \in Nat \ {0}, hand \in Nat
  PROVE  /\ task' \in [Client -> [at : {"away", "handshake", "receiving", "sending", "ended"},
                                  next : Nat \ {0}, hand : Nat]]
         /\ task'[c].at = step /\ task'[c].next = n /\ task'[c].hand = hand
         /\ \A d \in Client \ {c} : task'[d] = task[d]
<1> DEFINE new == [at |-> step, next |-> n, hand |-> hand]
<1>1. new \in [at : {"away", "handshake", "receiving", "sending", "ended"},
               next : Nat \ {0}, hand : Nat]
  OBVIOUS
<1>2. task' = [task EXCEPT ![c] = new]
  BY DEF Market!Goto
<1>3. task'[c] = new /\ \A d \in Client \ {c} : task'[d] = task[d]
  BY <1>2 DEF FeedOK
<1> QED BY <1>1, <1>2, <1>3 DEF FeedOK

LEMMA AcceptStep ==
  ASSUME FeedInductive, NEW c \in Client, Market!Accept(c)
  PROVE  FeedInductive'
<1>1. /\ FeedOK /\ Newest \in Nat /\ published' = published /\ Newest' = Newest
      /\ Market!Goto(c, "handshake", Newest + 1, 0) /\ got' = [got EXCEPT ![c] = <<Newest>>]
  BY NewestIs DEF FeedInductive, Market!Accept, Market!Newest, Newest
<1> HIDE DEF Newest
<1>2. <<Newest>> \in Seq(Nat) /\ Len(<<Newest>>) = 1 /\ <<Newest>>[1] = Newest
  BY <1>1, Single
<1>3. /\ got' \in [Client -> Seq(Nat)] /\ got'[c] = <<Newest>>
      /\ \A d \in Client \ {c} : got'[d] = got[d]
  BY <1>1, <1>2 DEF FeedOK
<1>4. /\ task' \in [Client -> [at : {"away", "handshake", "receiving", "sending", "ended"},
                               next : Nat \ {0}, hand : Nat]]
      /\ task'[c].at = "handshake" /\ task'[c].next = Newest + 1
      /\ \A d \in Client \ {c} : task'[d] = task[d]
  <2>1. Newest + 1 \in Nat \ {0}
    BY <1>1
  <2> QED BY <1>1, <2>1, TaskGoesTo
<1>5. GapsOverwritten(c)'
  BY <1>2, <1>3 DEF GapsOverwritten
<1>6. NextFollows(c, task[c].next)'
  BY <1>1, <1>2, <1>3, <1>4 DEF NextFollows, Overwritten
<1>7. TaskFollows(c)'
  BY <1>4, <1>5, <1>6 DEF TaskFollows
<1> QED BY <1>1, <1>3, <1>4, <1>7, ClientStep

\* Steps of a task that change neither bus nor what the client was sent.
LEMMA TaskStep ==
  ASSUME FeedInductive, NEW c \in Client, published' = published, got' = got,
         NEW step, NEW n, NEW hand, Market!Goto(c, step, n, hand),
         step \in {"receiving", "sending", "ended"}, n \in Nat \ {0}, hand \in Nat,
         step = "receiving" => NextFollows(c, n),
         step = "sending" => n = hand + 1 /\ NextFollows(c, hand)
  PROVE  FeedInductive'
<1>1. FeedOK /\ Newest' = Newest /\ GapsOverwritten(c)
  BY DEF FeedInductive, TaskFollows, Newest
<1>2. /\ task' \in [Client -> [at : {"away", "handshake", "receiving", "sending", "ended"},
                               next : Nat \ {0}, hand : Nat]]
      /\ task'[c].at = step /\ task'[c].next = n /\ task'[c].hand = hand
      /\ \A d \in Client \ {c} : task'[d] = task[d]
  BY <1>1, TaskGoesTo
<1>3. GapsOverwritten(c)'
  BY <1>1 DEF GapsOverwritten, Overwritten
<1>4. step = "receiving" => NextFollows(c, task[c].next)'
  BY <1>1, <1>2 DEF NextFollows, Overwritten
<1>5. step = "sending" => NextFollows(c, task[c].hand)'
  BY <1>1, <1>2 DEF NextFollows, Overwritten
<1>6. TaskFollows(c)'
  BY <1>2, <1>3, <1>4, <1>5 DEF TaskFollows
<1> QED BY <1>1, <1>2, <1>6, ClientStep DEF FeedOK

LEMMA HandshakeStep ==
  ASSUME FeedInductive, NEW c \in Client, Market!Handshake(c)
  PROVE  FeedInductive'
<1>1. FeedOK /\ task[c].next \in Nat \ {0} /\ published' = published /\ got' = got
  BY DEF FeedInductive, FeedOK, Market!Handshake
<1>2. NextFollows(c, task[c].next)
  BY DEF FeedInductive, TaskFollows, Market!Handshake
<1>3. Market!Goto(c, "receiving", task[c].next, 0) \/ Market!Goto(c, "ended", task[c].next, 0)
  BY DEF Market!Handshake
<1> QED BY <1>1, <1>2, <1>3, TaskStep

\* A task that was overtaken goes on with the oldest message there is: all those
\* it passes over are gone.
LEMMA RecvStep ==
  ASSUME FeedInductive, NEW c \in Client, Market!Recv(c)
  PROVE  FeedInductive'
<1> DEFINE n == task[c].next
           oldest == Newest - Capacity + 1
           g == got[c]
<1>1. /\ FeedOK /\ n \in Nat \ {0} /\ published' = published /\ got' = got
      /\ Newest \in Nat /\ n <= Newest
  BY NewestIs DEF FeedInductive, FeedOK, Market!Recv, Market!Newest, Newest
<1>2. NextFollows(c, n)
  BY DEF FeedInductive, TaskFollows, Market!Recv
<1>3. CASE n < oldest
  <2>1. Market!Goto(c, "receiving", Market!OldestKept, 0)
    BY <1>3 DEF Market!Recv, Market!Lagged, Market!Newest, Newest
  <2>2. Market!OldestKept = oldest /\ oldest \in Nat \ {0}
    BY <1>1, <1>3, BusCapacityAssumption DEF Market!OldestKept, Market!Newest, Newest
  <2>3. Len(g) > 0 /\ g[Len(g)] < n /\ Overwritten(g[Len(g)] + 1, n - 1)
    BY <1>2 DEF NextFollows
  <2>4. g[Len(g)] \in Nat
    <3>1. g \in Seq(Nat)
      BY <1>1 DEF FeedOK
    <3>2. Len(g) \in Nat
      BY <3>1, LenProperties
    <3> QED BY <2>3, <3>1, <3>2, ElementOfSeq
  <2>5. Overwritten(g[Len(g)] + 1, oldest - 1)
    <3> SUFFICES ASSUME NEW k \in g[Len(g)] + 1 .. oldest - 1 PROVE k + Capacity <= Newest
      BY DEF Overwritten
    <3> QED BY <1>1, <2>2, <2>4, BusCapacityAssumption
  <2>6. NextFollows(c, oldest)
    BY <1>1, <1>3, <2>2, <2>3, <2>4, <2>5 DEF NextFollows
  <2> HIDE DEF oldest
  <2> QED BY <1>1, <2>1, <2>2, <2>6, TaskStep
<1>4. CASE ~(n < oldest)
  <2>1. Market!Goto(c, "sending", n + 1, n)
    BY <1>4 DEF Market!Recv, Market!Newest, Newest
  <2>2. n + 1 \in Nat \ {0} /\ n \in Nat
    BY <1>1
  <2> HIDE DEF n
  <2> QED BY <1>1, <1>2, <2>1, <2>2, TaskStep
<1> QED BY <1>3, <1>4

LEMMA SentStep ==
  ASSUME FeedInductive, NEW c \in Client, Market!Sent(c)
  PROVE  FeedInductive'
<1> DEFINE n == task[c].next
           hand == task[c].hand
           g == got[c]
<1>1. /\ FeedOK /\ n \in Nat \ {0} /\ hand \in Nat /\ published' = published
      /\ g \in Seq(Nat) /\ Newest \in Nat /\ Newest' = Newest
  BY NewestIs DEF FeedInductive, FeedOK, Market!Sent, Newest
<1>2. n = hand + 1 /\ NextFollows(c, hand) /\ GapsOverwritten(c)
  BY DEF FeedInductive, TaskFollows, Market!Sent
<1>3. CASE Market!Goto(c, "ended", n, 0) /\ UNCHANGED got
  BY <1>1, <1>3, TaskStep
<1>4. CASE Market!Goto(c, "receiving", n, 0) /\ got' = [got EXCEPT ![c] = Append(@, hand)]
  <2> DEFINE h == Append(g, hand)
  <2>1. /\ h \in Seq(Nat) /\ Len(h) = Len(g) + 1 /\ Len(g) \in Nat /\ h[Len(g) + 1] = hand
        /\ \A i \in 1 .. Len(g) : h[i] = g[i] /\ g[i] \in Nat
    BY <1>1, AppendProperties, LenProperties, ElementOfSeq
  <2>2. got'[c] = h /\ got' \in [Client -> Seq(Nat)] /\ \A d \in Client \ {c} : got'[d] = got[d]
    BY <1>1, <1>4, <2>1 DEF FeedOK
  <2> HIDE DEF h
  <2>3. Len(g) > 0 /\ g[Len(g)] < hand /\ Overwritten(g[Len(g)] + 1, hand - 1)
    BY <1>2 DEF NextFollows
  <2>4. GapsOverwritten(c)'
    <3> SUFFICES ASSUME NEW i \in 2 .. Len(h)
                 PROVE  h[i - 1] < h[i] /\ Overwritten(h[i - 1] + 1, h[i] - 1)
      BY <1>1, <2>2 DEF GapsOverwritten, Overwritten
    <3>1. CASE i \in 2 .. Len(g)
      <4>0. i \in 1 .. Len(g) /\ i - 1 \in 1 .. Len(g)
        BY <2>1, <3>1
      <4>1. h[i - 1] = g[i - 1] /\ h[i] = g[i]
        BY <2>1, <4>0
      <4> QED BY <1>2, <3>1, <4>1 DEF GapsOverwritten
    <3>2. CASE i = Len(g) + 1
      <4>1. h[i - 1] = g[Len(g)] /\ h[i] = hand
        BY SMTT(60), <2>1, <2>3, <3>2
      <4> QED BY <2>3, <4>1
    <3> QED BY <2>1, <3>1, <3>2
  <2>5. /\ task' \in [Client -> [at : {"away", "handshake", "receiving", "sending", "ended"},
                                 next : Nat \ {0}, hand : Nat]]
        /\ task'[c].at = "receiving" /\ task'[c].next = n
        /\ \A d \in Client \ {c} : task'[d] = task[d]
    BY <1>1, <1>4, TaskGoesTo
  <2>6. NextFollows(c, task[c].next)'
    <3>1. task'[c].next = hand + 1
      BY <1>2, <2>5
    <3>2. h[Len(h)] = hand /\ Len(h) > 0
      BY <2>1
    <3>3. \A k \in hand + 1 .. hand + 1 - 1 : k + Capacity <= Newest'
      BY <1>1
    <3> QED BY <1>1, <2>2, <3>1, <3>2, <3>3 DEF NextFollows, Overwritten
  <2>7. TaskFollows(c)'
    BY <2>4, <2>5, <2>6 DEF TaskFollows
  <2> QED BY <1>1, <2>2, <2>5, <2>7, ClientStep
<1> QED BY <1>3, <1>4 DEF Market!Sent

LEMMA FeedKept ==
  ASSUME FeedInductive, UNCHANGED <<published, task, got>>
  PROVE  FeedInductive'
<1>1. FeedOK /\ Newest \in Nat /\ Newest' = Newest
  BY NewestIs DEF FeedInductive, Newest
<1>2. \A c \in Client : TaskFollows(c)'
  BY <1>1, TaskKept DEF FeedInductive
<1> QED BY <1>1, <1>2 DEF FeedInductive, FeedOK

LEMMA FeedStep == FeedInductive /\ [ExchangeNext]_xvars => FeedInductive'
<1> SUFFICES ASSUME FeedInductive, [ExchangeNext]_xvars
             PROVE  FeedInductive'
  OBVIOUS
<1>1. CASE UNCHANGED market
  BY <1>1, FeedKept DEF market
<1>2. CASE Market!MarketNext
  <2>1. ASSUME NEW c \in Client, Market!Leave(c)
        PROVE  FeedInductive'
    BY <2>1, FeedKept DEF Market!Leave
  <2> QED BY <1>2, <2>1, ConsumeStep, AcceptStep, HandshakeStep, RecvStep, SentStep
             DEF Market!MarketNext, Market!Serve
<1> QED BY <1>1, <1>2 DEF ExchangeNext, xvars

LEMMA FeedInit == ExchangeInit => FeedInductive
<1> SUFFICES ASSUME ExchangeInit PROVE FeedInductive
  OBVIOUS
<1>1. /\ published = <<>> /\ got = [c \in Client |-> <<>>]
      /\ task = [c \in Client |-> [at |-> "away", next |-> 1, hand |-> 0]]
  BY DEF ExchangeInit, Market!MarketInit
<1>2. <<>> \in Seq(Nat) /\ Len(<<>>) = 0
  BY EmptySeq
<1>3. FeedOK
  BY <1>1, <1>2 DEF FeedOK
<1>4. \A c \in Client : TaskFollows(c)
  BY <1>1, <1>2 DEF TaskFollows, GapsOverwritten
<1> QED BY <1>3, <1>4 DEF FeedInductive

\* A client of the feed is sent every message once and in order, but for those
\* that the bus had overwritten before the client's task came to them, however
\* slow the client is and whenever it came.
THEOREM FeedLosesOnlyOverwritten == ExchangeSpec => []LosesOnlyOverwritten
<1>1. FeedInductive => LosesOnlyOverwritten
  <2> SUFFICES ASSUME FeedInductive, NEW c \in Client, NEW i \in 2 .. Len(got[c])
               PROVE  /\ got[c][i - 1] < got[c][i]
                      /\ \A k \in got[c][i - 1] + 1 .. got[c][i] - 1 : k + Capacity <= Len(published)
    BY DEF LosesOnlyOverwritten, Market!LosesOnlyOverwritten, Market!Newest
  <2> QED BY DEF FeedInductive, TaskFollows, GapsOverwritten, Overwritten, Newest
<1> QED BY <1>1, FeedInit, FeedStep, PTL DEF ExchangeSpec

===============================================================================
