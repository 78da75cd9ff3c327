------------------------------ MODULE WalProofs ------------------------------
(***************************************************************************)
(* What holds of the log for any segment size, buffer, number of records,  *)
(* failures, kills and power failures: a replay returns records in the     *)
(* order they were logged, those that are safe are among them, and what is *)
(* left of a process has no gap.                                           *)
(*                                                                         *)
(* The argument: a segment holds records of one process that follow one    *)
(* another in the log, and perhaps the first piece of one more; a later    *)
(* segment holds later ones; and the buffer goes on where the file the     *)
(* writer has open ends.                                                   *)
(***************************************************************************)
EXTENDS Wal, SelectionProofs

(***************************************************************************)
(* Types.                                                                  *)
(***************************************************************************)

Piece == [rec : Record, part : {"frame", "body"}]

File == [data : Seq(Piece), synced : Nat]

Writer == [seg_idx : Nat, file : Nat, buf : Seq(Piece), seg_bytes : Nat, write_count : Nat]

\* The segment files fs.
FilesOK(fs) ==
  /\ DOMAIN fs \subseteq Nat \ {0} /\ fs \in [DOMAIN fs -> File]
  /\ \A i \in DOMAIN fs : fs[i].synced <= Len(fs[i].data)
  /\ \E n \in Nat : DOMAIN fs \subseteq 1 .. n

Typed ==
  /\ policy \in Nat /\ life \in Nat /\ outages \in Nat
  /\ at \in {"idle", "spill", "flush", "sync", "roll", "down"}
  /\ Up => life >= 1
  /\ logged \in Seq(Record) /\ returned \subseteq Record
  /\ FilesOK(files) /\ writer \in Writer

(***************************************************************************)
(* Where the pieces of a log are, in segment files fs of which start and   *)
(* owner say how many records came before each and which process wrote it. *)
(***************************************************************************)

Frame(rec) == [rec |-> rec, part |-> "frame"]
Body(rec)  == [rec |-> rec, part |-> "body"]

\* data holds the pieces of the records of log after the first `from` ones.
Lies(data, log, from) ==
  /\ from \in 0 .. Len(log)
  /\ Len(data) <= 2 * (Len(log) - from)
  /\ \A m \in 1 .. Len(log) - from :
       /\ 2 * m - 1 <= Len(data) => data[2 * m - 1] = Frame(log[from + m])
       /\ 2 * m <= Len(data) => data[2 * m] = Body(log[from + m])

\* The k-th record of the log lies whole in the first `length` pieces of a segment
\* that begins after the first `from` ones.
Within(k, from, length) == from < k /\ 2 * (k - from) <= length

Laid(fs, log, start, owner) ==
  /\ \A i \in DOMAIN fs : Lies(fs[i].data, log, start[i])
  /\ \A i, j \in DOMAIN fs : i < j => 2 * start[i] + Len(fs[i].data) <= 2 * start[j]
  /\ \A i \in DOMAIN fs : \A k \in 1 .. Len(log) :
       Within(k, start[i], Len(fs[i].data)) => log[k].life = owner[i]

Kept(fs, start, k) == \E i \in DOMAIN fs : Within(k, start[i], Len(fs[i].data))

Durable(fs, start, k) == \E i \in DOMAIN fs : Within(k, start[i], fs[i].synced)

\* What no kill and, under PerRecord, no power failure can take any more.
Safe(pol, fs, start, k) == IF pol = 1 THEN Durable(fs, start, k) ELSE Kept(fs, start, k)

\* When a process goes on to a new segment, all it has logged before is safe.
Unbroken(pol, fs, log, start, owner) ==
  \A i \in DOMAIN fs : \A k \in 1 .. start[i] :
    log[k].life = owner[i] => Safe(pol, fs, start, k)

(***************************************************************************)
(* The invariant.                                                          *)
(***************************************************************************)

\* What the process `who` has in its buffer follows on f, the file it writes
\* to, which is the last one, and nobody else's.
Follows(fs, f, buf, log, start, owner, who) ==
  /\ f \in DOMAIN fs /\ \A i \in DOMAIN fs : i <= f
  /\ Lies(fs[f].data \o buf, log, start[f])
  /\ Len(fs[f].data) + Len(buf) = 2 * (Len(log) - start[f])
  /\ owner[f] = who
  /\ \A k \in start[f] + 1 .. Len(log) : log[k].life = who

\* The writer, between the steps of append and in each of them.
Writes(start, owner) ==
  Up =>
    /\ Follows(files, writer.file, writer.buf, logged, start, owner, life)
    /\ writer.seg_idx >= writer.file
    /\ at = "sync" => writer.buf = <<>>
    /\ at \in {"flush", "sync", "roll"} => start[writer.file] < Len(logged)
    /\ policy = 1 /\ at = "roll" =>
         writer.buf = <<>> /\ files[writer.file].synced = Len(files[writer.file].data)

\* Under PerRecord append returns Ok when the record is safe.
Confirmed(pol, ok, fs, log, start) ==
  pol = 1 => \A rec \in ok : \E k \in 1 .. Len(log) : log[k] = rec /\ Durable(fs, start, k)

Of(n) == {rec \in Record : rec.life = n}

\* No two records are the same: a process numbers its own, and comes once.
Distinguished(log, lives) ==
  /\ \A k \in 1 .. Len(log) :
       log[k].life \in 1 .. lives /\ log[k].seq \in 1 .. Len(Only(log, Of(log[k].life)))
  /\ \A k, l \in 1 .. Len(log) : log[k] = log[l] => k = l

Described(start, owner) ==
  /\ start \in [Segments -> Nat] /\ owner \in [Segments -> Nat]
  /\ Laid(files, logged, start, owner)
  /\ policy = 1 \/ outages = 0 => Unbroken(policy, files, logged, start, owner)
  /\ Writes(start, owner)
  /\ Confirmed(policy, returned, files, logged, start)

Inductive ==
  /\ Typed /\ Distinguished(logged, life)
  /\ \E start, owner : Described(start, owner)

(***************************************************************************)
(* Pieces in sequences.                                                    *)
(***************************************************************************)

LEMMA LiesPrefix ==
  ASSUME NEW w, NEW d, NEW log, NEW from, Lies(w, log, from), Len(log) \in Nat,
         Len(w) \in Nat, Len(d) \in 0 .. Len(w), \A i \in 1 .. Len(d) : d[i] = w[i]
  PROVE  Lies(d, log, from)
<1>1. from \in 0 .. Len(log) /\ Len(d) <= 2 * (Len(log) - from)
  BY DEF Lies
<1>2. ASSUME NEW m \in 1 .. Len(log) - from
      PROVE  /\ 2 * m - 1 <= Len(d) => d[2 * m - 1] = Frame(log[from + m])
             /\ 2 * m <= Len(d) => d[2 * m] = Body(log[from + m])
  <2>1. /\ 2 * m - 1 <= Len(w) => w[2 * m - 1] = Frame(log[from + m])
        /\ 2 * m <= Len(w) => w[2 * m] = Body(log[from + m])
    BY DEF Lies
  <2>2. m \in Nat /\ m >= 1
    BY <1>1
  <2>3. /\ 2 * m - 1 <= Len(d) => d[2 * m - 1] = w[2 * m - 1]
        /\ 2 * m <= Len(d) => d[2 * m] = w[2 * m]
    BY <2>2
  <2> QED BY <2>1, <2>2, <2>3
<1> QED BY <1>1, <1>2 DEF Lies

LEMMA LiesLonger ==
  ASSUME NEW d, NEW log \in Seq(Record), NEW from, Lies(d, log, from), NEW rec \in Record,
         Len(d) \in Nat
  PROVE  Lies(d, Append(log, rec), from)
<1> DEFINE new == Append(log, rec)
<1>1. /\ Len(log) \in Nat /\ Len(new) = Len(log) + 1 /\ \A k \in 1 .. Len(log) : new[k] = log[k]
  BY AppendProperties, LenProperties
<1> HIDE DEF new
<1>2. from \in 0 .. Len(new) /\ Len(d) <= 2 * (Len(new) - from)
  BY <1>1 DEF Lies
<1>3. ASSUME NEW m \in 1 .. Len(new) - from
      PROVE  /\ 2 * m - 1 <= Len(d) => d[2 * m - 1] = Frame(new[from + m])
             /\ 2 * m <= Len(d) => d[2 * m] = Body(new[from + m])
  <2>1. CASE m \in 1 .. Len(log) - from
    <3>1. /\ 2 * m - 1 <= Len(d) => d[2 * m - 1] = Frame(log[from + m])
          /\ 2 * m <= Len(d) => d[2 * m] = Body(log[from + m])
      BY <2>1 DEF Lies
    <3>2. from + m \in 1 .. Len(log)
      BY <1>1, <2>1 DEF Lies
    <3> QED BY <1>1, <3>1, <3>2
  <2>2. CASE m = Len(log) - from + 1
    BY <1>1, <2>2 DEF Lies
  <2> QED BY SMTT(60), <1>1, <1>2, <2>1, <2>2
<1> QED BY <1>2, <1>3 DEF Lies, new

LEMMA PiecesAre ==
  ASSUME NEW rec \in Record
  PROVE  /\ Pieces(rec) \in Seq(Piece) /\ Len(Pieces(rec)) = 2
         /\ Pieces(rec)[1] = Frame(rec) /\ Pieces(rec)[2] = Body(rec)
BY DEF Pieces, Piece, Frame, Body

LEMMA LiesGrows ==
  ASSUME NEW d \in Seq(Piece), NEW log \in Seq(Record), NEW from, Lies(d, log, from),
         NEW rec \in Record, Len(d) = 2 * (Len(log) - from)
  PROVE  /\ Lies(d \o Pieces(rec), Append(log, rec), from)
         /\ Len(d \o Pieces(rec)) = 2 * (Len(Append(log, rec)) - from)
<1> DEFINE new == Append(log, rec)
           e == d \o Pieces(rec)
<1>1. /\ Len(log) \in Nat /\ Len(new) = Len(log) + 1 /\ new[Len(log) + 1] = rec
      /\ \A k \in 1 .. Len(log) : new[k] = log[k]
  BY AppendProperties, LenProperties
<1>2. /\ Len(d) \in Nat /\ Len(e) = Len(d) + 2
      /\ \A i \in 1 .. Len(d) : e[i] = d[i]
      /\ e[Len(d) + 1] = Frame(rec) /\ e[Len(d) + 2] = Body(rec)
  <2>1. Len(d) \in Nat
    BY LenProperties
  <2>2. /\ Len(e) = Len(d) + 2
        /\ \A i \in 1 .. Len(d) + 2 : e[i] = IF i <= Len(d) THEN d[i] ELSE Pieces(rec)[i - Len(d)]
    <3> DEFINE p == Pieces(rec)
    <3>1. p \in Seq(Piece) /\ Len(p) = 2
      BY PiecesAre
    <3> HIDE DEF p
    <3>2. /\ Len(d \o p) = Len(d) + Len(p)
          /\ \A i \in 1 .. Len(d) + Len(p) : (d \o p)[i] = IF i <= Len(d) THEN d[i] ELSE p[i - Len(d)]
      BY <3>1, ConcatProperties
    <3> QED BY <3>1, <3>2 DEF e, p
  <2>3. e[Len(d) + 1] = Pieces(rec)[1] /\ e[Len(d) + 2] = Pieces(rec)[2]
    BY SMTT(60), <2>1, <2>2
  <2> QED BY <2>1, <2>2, <2>3, PiecesAre
<1> HIDE DEF new, e
<1>3. from \in 0 .. Len(new) /\ Len(e) = 2 * (Len(new) - from)
  BY <1>1, <1>2 DEF Lies
<1>4. ASSUME NEW m \in 1 .. Len(new) - from
      PROVE  /\ 2 * m - 1 <= Len(e) => e[2 * m - 1] = Frame(new[from + m])
             /\ 2 * m <= Len(e) => e[2 * m] = Body(new[from + m])
  <2>1. CASE m \in 1 .. Len(log) - from
    <3>1. /\ 2 * m - 1 <= Len(d) => d[2 * m - 1] = Frame(log[from + m])
          /\ 2 * m <= Len(d) => d[2 * m] = Body(log[from + m])
      BY <2>1 DEF Lies
    <3>2. from + m \in 1 .. Len(log) /\ 2 * m - 1 \in 1 .. Len(d) /\ 2 * m \in 1 .. Len(d)
      BY <1>1, <2>1 DEF Lies
    <3> QED BY <1>1, <1>2, <3>1, <3>2
  <2>2. CASE m = Len(log) - from + 1
    <3>1. 2 * m - 1 = Len(d) + 1 /\ 2 * m = Len(d) + 2 /\ from + m = Len(log) + 1
      BY <1>1, <1>2, <2>2 DEF Lies
    <3> QED BY <1>1, <1>2, <3>1
  <2>3. m \in 1 .. Len(log) - from \/ m = Len(log) - from + 1
    BY <1>1, <1>3
  <2> QED BY <2>1, <2>2, <2>3
<1> QED BY <1>1, <1>2, <1>3, <1>4 DEF Lies, new, e

\* A sequence is its first n elements and the rest.
LEMMA Split ==
  ASSUME NEW X, NEW s \in Seq(X), NEW n \in 0 .. Len(s)
  PROVE  /\ SubSeq(s, 1, n) \in Seq(X) /\ SubSeq(s, n + 1, Len(s)) \in Seq(X)
         /\ Len(SubSeq(s, 1, n)) = n /\ Len(SubSeq(s, n + 1, Len(s))) = Len(s) - n
         /\ SubSeq(s, 1, n) \o SubSeq(s, n + 1, Len(s)) = s
<1> DEFINE u == SubSeq(s, 1, n)
           v == SubSeq(s, n + 1, Len(s))
<1>1. Len(s) \in Nat /\ \A i \in 1 .. Len(s) : s[i] \in X
  BY LenProperties, ElementOfSeq
<1>2. u \in Seq(X) /\ Len(u) = n /\ \A i \in 1 .. n : u[i] = s[i]
  <2>1. n \in Int /\ 1 \in Int /\ \A i \in 1 .. n : s[i] \in X
    BY <1>1
  <2> QED BY <1>1, <2>1, SubSeqProperties
<1>3. v \in Seq(X) /\ Len(v) = Len(s) - n /\ \A i \in 1 .. Len(s) - n : v[i] = s[n + i]
  <2>1. n + 1 \in Int /\ Len(s) \in Int /\ \A i \in n + 1 .. Len(s) : s[i] \in X
    BY <1>1
  <2>2. /\ v \in Seq(X) /\ Len(v) = IF n + 1 <= Len(s) THEN Len(s) - (n + 1) + 1 ELSE 0
        /\ \A i \in 1 .. Len(s) - (n + 1) + 1 : v[i] = s[n + 1 + i - 1]
    BY <2>1, SubSeqProperties
  <2>3. Len(v) = Len(s) - n
    BY <1>1, <2>2
  <2>4. \A i \in 1 .. Len(s) - n : v[i] = s[n + i]
    <3> TAKE i \in 1 .. Len(s) - n
    <3>1. i \in 1 .. Len(s) - (n + 1) + 1 /\ n + 1 + i - 1 = n + i
      BY <1>1
    <3> QED BY <2>2, <3>1
  <2> QED BY <2>2, <2>3, <2>4
<1> HIDE DEF u, v
<1>4. /\ u \o v \in Seq(X) /\ Len(u \o v) = Len(s)
      /\ \A i \in 1 .. Len(s) : (u \o v)[i] = IF i <= n THEN u[i] ELSE v[i - n]
  <2>1. /\ u \o v \in Seq(X) /\ Len(u \o v) = Len(u) + Len(v)
        /\ \A i \in 1 .. Len(u) + Len(v) : (u \o v)[i] = IF i <= Len(u) THEN u[i] ELSE v[i - Len(u)]
    BY <1>2, <1>3, ConcatProperties
  <2>2. Len(u) + Len(v) = Len(s)
    BY <1>1, <1>2, <1>3
  <2> QED BY <1>2, <2>1, <2>2
<1>5. \A i \in 1 .. Len(s) : (u \o v)[i] = s[i]
  <2> TAKE i \in 1 .. Len(s)
  <2>1. CASE i <= n
    BY <1>1, <1>2, <1>4, <2>1
  <2>2. CASE ~(i <= n)
    <3>1. i - n \in 1 .. Len(s) - n /\ n + (i - n) = i
      BY <1>1, <2>2
    <3> QED BY <1>3, <1>4, <2>2, <3>1
  <2> QED BY <2>1, <2>2
<1>6. u \o v = s
  BY <1>4, <1>5, SeqEqual
<1> QED BY <1>2, <1>3, <1>6 DEF u, v

(***************************************************************************)
(* What is done to segment files.                                          *)
(***************************************************************************)

LEMMA FileIs ==
  ASSUME NEW fs, FilesOK(fs), NEW i \in DOMAIN fs
  PROVE  /\ fs[i] \in File /\ i \in Nat \ {0}
         /\ fs[i].data \in Seq(Piece) /\ Len(fs[i].data) \in Nat
         /\ fs[i].synced \in Nat /\ fs[i].synced <= Len(fs[i].data)
<1>1. fs[i] \in File /\ i \in Nat \ {0} /\ fs[i].synced <= Len(fs[i].data)
  BY DEF FilesOK
<1>2. fs[i].data \in Seq(Piece) /\ fs[i].synced \in Nat
  BY <1>1 DEF File
<1> QED BY <1>1, <1>2, LenProperties

Replaced(fs, f, file) == [fs EXCEPT ![f] = file]

Extended(fs, f, x) == [fs EXCEPT ![f].data = @ \o x]

SyncedAt(fs, f) == [fs EXCEPT ![f].synced = Len(fs[f].data)]

\* A file is replaced by another.
LEMMA FileReplaced ==
  ASSUME NEW fs, FilesOK(fs), NEW f \in DOMAIN fs, NEW file \in File, file.synced <= Len(file.data),
         NEW new, new = Replaced(fs, f, file)
  PROVE  /\ DOMAIN new = DOMAIN fs /\ FilesOK(new) /\ new[f] = file
         /\ \A i \in DOMAIN fs \ {f} : new[i] = fs[i]
<1>1. DOMAIN new = DOMAIN fs /\ new[f] = file /\ \A i \in DOMAIN fs \ {f} : new[i] = fs[i]
  BY DEF FilesOK, Replaced
<1>2. new \in [DOMAIN fs -> File]
  BY DEF FilesOK, Replaced
<1>3. \A i \in DOMAIN new : new[i].synced <= Len(new[i].data)
  BY <1>1 DEF FilesOK
<1> QED BY <1>1, <1>2, <1>3 DEF FilesOK

IsExtended(new, fs, f, x) ==
  /\ DOMAIN new = DOMAIN fs /\ FilesOK(new)
  /\ new[f].data = fs[f].data \o x /\ new[f].synced = fs[f].synced
  /\ Len(new[f].data) = Len(fs[f].data) + Len(x)
  /\ \A i \in DOMAIN fs \ {f} : new[i] = fs[i]

LEMMA FileWritten ==
  ASSUME NEW fs, FilesOK(fs), NEW f \in DOMAIN fs, NEW x \in Seq(Piece),
         NEW new, new = Extended(fs, f, x)
  PROVE  IsExtended(new, fs, f, x)
<1>1. /\ fs[f] \in File
      /\ Len(fs[f].data) \in Nat /\ Len(x) \in Nat /\ fs[f].synced <= Len(fs[f].data)
  BY FileIs, LenProperties
<1>2. PICK d \in Seq(Piece), s \in Nat : fs[f] = [data |-> d, synced |-> s]
  BY <1>1 DEF File
<1> DEFINE file == [data |-> d \o x, synced |-> s]
<1>3. d \o x \in Seq(Piece) /\ Len(d \o x) = Len(d) + Len(x)
  BY ConcatProperties
<1>4. file \in File /\ file.data = d \o x /\ file.synced = s /\ d = fs[f].data /\ s = fs[f].synced
  BY <1>2, <1>3 DEF File
<1>5. new = Replaced(fs, f, file)
  <2> DEFINE old == [data |-> d, synced |-> s]
  <2>1. [old EXCEPT !.data = @ \o x] = file
    <3> DEFINE e == d \o x
    <3>1. \A y : [old EXCEPT !.data = y] = [data |-> y, synced |-> s]
      OBVIOUS
    <3>2. old.data = d
      OBVIOUS
    <3> HIDE DEF old
    <3>3. [old EXCEPT !.data = @ \o x] = [old EXCEPT !.data = e]
      BY <3>2
    <3> HIDE DEF e
    <3> QED BY <3>1, <3>3 DEF e
  <2> HIDE DEF file
  <2>2. [fs[f] EXCEPT !.data = @ \o x] = file
    BY <1>2, <2>1
  <2>3. new = [fs EXCEPT ![f] = [fs[f] EXCEPT !.data = @ \o x]]
    BY DEF Extended
  <2> QED BY <2>2, <2>3 DEF Replaced
<1> HIDE DEF file
<1>6. file.synced <= Len(file.data)
  BY <1>1, <1>3, <1>4
<1>7. /\ DOMAIN new = DOMAIN fs /\ FilesOK(new) /\ new[f] = file
      /\ \A i \in DOMAIN fs \ {f} : new[i] = fs[i]
  BY <1>4, <1>5, <1>6, FileReplaced
<1> QED BY <1>3, <1>4, <1>7 DEF IsExtended

IsSynced(new, fs, f) ==
  /\ DOMAIN new = DOMAIN fs /\ FilesOK(new)
  /\ new[f].data = fs[f].data /\ new[f].synced = Len(fs[f].data)
  /\ \A i \in DOMAIN fs \ {f} : new[i] = fs[i]

LEMMA FileSynced ==
  ASSUME NEW fs, FilesOK(fs), NEW f \in DOMAIN fs, NEW new, new = SyncedAt(fs, f)
  PROVE  IsSynced(new, fs, f)
<1>1. fs[f] \in File /\ Len(fs[f].data) \in Nat
  BY FileIs
<1>2. PICK d \in Seq(Piece), s \in Nat : fs[f] = [data |-> d, synced |-> s]
  BY <1>1 DEF File
<1> DEFINE file == [data |-> d, synced |-> Len(d)]
<1>3. d = fs[f].data /\ Len(d) \in Nat
  BY <1>1, <1>2
<1>4. file \in File /\ file.data = d /\ file.synced = Len(d)
  BY <1>3 DEF File
<1>5. new = Replaced(fs, f, file)
  <2> DEFINE old == [data |-> d, synced |-> s]
  <2>1. [old EXCEPT !.synced = Len(d)] = file
    OBVIOUS
  <2> HIDE DEF file
  <2>2. [fs[f] EXCEPT !.synced = Len(fs[f].data)] = file
    BY <1>2, <1>3, <2>1
  <2>3. new = [fs EXCEPT ![f] = [fs[f] EXCEPT !.synced = Len(fs[f].data)]]
    BY DEF SyncedAt
  <2> QED BY <2>2, <2>3 DEF Replaced
<1> HIDE DEF file
<1>6. file.synced <= Len(file.data)
  BY <1>3, <1>4
<1>7. /\ DOMAIN new = DOMAIN fs /\ FilesOK(new) /\ new[f] = file
      /\ \A i \in DOMAIN fs \ {f} : new[i] = fs[i]
  BY <1>4, <1>5, <1>6, FileReplaced
<1> QED BY <1>3, <1>4, <1>7 DEF IsSynced

\* Files that grow, in what they hold and in what is synced, lose nothing.
LEMMA Grown ==
  ASSUME NEW fs, FilesOK(fs), NEW new, FilesOK(new), DOMAIN new = DOMAIN fs,
         \A i \in DOMAIN fs : /\ Len(fs[i].data) <= Len(new[i].data)
                              /\ fs[i].synced <= new[i].synced,
         NEW start \in [DOMAIN fs -> Nat], NEW k \in Nat
  PROVE  /\ Kept(fs, start, k) => Kept(new, start, k)
         /\ Durable(fs, start, k) => Durable(new, start, k)
         /\ \A pol : Safe(pol, fs, start, k) => Safe(pol, new, start, k)
<1>1. \A i \in DOMAIN fs : /\ start[i] \in Nat
                           /\ Len(fs[i].data) \in Nat /\ fs[i].synced \in Nat
                           /\ Len(new[i].data) \in Nat /\ new[i].synced \in Nat
  BY FileIs
<1>2. \A i \in DOMAIN fs :
        /\ Within(k, start[i], Len(fs[i].data)) => Within(k, start[i], Len(new[i].data))
        /\ Within(k, start[i], fs[i].synced) => Within(k, start[i], new[i].synced)
  BY <1>1 DEF Within
<1>3. Kept(fs, start, k) => Kept(new, start, k)
  BY <1>2 DEF Kept
<1>4. Durable(fs, start, k) => Durable(new, start, k)
  BY <1>2 DEF Durable
<1> QED BY <1>3, <1>4 DEF Safe

LEMMA GrownUnbroken ==
  ASSUME NEW fs, FilesOK(fs), NEW new, FilesOK(new), DOMAIN new = DOMAIN fs,
         \A i \in DOMAIN fs : /\ Len(fs[i].data) <= Len(new[i].data)
                              /\ fs[i].synced <= new[i].synced,
         NEW start \in [DOMAIN fs -> Nat], NEW owner, NEW pol, NEW log,
         Unbroken(pol, fs, log, start, owner)
  PROVE  Unbroken(pol, new, log, start, owner)
<1> SUFFICES ASSUME NEW i \in DOMAIN fs, NEW k \in 1 .. start[i], log[k].life = owner[i]
             PROVE  Safe(pol, new, start, k)
  BY DEF Unbroken
<1>1. Safe(pol, fs, start, k) /\ k \in Nat
  BY DEF Unbroken
<1> QED BY <1>1, Grown

\* What is synced is there.
LEMMA DurableIsKept ==
  ASSUME NEW fs, FilesOK(fs), NEW start \in [DOMAIN fs -> Nat], NEW k \in Nat,
         Durable(fs, start, k)
  PROVE  Kept(fs, start, k)
<1>1. PICK i \in DOMAIN fs : Within(k, start[i], fs[i].synced)
  BY DEF Durable
<1>2. start[i] \in Nat /\ fs[i].synced \in Nat /\ Len(fs[i].data) \in Nat /\ fs[i].synced <= Len(fs[i].data)
  BY FileIs
<1>3. Within(k, start[i], Len(fs[i].data))
  BY <1>1, <1>2 DEF Within
<1> QED BY <1>3 DEF Kept

\* A write to the last file of pieces that follow on it.
LEMMA LaidWritten ==
  ASSUME NEW fs, FilesOK(fs), NEW log \in Seq(Record),
         NEW start \in [DOMAIN fs -> Nat], NEW owner, Laid(fs, log, start, owner),
         NEW f \in DOMAIN fs, \A i \in DOMAIN fs : i <= f,
         NEW x \in Seq(Piece), Lies(fs[f].data \o x, log, start[f]),
         \A k \in start[f] + 1 .. Len(log) : log[k].life = owner[f],
         NEW new, new = Extended(fs, f, x)
  PROVE  Laid(new, log, start, owner)
<1>1. /\ DOMAIN new = DOMAIN fs
      /\ new[f].data = fs[f].data \o x
      /\ \A i \in DOMAIN fs \ {f} : new[i] = fs[i]
  BY SMTT(60), FileWritten DEF IsExtended
<1>2. \A i \in DOMAIN fs : Lies(new[i].data, log, start[i])
  BY <1>1 DEF Laid
<1>3. ASSUME NEW i \in DOMAIN fs, NEW j \in DOMAIN fs, i < j
      PROVE  2 * start[i] + Len(new[i].data) <= 2 * start[j]
  <2>1. i # f
    BY <1>3, FileIs
  <2> QED BY <1>1, <1>3, <2>1 DEF Laid
<1>4. ASSUME NEW i \in DOMAIN fs, NEW k \in 1 .. Len(log), Within(k, start[i], Len(new[i].data))
      PROVE  log[k].life = owner[i]
  <2>1. CASE i = f
    <3>1. k \in start[f] + 1 .. Len(log)
      BY <1>4, <2>1, LenProperties DEF Within
    <3> QED BY <2>1, <3>1
  <2>2. CASE i # f
    BY <1>1, <1>4, <2>2 DEF Laid
  <2> QED BY <2>1, <2>2
<1> QED BY <1>1, <1>2, <1>3, <1>4 DEF Laid

\* A record is added to the log.
LEMMA LaidLogged ==
  ASSUME NEW fs, FilesOK(fs), NEW log \in Seq(Record), NEW rec \in Record,
         NEW start \in [DOMAIN fs -> Nat], NEW owner, Laid(fs, log, start, owner)
  PROVE  /\ Laid(fs, Append(log, rec), start, owner)
         /\ \A pol : Unbroken(pol, fs, log, start, owner)
                       => Unbroken(pol, fs, Append(log, rec), start, owner)
<1> DEFINE new == Append(log, rec)
<1>1. /\ Len(log) \in Nat /\ Len(new) = Len(log) + 1
      /\ \A k \in 1 .. Len(log) : new[k] = log[k]
  BY AppendProperties, LenProperties
<1>2. \A i \in DOMAIN fs : /\ Lies(fs[i].data, log, start[i]) /\ Len(fs[i].data) \in Nat
                           /\ start[i] \in 0 .. Len(log)
                           /\ Len(fs[i].data) <= 2 * (Len(log) - start[i])
  BY FileIs DEF Laid, Lies
<1>3. \A i \in DOMAIN fs : Lies(fs[i].data, new, start[i])
  BY <1>2, LiesLonger
<1> HIDE DEF new
<1>4. ASSUME NEW i \in DOMAIN fs, NEW k \in 1 .. Len(new), Within(k, start[i], Len(fs[i].data))
      PROVE  new[k].life = owner[i]
  <2>1. k \in 1 .. Len(log)
    BY <1>1, <1>2, <1>4 DEF Within
  <2> QED BY <1>1, <1>4, <2>1 DEF Laid
<1>5. Laid(fs, new, start, owner)
  BY <1>3, <1>4 DEF Laid
<1>6. ASSUME NEW pol, Unbroken(pol, fs, log, start, owner)
      PROVE  Unbroken(pol, fs, new, start, owner)
  BY <1>1, <1>2, <1>6 DEF Unbroken
<1> QED BY <1>5, <1>6 DEF new

\* Files that lose something at their ends, or nothing.
LEMMA LaidShorter ==
  ASSUME NEW fs, FilesOK(fs), NEW log \in Seq(Record),
         NEW start \in [DOMAIN fs -> Nat], NEW owner, Laid(fs, log, start, owner),
         NEW new, FilesOK(new), DOMAIN new = DOMAIN fs,
         \A i \in DOMAIN fs : /\ Len(new[i].data) <= Len(fs[i].data)
                              /\ \A j \in 1 .. Len(new[i].data) : new[i].data[j] = fs[i].data[j]
  PROVE  Laid(new, log, start, owner)
<1>0. Len(log) \in Nat
  BY LenProperties
<1>1. \A i \in DOMAIN fs : /\ Lies(fs[i].data, log, start[i]) /\ start[i] \in Nat
                           /\ Len(fs[i].data) \in Nat /\ Len(new[i].data) \in Nat
  BY FileIs DEF Laid
<1>2. \A i \in DOMAIN fs : Lies(new[i].data, log, start[i])
  <2> TAKE i \in DOMAIN fs
  <2> DEFINE w == fs[i].data
             d == new[i].data
  <2>1. Lies(w, log, start[i]) /\ Len(w) \in Nat /\ Len(d) \in 0 .. Len(w)
    BY <1>1
  <2>2. \A j \in 1 .. Len(d) : d[j] = w[j]
    OBVIOUS
  <2> HIDE DEF w, d
  <2>3. Lies(d, log, start[i])
    BY <1>0, <2>1, <2>2, LiesPrefix
  <2> QED BY <2>3 DEF d
<1>3. ASSUME NEW i \in DOMAIN fs, NEW j \in DOMAIN fs, i < j
      PROVE  2 * start[i] + Len(new[i].data) <= 2 * start[j]
  <2>1. 2 * start[i] + Len(fs[i].data) <= 2 * start[j]
    BY <1>3 DEF Laid
  <2> QED BY <1>1, <2>1
<1>4. ASSUME NEW i \in DOMAIN fs, NEW k \in 1 .. Len(log), Within(k, start[i], Len(new[i].data))
      PROVE  log[k].life = owner[i]
  <2>1. Within(k, start[i], Len(fs[i].data))
    BY <1>0, <1>1, <1>4 DEF Within
  <2> QED BY <2>1 DEF Laid
<1> QED BY <1>2, <1>3, <1>4 DEF Laid

Cut(fs, length) == [i \in DOMAIN fs |-> [data   |-> SubSeq(fs[i].data, 1, length[i]),
                                         synced |-> length[i]]]

IsCut(new, fs) ==
  /\ DOMAIN new = DOMAIN fs /\ FilesOK(new)
  /\ \A i \in DOMAIN fs : /\ Len(new[i].data) <= Len(fs[i].data)
                          /\ fs[i].synced <= new[i].synced
                          /\ \A j \in 1 .. Len(new[i].data) : new[i].data[j] = fs[i].data[j]

\* A power failure leaves what was synced.
LEMMA CutFiles ==
  ASSUME NEW fs, FilesOK(fs), NEW length,
         \A i \in DOMAIN fs : length[i] \in fs[i].synced .. Len(fs[i].data),
         NEW new, new = Cut(fs, length)
  PROVE  IsCut(new, fs)
<1>1. ASSUME NEW i \in DOMAIN fs
      PROVE  /\ new[i] \in File /\ new[i].synced <= Len(new[i].data)
             /\ Len(new[i].data) <= Len(fs[i].data) /\ fs[i].synced <= new[i].synced
             /\ \A j \in 1 .. Len(new[i].data) : new[i].data[j] = fs[i].data[j]
  <2> DEFINE d == fs[i].data
             n == length[i]
             e == SubSeq(d, 1, n)
  <2>1. /\ d \in Seq(Piece) /\ Len(d) \in Nat /\ n \in Nat /\ n <= Len(d) /\ fs[i].synced <= n
    BY FileIs
  <2>2. new[i] = [data |-> e, synced |-> n]
    BY DEF Cut
  <2> HIDE DEF d, n
  <2>3. e \in Seq(Piece) /\ Len(e) = n /\ \A j \in 1 .. n : e[j] = d[j]
    <3>1. 1 \in Int /\ n \in Int /\ \A j \in 1 .. n : d[j] \in Piece
      BY <2>1, ElementOfSeq
    <3>2. /\ e \in Seq(Piece) /\ Len(e) = IF 1 <= n THEN n - 1 + 1 ELSE 0
          /\ \A j \in 1 .. n - 1 + 1 : e[j] = d[1 + j - 1]
      BY <3>1, SubSeqProperties
    <3>3. \A j \in 1 .. n : j \in 1 .. n - 1 + 1 /\ 1 + j - 1 = j
      BY <2>1
    <3>4. Len(e) = n
      BY <2>1, <3>2
    <3> QED BY <3>2, <3>3, <3>4
  <2> HIDE DEF e
  <2>4. new[i] \in File /\ new[i].data = e /\ new[i].synced = n
    BY <2>1, <2>2, <2>3 DEF File
  <2>5. Len(e) <= Len(d) /\ fs[i].synced <= n /\ n <= Len(e)
    BY <2>1, <2>3
  <2> QED BY <2>3, <2>4, <2>5 DEF d
<1>2. DOMAIN new = DOMAIN fs
  BY DEF Cut
<1>3. new \in [DOMAIN fs -> File]
  BY <1>1 DEF Cut
<1> QED BY <1>1, <1>2, <1>3 DEF FilesOK, IsCut

\* f with one more place.
With(f, idx, x) == [i \in DOMAIN f \cup {idx} |-> IF i = idx THEN x ELSE f[i]]

LEMMA NewSegmentFile ==
  ASSUME NEW fs, FilesOK(fs), NEW idx, idx \in Nat \ {0}, \A i \in DOMAIN fs : i < idx,
         NEW new, new = WithFile(fs, idx, EmptyFile)
  PROVE  FilesOK(new)
<1>1. EmptyFile \in File /\ Len(<<>>) = 0
  BY EmptySeq DEF EmptyFile, File
<1>2. /\ DOMAIN new = DOMAIN fs \cup {idx}
      /\ new[idx].data = <<>> /\ new[idx].synced = 0
      /\ \A i \in DOMAIN fs : i # idx => new[i] = fs[i]
  BY DEF WithFile, EmptyFile
<1>3. new \in [DOMAIN fs \cup {idx} -> File]
  BY <1>1 DEF WithFile, FilesOK
<1>4. \A i \in DOMAIN new : new[i].synced <= Len(new[i].data)
  BY <1>1, <1>2 DEF FilesOK
<1>5. DOMAIN new \subseteq 1 .. idx
  BY <1>2 DEF FilesOK
<1>6. DOMAIN new \subseteq Nat \ {0}
  BY <1>2 DEF FilesOK
<1> QED BY <1>2, <1>3, <1>4, <1>5, <1>6 DEF FilesOK

\* A new segment, after all others and for all that follows.
Continued(new, from, by, fs, log, start, owner, idx, who) ==
  /\ from \in [DOMAIN new -> Nat] /\ by \in [DOMAIN new -> Nat]
  /\ from[idx] = Len(log) /\ by[idx] = who
  /\ Laid(new, log, from, by)
  /\ \A k \in Nat : /\ Kept(fs, start, k) => Kept(new, from, k)
                    /\ Durable(fs, start, k) => Durable(new, from, k)
  /\ \A pol : /\ Unbroken(pol, fs, log, start, owner)
              /\ \A k \in 1 .. Len(log) : log[k].life = who => Safe(pol, fs, start, k)
              => Unbroken(pol, new, log, from, by)

LEMMA NewSegment ==
  ASSUME NEW fs, FilesOK(fs), NEW log \in Seq(Record),
         NEW start \in [DOMAIN fs -> Nat], NEW owner \in [DOMAIN fs -> Nat],
         Laid(fs, log, start, owner),
         NEW idx, idx \in Nat \ {0}, \A i \in DOMAIN fs : i < idx,
         NEW new, new = WithFile(fs, idx, EmptyFile), NEW who \in Nat,
         NEW from, from = With(start, idx, Len(log)), NEW by, by = With(owner, idx, who)
  PROVE  Continued(new, from, by, fs, log, start, owner, idx, who)
<1>0. Len(log) \in Nat /\ Len(<<>>) = 0
  BY LenProperties
<1>1. /\ DOMAIN new = DOMAIN fs \cup {idx}
      /\ new[idx].data = <<>> /\ new[idx].synced = 0
      /\ \A i \in DOMAIN fs : new[i] = fs[i] /\ i # idx
  <2>1. \A i \in DOMAIN fs : i # idx
    BY DEF FilesOK
  <2> QED BY <2>1 DEF WithFile, EmptyFile
<1>2. /\ from \in [DOMAIN new -> Nat] /\ from[idx] = Len(log)
      /\ \A i \in DOMAIN fs : from[i] = start[i]
  BY <1>0, <1>1 DEF With
<1>3. by \in [DOMAIN new -> Nat] /\ by[idx] = who /\ \A i \in DOMAIN fs : by[i] = owner[i]
  BY <1>1 DEF With
<1>4. \A i \in DOMAIN fs : /\ Lies(fs[i].data, log, start[i]) /\ start[i] \in 0 .. Len(log)
                           /\ Len(fs[i].data) \in Nat
                           /\ Len(fs[i].data) <= 2 * (Len(log) - start[i])
  BY FileIs DEF Laid, Lies
<1>5. Lies(<<>>, log, Len(log))
  BY <1>0 DEF Lies
<1>6. Laid(new, log, from, by)
  <2>1. \A i \in DOMAIN new : Lies(new[i].data, log, from[i])
    BY <1>1, <1>2, <1>4, <1>5
  <2>2. ASSUME NEW i \in DOMAIN new, NEW j \in DOMAIN new, i < j
        PROVE  2 * from[i] + Len(new[i].data) <= 2 * from[j]
    <3>1. i \in DOMAIN fs
      BY <1>1, <2>2 DEF FilesOK
    <3>2. CASE j = idx
      BY SMTT(60), <1>0, <1>1, <1>2, <1>4, <3>1, <3>2
    <3>3. CASE j \in DOMAIN fs
      BY <1>1, <1>2, <2>2, <3>1, <3>3 DEF Laid
    <3> QED BY <1>1, <3>2, <3>3
  <2>3. ASSUME NEW i \in DOMAIN new, NEW k \in 1 .. Len(log), Within(k, from[i], Len(new[i].data))
        PROVE  log[k].life = by[i]
    <3>1. CASE i = idx
      BY <1>0, <1>1, <1>2, <2>3, <3>1 DEF Within
    <3>2. CASE i \in DOMAIN fs
      BY <1>1, <1>2, <1>3, <2>3, <3>2 DEF Laid
    <3> QED BY <1>1, <3>1, <3>2
  <2> QED BY <2>1, <2>2, <2>3 DEF Laid
<1>7. \A k \in Nat : /\ Kept(fs, start, k) => Kept(new, from, k)
                     /\ Durable(fs, start, k) => Durable(new, from, k)
  BY <1>1, <1>2 DEF Kept, Durable
<1>8. ASSUME NEW pol, Unbroken(pol, fs, log, start, owner),
             \A k \in 1 .. Len(log) : log[k].life = who => Safe(pol, fs, start, k)
      PROVE  Unbroken(pol, new, log, from, by)
  <2> SUFFICES ASSUME NEW i \in DOMAIN new, NEW k \in 1 .. from[i], log[k].life = by[i]
               PROVE  Safe(pol, new, from, k)
    BY DEF Unbroken
  <2>1. k \in Nat
    BY <1>2
  <2>2. Safe(pol, fs, start, k)
    <3>1. CASE i = idx
      BY <1>2, <1>3, <1>8, <3>1
    <3>2. CASE i \in DOMAIN fs
      BY <1>2, <1>3, <1>8, <3>2 DEF Unbroken
    <3> QED BY <1>1, <3>1, <3>2
  <2> QED BY <1>7, <2>1, <2>2 DEF Safe
<1> QED BY <1>2, <1>3, <1>6, <1>7, <1>8 DEF Continued

(***************************************************************************)
(* What the steps of a process do to Follows.                              *)
(***************************************************************************)

\* The index of the last segment, 0 if there is none.
LEMMA LastIs ==
  ASSUME NEW fs, FilesOK(fs)
  PROVE  /\ Last(DOMAIN fs) \in Nat /\ \A i \in DOMAIN fs : i <= Last(DOMAIN fs)
         /\ \A i \in DOMAIN fs : i # 0
         /\ DOMAIN fs # {} => Last(DOMAIN fs) \in DOMAIN fs
<1>1. CASE DOMAIN fs = {}
  BY <1>1 DEF Last
<1>2. CASE DOMAIN fs # {}
  <2>1. PICK n \in Nat : DOMAIN fs \subseteq 1 .. n
    BY DEF FilesOK
  <2> DEFINE T == {m \in Nat : \A i \in DOMAIN fs : i <= m}
  <2>2. n \in T
    BY <2>1 DEF FilesOK
  <2>3. PICK m \in T : \A l \in T : m <= l
    BY <2>2, LeastElement
  <2>4. m \in DOMAIN fs
    <3> SUFFICES ASSUME m \notin DOMAIN fs PROVE FALSE
      OBVIOUS
    <3>1. \A i \in DOMAIN fs : i < m /\ i \in Nat \ {0}
      BY <2>3 DEF FilesOK
    <3>2. m - 1 \in T
      BY <1>2, <2>3, <3>1
    <3> QED BY <2>3, <3>2
  <2>5. \A i \in DOMAIN fs : m >= i
    BY <2>3, <2>4 DEF FilesOK
  <2>6. Last(DOMAIN fs) \in DOMAIN fs /\ \A i \in DOMAIN fs : Last(DOMAIN fs) >= i
    BY <1>2, <2>4, <2>5 DEF Last, Max
  <2> QED BY <1>2, <2>6 DEF FilesOK
<1> QED BY <1>1, <1>2 DEF FilesOK

\* No file gets shorter.
Longer(new, fs) ==
  /\ FilesOK(new) /\ DOMAIN new = DOMAIN fs
  /\ \A i \in DOMAIN fs : Len(fs[i].data) <= Len(new[i].data) /\ fs[i].synced <= new[i].synced

IsFlushed(new, fs, f, rest, log, start, owner, who) ==
  /\ Longer(new, fs) /\ Laid(new, log, start, owner)
  /\ Follows(new, f, rest, log, start, owner, who)

\* The buffer, or a first part of it, is written.
LEMMA Flushed ==
  ASSUME NEW fs, FilesOK(fs), NEW log \in Seq(Record),
         NEW start \in [DOMAIN fs -> Nat], NEW owner, Laid(fs, log, start, owner),
         NEW x \in Seq(Piece), NEW rest \in Seq(Piece),
         NEW f, NEW who, Follows(fs, f, x \o rest, log, start, owner, who),
         NEW new, new = Extended(fs, f, x)
  PROVE  IsFlushed(new, fs, f, rest, log, start, owner, who)
<1>1. f \in DOMAIN fs /\ \A i \in DOMAIN fs : i <= f
  BY DEF Follows
<1> DEFINE d == fs[f].data
<1>2. d \in Seq(Piece) /\ Len(d) \in Nat /\ Len(log) \in Nat
  BY <1>1, FileIs, LenProperties
<1>3. Len(x) \in Nat /\ Len(rest) \in Nat /\ Len(x \o rest) = Len(x) + Len(rest)
  BY LenProperties, ConcatProperties
<1>4. /\ DOMAIN new = DOMAIN fs /\ FilesOK(new)
      /\ new[f].data = d \o x /\ new[f].synced = fs[f].synced
      /\ Len(new[f].data) = Len(d) + Len(x)
      /\ \A i \in DOMAIN fs \ {f} : new[i] = fs[i]
  <2>1. IsExtended(new, fs, f, x)
    BY <1>1, FileWritten
  <2> QED BY <1>3, <2>1 DEF IsExtended
<1>5. (d \o x) \o rest = d \o (x \o rest)
  <2>1. (d \o x) \o rest = d \o (x \o rest)
    <3> HIDE DEF d
    <3> QED BY SMTT(60), <1>2, <1>3, ConcatAssociative
  <2> QED BY <1>3, <2>1
<1>6. Lies(d \o (x \o rest), log, start[f]) /\ Len(d) + Len(x \o rest) = 2 * (Len(log) - start[f])
  BY DEF Follows
<1> HIDE DEF d
<1>7. Lies(d \o x, log, start[f])
  <2> DEFINE w == d \o (x \o rest)
             e == d \o x
  <2>1. /\ Len(e) = Len(d) + Len(x)
        /\ \A i \in 1 .. Len(d) + Len(x) : e[i] = IF i <= Len(d) THEN d[i] ELSE x[i - Len(d)]
    BY <1>2, <1>3, ConcatProperties
  <2>2. /\ e \in Seq(Piece) /\ w = e \o rest
    BY <1>2, <1>3, <1>5, ConcatProperties
  <2> HIDE DEF w, e
  <2>3. /\ Len(w) = Len(e) + Len(rest)
        /\ \A i \in 1 .. Len(e) + Len(rest) : w[i] = IF i <= Len(e) THEN e[i] ELSE rest[i - Len(e)]
    BY <1>3, <2>2, ConcatProperties
  <2>4. Len(w) \in Nat /\ Len(e) \in 0 .. Len(w)
    BY <1>2, <1>3, <2>1, <2>3
  <2>5. \A i \in 1 .. Len(e) : e[i] = w[i]
    <3> TAKE i \in 1 .. Len(e)
    <3>1. i \in 1 .. Len(e) + Len(rest) /\ i <= Len(e)
      BY <1>2, <1>3, <2>4
    <3> QED BY <2>3, <3>1
  <2>6. Lies(w, log, start[f])
    BY <1>6 DEF w
  <2>7. Lies(e, log, start[f])
    BY <1>2, <2>4, <2>5, <2>6, LiesPrefix
  <2> QED BY <2>7 DEF e
<1>8. \A k \in start[f] + 1 .. Len(log) : log[k].life = owner[f]
  BY DEF Follows
<1>9. Laid(new, log, start, owner)
  BY <1>1, <1>7, <1>8, LaidWritten DEF d
<1>10. \A i \in DOMAIN fs : Len(fs[i].data) <= Len(new[i].data) /\ fs[i].synced <= new[i].synced
  <2> TAKE i \in DOMAIN fs
  <2>1. Len(fs[i].data) \in Nat /\ fs[i].synced \in Nat
    BY FileIs
  <2>2. CASE i = f
    BY <1>2, <1>4, <2>1, <2>2 DEF d
  <2>3. CASE i # f
    BY <1>4, <2>1, <2>3
  <2> QED BY <2>2, <2>3
<1>11. Follows(new, f, rest, log, start, owner, who)
  <2>1. Lies(new[f].data \o rest, log, start[f])
    BY <1>4, <1>5, <1>6
  <2>2. Len(new[f].data) + Len(rest) = 2 * (Len(log) - start[f])
    <3>1. Len(new[f].data) + Len(rest) = Len(d) + Len(x \o rest)
      BY <1>2, <1>3, <1>4
    <3> QED BY <1>6, <3>1
  <2> QED BY <1>1, <1>4, <2>1, <2>2 DEF Follows
<1> QED BY <1>4, <1>9, <1>10, <1>11 DEF IsFlushed, Longer

LEMMA FlushedAll ==
  ASSUME NEW fs, FilesOK(fs), NEW log \in Seq(Record),
         NEW start \in [DOMAIN fs -> Nat], NEW owner, Laid(fs, log, start, owner),
         NEW buf \in Seq(Piece),
         NEW f, NEW who, Follows(fs, f, buf, log, start, owner, who),
         NEW new, new = Extended(fs, f, buf)
  PROVE  IsFlushed(new, fs, f, <<>>, log, start, owner, who)
<1>1. buf \o <<>> = buf /\ <<>> \in Seq(Piece)
  BY ConcatEmptySeq, EmptySeq
<1> DEFINE rest == <<>>
<1> HIDE DEF rest
<1>2. rest \in Seq(Piece) /\ Follows(fs, f, buf \o rest, log, start, owner, who)
  BY <1>1 DEF rest
<1>3. IsFlushed(new, fs, f, rest, log, start, owner, who)
  BY <1>2, Flushed
<1> QED BY <1>3 DEF rest

\* A record is taken into the buffer.
LEMMA FollowsLogged ==
  ASSUME NEW fs, FilesOK(fs), NEW log \in Seq(Record), NEW rec \in Record,
         NEW start \in [DOMAIN fs -> Nat], NEW owner,
         NEW buf \in Seq(Piece), NEW f, NEW who, rec.life = who,
         Follows(fs, f, buf, log, start, owner, who)
  PROVE  /\ Follows(fs, f, buf \o Pieces(rec), Append(log, rec), start, owner, who)
         /\ start[f] < Len(Append(log, rec))
<1> DEFINE d == fs[f].data
           p == Pieces(rec)
           new == Append(log, rec)
<1>1. f \in DOMAIN fs /\ \A i \in DOMAIN fs : i <= f
  BY DEF Follows
<1>2. d \in Seq(Piece) /\ Len(d) \in Nat /\ p \in Seq(Piece) /\ Len(p) = 2
  BY <1>1, FileIs, PiecesAre
<1>3. /\ Len(log) \in Nat /\ Len(new) = Len(log) + 1 /\ new[Len(log) + 1] = rec
      /\ \A k \in 1 .. Len(log) : new[k] = log[k]
  BY AppendProperties, LenProperties
<1>4. Lies(d \o buf, log, start[f]) /\ Len(d) + Len(buf) = 2 * (Len(log) - start[f])
  BY DEF Follows
<1> HIDE DEF d
<1>5. d \o buf \in Seq(Piece) /\ Len(d \o buf) = Len(d) + Len(buf)
  BY <1>2, ConcatProperties
<1>6. /\ Lies((d \o buf) \o Pieces(rec), new, start[f])
      /\ Len((d \o buf) \o Pieces(rec)) = 2 * (Len(new) - start[f])
  <2> DEFINE e == d \o buf
  <2>1. e \in Seq(Piece) /\ Lies(e, log, start[f]) /\ Len(e) = 2 * (Len(log) - start[f])
    BY <1>4, <1>5
  <2> HIDE DEF e
  <2>2. /\ Lies(e \o Pieces(rec), Append(log, rec), start[f])
        /\ Len(e \o Pieces(rec)) = 2 * (Len(Append(log, rec)) - start[f])
    BY <2>1, LiesGrows
  <2> QED BY <2>2 DEF e
<1> HIDE DEF p
<1>7. (d \o buf) \o p = d \o (buf \o p)
  BY SMTT(60), <1>2, ConcatAssociative
<1>8. Len(d \o (buf \o p)) = Len(d) + Len(buf \o p)
  <2>1. buf \o p \in Seq(Piece)
    BY <1>2, ConcatProperties
  <2> QED BY <1>2, <2>1, ConcatProperties
<1>9. start[f] \in 0 .. Len(log)
  BY <1>4 DEF Lies
<1>10. \A k \in start[f] + 1 .. Len(new) : new[k].life = who
  <2> HIDE DEF new
  <2> TAKE k \in start[f] + 1 .. Len(new)
  <2>1. CASE k \in start[f] + 1 .. Len(log)
    BY <1>3, <1>9, <2>1 DEF Follows
  <2>2. CASE k = Len(log) + 1
    BY <1>3, <2>2
  <2> QED BY <1>3, <1>9, <2>1, <2>2
<1>11. Lies(d \o (buf \o p), new, start[f])
  BY <1>6, <1>7 DEF p
<1>12. Len(d) + Len(buf \o p) = 2 * (Len(new) - start[f])
  BY <1>6, <1>7, <1>8 DEF p
<1> HIDE DEF new
<1>13. Follows(fs, f, buf \o p, new, start, owner, who)
  BY <1>1, <1>10, <1>11, <1>12 DEF Follows, d
<1>14. start[f] < Len(new)
  BY <1>3, <1>9
<1> QED BY <1>13, <1>14 DEF p, new

LEMMA ConfirmedLonger ==
  ASSUME NEW fs, FilesOK(fs), NEW new, Longer(new, fs), NEW log \in Seq(Record),
         NEW start \in [DOMAIN fs -> Nat], NEW pol, NEW ok, Confirmed(pol, ok, fs, log, start)
  PROVE  Confirmed(pol, ok, new, log, start)
<1> SUFFICES ASSUME pol = 1, NEW rec \in ok
             PROVE  \E k \in 1 .. Len(log) : log[k] = rec /\ Durable(new, start, k)
  BY DEF Confirmed
<1>1. PICK k \in 1 .. Len(log) : log[k] = rec /\ Durable(fs, start, k)
  BY DEF Confirmed
<1>2. k \in Nat
  OBVIOUS
<1>3. Durable(new, start, k)
  BY <1>1, <1>2, Grown DEF Longer
<1> QED BY <1>1, <1>3

LEMMA ConfirmedLogged ==
  ASSUME NEW fs, NEW log \in Seq(Record), NEW rec \in Record,
         NEW start, NEW pol, NEW ok, Confirmed(pol, ok, fs, log, start)
  PROVE  Confirmed(pol, ok, fs, Append(log, rec), start)
<1> DEFINE new == Append(log, rec)
<1>1. /\ Len(log) \in Nat /\ Len(new) = Len(log) + 1
      /\ \A k \in 1 .. Len(log) : new[k] = log[k]
  BY AppendProperties, LenProperties
<1> HIDE DEF new
<1>2. Confirmed(pol, ok, fs, new, start)
  <2> SUFFICES ASSUME pol = 1, NEW r \in ok
               PROVE  \E k \in 1 .. Len(new) : new[k] = r /\ Durable(fs, start, k)
    BY DEF Confirmed
  <2>1. PICK k \in 1 .. Len(log) : log[k] = r /\ Durable(fs, start, k)
    BY DEF Confirmed
  <2>2. k \in 1 .. Len(new) /\ new[k] = r
    BY <1>1, <2>1
  <2> QED BY <2>1, <2>2
<1> QED BY <1>2 DEF new

\* What is synced confirms the newest record.
LEMMA NewestIsDurable ==
  ASSUME NEW fs, FilesOK(fs), NEW log \in Seq(Record), NEW start \in [DOMAIN fs -> Nat],
         NEW owner, NEW f, NEW who, Follows(fs, f, <<>>, log, start, owner, who),
         start[f] < Len(log), fs[f].synced = Len(fs[f].data),
         NEW pol, NEW ok, Confirmed(pol, ok, fs, log, start)
  PROVE  Confirmed(pol, ok \cup {log[Len(log)]}, fs, log, start)
<1>1. f \in DOMAIN fs /\ Len(fs[f].data) + Len(<<>>) = 2 * (Len(log) - start[f])
  BY DEF Follows
<1>2. Len(log) \in Nat /\ start[f] \in Nat /\ Len(fs[f].data) \in Nat /\ Len(<<>>) = 0
  BY <1>1, FileIs, LenProperties
<1>3. Within(Len(log), start[f], fs[f].synced)
  BY <1>1, <1>2 DEF Within
<1>4. Durable(fs, start, Len(log)) /\ Len(log) \in 1 .. Len(log)
  BY <1>1, <1>2, <1>3 DEF Durable
<1> QED BY <1>4 DEF Confirmed

\* When the writer's buffer is empty, all that its process has logged is safe.
LEMMA AllSafe ==
  ASSUME NEW fs, FilesOK(fs), NEW log \in Seq(Record), NEW start \in [DOMAIN fs -> Nat],
         NEW owner, NEW f, NEW who, Follows(fs, f, <<>>, log, start, owner, who),
         NEW pol, pol = 1 => fs[f].synced = Len(fs[f].data),
         Unbroken(pol, fs, log, start, owner)
  PROVE  \A k \in 1 .. Len(log) : log[k].life = who => Safe(pol, fs, start, k)
<1>1. /\ f \in DOMAIN fs /\ Len(fs[f].data) + Len(<<>>) = 2 * (Len(log) - start[f])
      /\ owner[f] = who
  BY DEF Follows
<1>2. Len(log) \in Nat /\ start[f] \in Nat /\ Len(fs[f].data) \in Nat /\ Len(<<>>) = 0
  BY <1>1, FileIs, LenProperties
<1> TAKE k \in 1 .. Len(log)
<1> HAVE log[k].life = who
<1>3. CASE k <= start[f]
  BY <1>1, <1>2, <1>3 DEF Unbroken
<1>4. CASE k > start[f]
  <2>1. Within(k, start[f], Len(fs[f].data))
    BY <1>1, <1>2, <1>4 DEF Within
  <2> QED BY <1>1, <2>1 DEF Safe, Kept, Durable
<1> QED BY <1>2, <1>3, <1>4

LEMMA ConfirmedContinued ==
  ASSUME NEW fs, NEW log \in Seq(Record), NEW start, NEW owner, NEW idx, NEW who,
         NEW new, NEW from, NEW by, Continued(new, from, by, fs, log, start, owner, idx, who),
         NEW pol, NEW ok, Confirmed(pol, ok, fs, log, start)
  PROVE  Confirmed(pol, ok, new, log, from)
<1> SUFFICES ASSUME pol = 1, NEW rec \in ok
             PROVE  \E k \in 1 .. Len(log) : log[k] = rec /\ Durable(new, from, k)
  BY DEF Confirmed
<1>1. PICK k \in 1 .. Len(log) : log[k] = rec /\ Durable(fs, start, k)
  BY DEF Confirmed
<1>2. k \in Nat
  OBVIOUS
<1> QED BY <1>1, <1>2 DEF Continued

LEMMA FollowsNew ==
  ASSUME NEW fs, FilesOK(fs), NEW log \in Seq(Record),
         NEW idx, idx \in Nat \ {0}, \A i \in DOMAIN fs : i < idx,
         NEW new, new = WithFile(fs, idx, EmptyFile),
         NEW start, start[idx] = Len(log), NEW owner, NEW who, owner[idx] = who
  PROVE  Follows(new, idx, <<>>, log, start, owner, who)
<1>1. /\ DOMAIN new = DOMAIN fs \cup {idx} /\ new[idx].data = <<>>
  BY DEF WithFile, EmptyFile
<1>2. Len(log) \in Nat /\ Len(<<>>) = 0 /\ <<>> \o <<>> = <<>>
  BY LenProperties, EmptySeq, ConcatEmptySeq
<1>3. Lies(<<>>, log, Len(log))
  BY <1>2 DEF Lies
<1>4. \A i \in DOMAIN new : i <= idx
  BY <1>1 DEF FilesOK
<1> QED BY <1>1, <1>2, <1>3, <1>4 DEF Follows

(***************************************************************************)
(* No two records are the same.                                            *)
(***************************************************************************)

LEMMA DistinguishedLater ==
  ASSUME NEW log, NEW lives \in Nat, Distinguished(log, lives)
  PROVE  Distinguished(log, lives + 1)
<1>1. \A n \in 1 .. lives : n \in 1 .. lives + 1
  OBVIOUS
<1>2. \A k \in 1 .. Len(log) :
        log[k].life \in 1 .. lives + 1 /\ log[k].seq \in 1 .. Len(Only(log, Of(log[k].life)))
  BY <1>1 DEF Distinguished
<1> QED BY <1>2 DEF Distinguished

LEMMA DistinguishedLogged ==
  ASSUME NEW log \in Seq(Record), NEW lives \in Nat, lives >= 1, Distinguished(log, lives),
         NEW rec, rec = [life |-> lives, seq |-> Len(Only(log, Of(lives))) + 1]
  PROVE  rec \in Record /\ rec.life = lives /\ Distinguished(Append(log, rec), lives)
<1> DEFINE new == Append(log, rec)
<1>1. \A n : Only(log, Of(n)) \in Seq(Record) /\ Len(Only(log, Of(n))) \in Nat
  <2> TAKE n
  <2>1. Only(log, Of(n)) \in Seq(Record \cap Of(n))
    BY OnlyType
  <2>2. Record \cap Of(n) = Of(n) /\ Of(n) \subseteq Record
    BY DEF Of
  <2>3. Only(log, Of(n)) \in Seq(Record)
    BY <2>1, <2>2, SeqMonotonic
  <2> QED BY <2>3, LenProperties
<1>2. rec \in Record /\ rec.life = lives /\ rec.seq = Len(Only(log, Of(lives))) + 1
  BY <1>1 DEF Record
<1>3. /\ Len(log) \in Nat /\ Len(new) = Len(log) + 1 /\ new[Len(log) + 1] = rec
      /\ \A k \in 1 .. Len(log) : new[k] = log[k]
  BY <1>2, AppendProperties, LenProperties
<1>4. \A n : Len(Only(log, Of(n))) <= Len(Only(new, Of(n)))
  <2> TAKE n
  <2> DEFINE old == Only(log, Of(n))
  <2>1. Only(new, Of(n)) = IF rec \in Of(n) THEN Append(old, rec) ELSE old
    BY <1>2, OnlyAppend
  <2>2. old \in Seq(Record) /\ Len(old) \in Nat
    BY <1>1
  <2> HIDE DEF old, new
  <2>3. Len(Append(old, rec)) = Len(old) + 1
    BY <1>2, <2>2, AppendProperties
  <2> QED BY <2>1, <2>2, <2>3 DEF old
<1>5. rec.seq \in 1 .. Len(Only(new, Of(lives)))
  <2> DEFINE old == Only(log, Of(lives))
  <2>1. rec \in Of(lives)
    BY <1>2 DEF Of
  <2>2. Only(new, Of(lives)) = Append(old, rec)
    BY <1>2, <2>1, OnlyAppend
  <2>3. old \in Seq(Record) /\ Len(old) \in Nat
    BY <1>1
  <2>4. rec.seq = Len(old) + 1
    BY <1>2
  <2> HIDE DEF old, new
  <2>5. Len(Append(old, rec)) = Len(old) + 1
    BY <1>2, <2>3, AppendProperties
  <2> QED BY <2>2, <2>3, <2>4, <2>5
<1> HIDE DEF new
<1>6. \A k \in 1 .. Len(new) :
        new[k].life \in 1 .. lives /\ new[k].seq \in 1 .. Len(Only(new, Of(new[k].life)))
  <2> TAKE k \in 1 .. Len(new)
  <2>1. CASE k \in 1 .. Len(log)
    <3> DEFINE n == log[k].life
    <3>1. n \in 1 .. lives /\ log[k].seq \in 1 .. Len(Only(log, Of(n)))
      BY <2>1 DEF Distinguished
    <3> HIDE DEF n
    <3>2. /\ Len(Only(log, Of(n))) \in Nat /\ Len(Only(log, Of(n))) <= Len(Only(new, Of(n)))
      BY <1>1, <1>4
    <3>3. Len(Only(new, Of(n))) \in Nat
      <4>1. new \in Seq(Record)
        BY <1>2, AppendProperties DEF new
      <4>2. Only(new, Of(n)) \in Seq(Record \cap Of(n))
        BY <4>1, OnlyType
      <4> QED BY <4>2, LenProperties
    <3>4. log[k].seq \in 1 .. Len(Only(new, Of(n)))
      BY <3>1, <3>2, <3>3
    <3> QED BY <1>3, <2>1, <3>1, <3>4 DEF n
  <2>2. CASE k = Len(log) + 1
    BY <1>2, <1>3, <1>5, <2>2
  <2> QED BY <1>3, <2>1, <2>2
<1>7. \A k \in 1 .. Len(log) : log[k] # rec
  <2> SUFFICES ASSUME NEW k \in 1 .. Len(log), log[k] = rec PROVE FALSE
    OBVIOUS
  <2>1. rec.seq \in 1 .. Len(Only(log, Of(lives)))
    BY <1>2 DEF Distinguished
  <2> QED BY <1>1, <1>2, <2>1
<1>8. \A k, l \in 1 .. Len(new) : new[k] = new[l] => k = l
  <2> SUFFICES ASSUME NEW k \in 1 .. Len(new), NEW l \in 1 .. Len(new), new[k] = new[l]
               PROVE  k = l
    OBVIOUS
  <2>1. CASE k \in 1 .. Len(log) /\ l \in 1 .. Len(log)
    BY <1>3, <2>1 DEF Distinguished
  <2>2. CASE k = Len(log) + 1 /\ l = Len(log) + 1
    BY <2>2
  <2>3. CASE k \in 1 .. Len(log) /\ l = Len(log) + 1
    BY <1>3, <1>7, <2>3
  <2>4. CASE k = Len(log) + 1 /\ l \in 1 .. Len(log)
    BY <1>3, <1>7, <2>4
  <2> QED BY <1>3, <2>1, <2>2, <2>3, <2>4
<1> QED BY <1>2, <1>6, <1>8 DEF Distinguished, new

Taken(w, b) == [w EXCEPT !.buf = b, !.seg_bytes = @ + 1, !.write_count = @ + 1]

LEMMA WriterTakes ==
  ASSUME NEW w \in Writer, NEW b \in Seq(Piece), NEW new, new = Taken(w, b)
  PROVE  new \in Writer /\ new.file = w.file /\ new.seg_idx = w.seg_idx /\ new.buf = b
<1>1. PICK s \in Nat, f \in Nat, c \in Seq(Piece), m \in Nat, n \in Nat :
        w = [seg_idx |-> s, file |-> f, buf |-> c, seg_bytes |-> m, write_count |-> n]
  BY DEF Writer
<1>2. new = [seg_idx |-> s, file |-> f, buf |-> b, seg_bytes |-> m + 1, write_count |-> n + 1]
  BY <1>1 DEF Taken
<1> QED BY <1>1, <1>2 DEF Writer

(***************************************************************************)
(* The invariant is inductive: one lemma for each action.                  *)
(***************************************************************************)

LEMMA InitIsInductive == Init => Inductive
<1> SUFFICES ASSUME Init PROVE Inductive
  OBVIOUS
<1>1. DOMAIN files = {} /\ logged = <<>> /\ Len(logged) = 0
  BY DEF Init
<1>2. FilesOK(files)
  BY <1>1 DEF FilesOK
<1>3. writer \in Writer
  BY EmptySeq DEF Init, Writer
<1>4. Typed
  BY <1>2, <1>3, PolicyAssumption, EmptySeq DEF Init, Typed, Up
<1>5. Distinguished(logged, life)
  BY <1>1 DEF Distinguished
<1> DEFINE none == [i \in Segments |-> 0]
<1>6. Described(none, none)
  <2>1. none \in [Segments -> Nat]
    OBVIOUS
  <2>2. Laid(files, logged, none, none) /\ Unbroken(policy, files, logged, none, none)
    BY <1>1 DEF Laid, Unbroken
  <2>3. Writes(none, none) /\ Confirmed(policy, returned, files, logged, none)
    BY DEF Init, Writes, Up, Confirmed
  <2> QED BY <2>1, <2>2, <2>3 DEF Described
<1> QED BY <1>4, <1>5, <1>6 DEF Inductive

LEMMA OpenKeeps == Inductive /\ Open => Inductive'
<1> SUFFICES ASSUME Inductive, Open PROVE Inductive'
  OBVIOUS
<1>1. PICK start, owner : Described(start, owner)
  BY DEF Inductive
<1>2. Typed /\ Distinguished(logged, life)
  BY DEF Inductive
<1>3. /\ FilesOK(files) /\ logged \in Seq(Record) /\ life \in Nat
      /\ start \in [DOMAIN files -> Nat] /\ owner \in [DOMAIN files -> Nat]
      /\ Laid(files, logged, start, owner)
      /\ Confirmed(policy, returned, files, logged, start)
  BY <1>1, <1>2 DEF Typed, Described, Segments
<1>4. PICK idx : idx = NextSegment
  OBVIOUS
<1>5. idx \in Nat \ {0} /\ \A i \in DOMAIN files : i < idx
  <2>1. /\ Last(DOMAIN files) \in Nat /\ \A i \in DOMAIN files : i <= Last(DOMAIN files)
        /\ \A i \in DOMAIN files : i \in Nat
    BY <1>3, LastIs DEF FilesOK
  <2>2. idx = Last(DOMAIN files) + 1
    BY <1>4 DEF NextSegment, Segments
  <2> QED BY <2>1, <2>2
<1>6. files' = WithFile(files, idx, EmptyFile)
  BY <1>4, <1>5 DEF Open, Opened, FilesOK
<1>7. PICK from, by : from = With(start, idx, Len(logged)) /\ by = With(owner, idx, life + 1)
  OBVIOUS
<1>8. FilesOK(files')
  BY <1>3, <1>5, <1>6, NewSegmentFile
<1>9. life + 1 \in Nat
  BY <1>3
<1>10. Continued(files', from, by, files, logged, start, owner, idx, life + 1)
  BY <1>3, <1>5, <1>6, <1>7, <1>9, NewSegment
<1>11. \A k \in 1 .. Len(logged) : logged[k].life # life + 1
  BY <1>2, <1>3 DEF Distinguished
<1>12. policy = 1 \/ outages = 0 => Unbroken(policy, files', logged, from, by)
  BY <1>1, <1>10, <1>11 DEF Described, Continued
<1>13. Follows(files', idx, <<>>, logged, from, by, life + 1)
  <2>1. from[idx] = Len(logged) /\ by[idx] = life + 1
    BY <1>10 DEF Continued
  <2> QED BY <1>3, <1>5, <1>6, <2>1, FollowsNew
<1>14. Confirmed(policy, returned, files', logged, from)
  BY <1>3, <1>10, ConfirmedContinued
<1>15. /\ writer' = [seg_idx |-> idx, file |-> idx, buf |-> <<>>, seg_bytes |-> 0, write_count |-> 0]
       /\ at' = "idle" /\ life' = life + 1
       /\ UNCHANGED <<policy, logged, returned, errors, outages>>
  BY <1>4 DEF Open
<1>16. Typed'
  <2>1. writer' \in Writer
    BY <1>5, <1>15, EmptySeq DEF Writer
  <2> QED BY <1>2, <1>8, <1>15, <2>1 DEF Typed, Up
<1>17. Distinguished(logged, life)'
  BY <1>2, <1>3, <1>15, DistinguishedLater
<1>18. Writes(from, by)'
  BY <1>5, <1>13, <1>15 DEF Writes, Up
<1>19. Described(from, by)'
  BY <1>10, <1>12, <1>14, <1>15, <1>18 DEF Described, Segments, Continued
<1> QED BY <1>16, <1>17, <1>19 DEF Inductive

LEMMA Holding ==
  ASSUME Typed, NEW start, NEW owner, Described(start, owner), Up
  PROVE  /\ FilesOK(files) /\ logged \in Seq(Record) /\ life \in Nat /\ life >= 1
         /\ start \in [DOMAIN files -> Nat] /\ owner \in [DOMAIN files -> Nat]
         /\ Laid(files, logged, start, owner)
         /\ Confirmed(policy, returned, files, logged, start)
         /\ writer \in Writer /\ writer.buf \in Seq(Piece)
         /\ Follows(files, writer.file, writer.buf, logged, start, owner, life)
         /\ writer.file \in DOMAIN files
<1>1. /\ FilesOK(files) /\ logged \in Seq(Record) /\ life \in Nat /\ life >= 1
      /\ start \in [DOMAIN files -> Nat] /\ owner \in [DOMAIN files -> Nat]
      /\ Laid(files, logged, start, owner)
      /\ Confirmed(policy, returned, files, logged, start)
      /\ writer \in Writer
  BY DEF Typed, Described, Segments
<1>2. Follows(files, writer.file, writer.buf, logged, start, owner, life)
  BY DEF Described, Writes
<1>3. writer.buf \in Seq(Piece) /\ writer.file \in DOMAIN files
  BY <1>1, <1>2 DEF Writer, Follows
<1> QED BY <1>1, <1>2, <1>3

LEMMA LongerThanItself ==
  ASSUME NEW fs, FilesOK(fs)
  PROVE  Longer(fs, fs)
<1>1. \A i \in DOMAIN fs : Len(fs[i].data) <= Len(fs[i].data) /\ fs[i].synced <= fs[i].synced
  BY FileIs
<1> QED BY <1>1 DEF Longer

\* write_all takes a record, after it has perhaps written out the buffer.
LEMMA TakeKeeps ==
  ASSUME Typed, Distinguished(logged, life), NEW start, NEW owner, Described(start, owner), Up,
         NEW buf \in Seq(Piece), Longer(files', files), Laid(files', logged, start, owner),
         Follows(files', writer.file, buf, logged, start, owner, life),
         Take(NewRecord, buf \o Pieces(NewRecord)),
         UNCHANGED <<policy, life, errors, outages>>
  PROVE  Inductive'
<1>1. /\ FilesOK(files) /\ logged \in Seq(Record) /\ life \in Nat /\ life >= 1
      /\ start \in [DOMAIN files -> Nat] /\ owner \in [DOMAIN files -> Nat]
      /\ Confirmed(policy, returned, files, logged, start)
      /\ writer \in Writer
  BY Holding
<1>2. FilesOK(files') /\ DOMAIN files' = DOMAIN files
  BY DEF Longer
<1>3. PICK rec : rec = NewRecord
  OBVIOUS
<1>4. /\ rec \in Record /\ rec.life = life
      /\ Distinguished(Append(logged, rec), life)
  <2>1. rec = [life |-> life, seq |-> Len(Only(logged, Of(life))) + 1]
    BY <1>3 DEF NewRecord, Records, Of
  <2> QED BY <1>1, <2>1, DistinguishedLogged
<1>5. /\ logged' = Append(logged, rec)
      /\ writer' = [writer EXCEPT !.buf = buf \o Pieces(rec), !.seg_bytes = @ + 1, !.write_count = @ + 1]
      /\ GoOn(IF Due(writer.write_count + 1) THEN "flush" ELSE AfterSync(writer.seg_bytes + 1), rec)
  BY <1>3 DEF Take
<1>6. logged' \in Seq(Record)
  BY <1>1, <1>4, <1>5, AppendProperties
<1>7. writer' \in Writer /\ writer'.file = writer.file /\ writer'.seg_idx = writer.seg_idx
      /\ writer'.buf = buf \o Pieces(rec)
  <2> DEFINE b == buf \o Pieces(rec)
  <2>1. b \in Seq(Piece)
    BY <1>4, PiecesAre, ConcatProperties
  <2> HIDE DEF b
  <2>2. writer' = Taken(writer, b)
    BY <1>5 DEF b, Taken
  <2>3. writer' \in Writer /\ writer'.file = writer.file /\ writer'.seg_idx = writer.seg_idx /\ writer'.buf = b
    BY <1>1, <2>1, <2>2, WriterTakes
  <2> QED BY <2>3 DEF b
<1>8. /\ at' \in {"idle", "flush", "roll"}
      /\ policy = 1 => at' = "flush"
  <2>1. writer.write_count \in Nat
    BY <1>1 DEF Writer
  <2>2. policy = 1 => Due(writer.write_count + 1)
    BY <2>1 DEF Due
  <2> QED BY <1>5, <2>2 DEF GoOn, AfterSync
<1>9. returned' \subseteq returned \cup {rec} /\ (policy = 1 => returned' = returned)
  BY <1>5, <1>8 DEF GoOn
<1>10. Typed'
  BY <1>1, <1>2, <1>4, <1>6, <1>7, <1>8, <1>9 DEF Typed, Up
<1>11. Distinguished(logged, life)'
  BY <1>4, <1>5
<1>12. /\ Laid(files', logged', start, owner)
       /\ \A pol : Unbroken(pol, files', logged, start, owner)
                     => Unbroken(pol, files', logged', start, owner)
  BY <1>1, <1>2, <1>4, <1>5, LaidLogged
<1>13. policy = 1 \/ outages = 0 => Unbroken(policy, files', logged', start, owner)
  <2> HAVE policy = 1 \/ outages = 0
  <2>1. Unbroken(policy, files, logged, start, owner)
    BY DEF Described
  <2>2. Unbroken(policy, files', logged, start, owner)
    BY <1>1, <1>2, <2>1, GrownUnbroken DEF Longer
  <2> QED BY <1>12, <2>2
<1>14. /\ Follows(files', writer.file, buf \o Pieces(rec), logged', start, owner, life)
       /\ start[writer.file] < Len(logged')
  BY <1>1, <1>2, <1>4, <1>5, FollowsLogged
<1>15. Confirmed(policy, returned', files', logged', start)
  <2>1. Confirmed(policy, returned, files', logged, start)
    BY <1>1, ConfirmedLonger
  <2>2. Confirmed(policy, returned, files', logged', start)
    BY <1>1, <1>4, <1>5, <2>1, ConfirmedLogged
  <2> QED BY <1>9, <2>2 DEF Confirmed
<1>16. Writes(start, owner)'
  <2>1. writer.seg_idx >= writer.file
    BY DEF Described, Writes
  <2> QED BY <1>7, <1>8, <1>14, <2>1 DEF Writes
<1>17. Described(start, owner)'
  BY <1>1, <1>2, <1>12, <1>13, <1>15, <1>16 DEF Described, Segments
<1> QED BY <1>10, <1>11, <1>17 DEF Inductive

LEMMA AppendRecordKeeps == Inductive /\ AppendRecord => Inductive'
<1> SUFFICES ASSUME Inductive, AppendRecord PROVE Inductive'
  OBVIOUS
<1>1. PICK start, owner : Described(start, owner)
  BY DEF Inductive
<1>2. Typed /\ Distinguished(logged, life) /\ Up
  BY DEF Inductive, AppendRecord, Up
<1>3. /\ FilesOK(files) /\ Laid(files, logged, start, owner) /\ writer.buf \in Seq(Piece)
      /\ Follows(files, writer.file, writer.buf, logged, start, owner, life)
  BY <1>1, <1>2, Holding
<1>4. UNCHANGED <<policy, files, life, errors, outages>>
  BY DEF AppendRecord
<1>5. CASE Take(NewRecord, writer.buf \o Pieces(NewRecord))
  <2>1. Longer(files', files)
    BY <1>3, <1>4, LongerThanItself
  <2>2. Laid(files', logged, start, owner)
        /\ Follows(files', writer.file, writer.buf, logged, start, owner, life)
    BY <1>3, <1>4
  <2> QED BY <1>1, <1>2, <1>3, <1>4, <1>5, <2>1, <2>2, TakeKeeps
<1>6. CASE at' = "spill" /\ UNCHANGED <<writer, logged, returned>>
  <2>1. Typed'
    BY <1>2, <1>4, <1>6 DEF Typed, Up
  <2>2. Distinguished(logged, life)'
    BY <1>2, <1>4, <1>6
  <2>3. Described(start, owner)'
    BY <1>1, <1>2, <1>4, <1>6 DEF Described, Writes, Segments, Up
  <2> QED BY <2>1, <2>2, <2>3 DEF Inductive
<1> QED BY <1>5, <1>6 DEF AppendRecord

LEMMA SpillKeeps == Inductive /\ Spill => Inductive'
<1> SUFFICES ASSUME Inductive, Spill PROVE Inductive'
  OBVIOUS
<1>1. PICK start, owner : Described(start, owner)
  BY DEF Inductive
<1>2. Typed /\ Distinguished(logged, life) /\ Up
  BY DEF Inductive, Spill, Up
<1>3. /\ FilesOK(files) /\ logged \in Seq(Record) /\ life \in Nat /\ life >= 1
      /\ start \in [DOMAIN files -> Nat]
      /\ Laid(files, logged, start, owner) /\ writer.buf \in Seq(Piece)
      /\ Follows(files, writer.file, writer.buf, logged, start, owner, life)
  BY <1>1, <1>2, Holding
<1>4. files' = Extended(files, writer.file, writer.buf)
  BY DEF Spill, SpillInOrder, Written, Extended
<1>5. IsFlushed(files', files, writer.file, <<>>, logged, start, owner, life)
  BY <1>3, <1>4, FlushedAll
<1>6. /\ Longer(files', files) /\ Laid(files', logged, start, owner)
      /\ Follows(files', writer.file, <<>>, logged, start, owner, life)
  BY <1>5 DEF IsFlushed
<1>7. Take(NewRecord, <<>> \o Pieces(NewRecord)) /\ <<>> \in Seq(Piece)
  <2>1. NewRecord \in Record
    <3>1. PICK rec : rec = NewRecord
      OBVIOUS
    <3>2. rec = [life |-> life, seq |-> Len(Only(logged, Of(life))) + 1]
      BY <3>1 DEF NewRecord, Records, Of
    <3>3. rec \in Record
      BY <1>2, <1>3, <3>2, DistinguishedLogged
    <3> QED BY <3>1, <3>3
  <2>2. <<>> \o Pieces(NewRecord) = Pieces(NewRecord)
    BY <2>1, PiecesAre, ConcatEmptySeq
  <2>3. Take(NewRecord, Pieces(NewRecord))
    BY DEF Spill, SpillInOrder
  <2> QED BY <2>2, <2>3, EmptySeq
<1>8. UNCHANGED <<policy, life, errors, outages>>
  BY DEF Spill
<1> QED BY <1>1, <1>2, <1>6, <1>7, <1>8, TakeKeeps

\* Some of the buffer is written, and nothing else is done to the log.
LEMMA WrittenKeeps ==
  ASSUME Typed, Distinguished(logged, life), NEW start, NEW owner, Described(start, owner), Up,
         NEW rest, IsFlushed(files', files, writer.file, rest, logged, start, owner, life),
         writer' \in Writer,
         at' # "down" => /\ writer'.buf = rest /\ writer'.file = writer.file
                         /\ writer'.seg_idx >= writer.file,
         \/ at' \in {"idle", "down"}
         \/ at' = "sync" /\ rest = <<>> /\ start[writer.file] < Len(logged),
         UNCHANGED <<policy, life, logged, returned, outages>>
  PROVE  Inductive'
<1>1. /\ FilesOK(files) /\ logged \in Seq(Record)
      /\ start \in [DOMAIN files -> Nat] /\ owner \in [DOMAIN files -> Nat]
      /\ Confirmed(policy, returned, files, logged, start)
  BY Holding
<1>2. /\ Longer(files', files) /\ Laid(files', logged, start, owner)
      /\ Follows(files', writer.file, rest, logged, start, owner, life)
  BY DEF IsFlushed
<1>3. FilesOK(files') /\ DOMAIN files' = DOMAIN files
  BY <1>2 DEF Longer
<1>4. Typed'
  BY <1>3 DEF Typed, Up
<1>5. Distinguished(logged, life)'
  OBVIOUS
<1>6. policy = 1 \/ outages = 0 => Unbroken(policy, files', logged, start, owner)
  <2> HAVE policy = 1 \/ outages = 0
  <2>1. Unbroken(policy, files, logged, start, owner)
    BY DEF Described
  <2> QED BY <1>1, <1>2, <1>3, <2>1, GrownUnbroken DEF Longer
<1>7. Confirmed(policy, returned, files', logged, start)
  BY <1>1, <1>2, ConfirmedLonger
<1>8. Writes(start, owner)'
  BY <1>2 DEF Writes, Up
<1>9. Described(start, owner)'
  BY <1>1, <1>2, <1>3, <1>6, <1>7, <1>8 DEF Described, Segments
<1> QED BY <1>4, <1>5, <1>9 DEF Inductive

WriterIs(w, file, idx, buf) ==
  w \in Writer /\ w.file = file /\ w.seg_idx = idx /\ w.buf = buf

\* The writer without the first pieces of its buffer.
Emptied(w, rest) == [w EXCEPT !.buf = rest]

LEMMA WriterEmptied ==
  ASSUME NEW w \in Writer, NEW rest \in Seq(Piece), NEW new, new = Emptied(w, rest)
  PROVE  WriterIs(new, w.file, w.seg_idx, rest)
<1>1. PICK s \in Nat, f \in Nat, c \in Seq(Piece), m \in Nat, n \in Nat :
        w = [seg_idx |-> s, file |-> f, buf |-> c, seg_bytes |-> m, write_count |-> n]
  BY DEF Writer
<1>2. new = [seg_idx |-> s, file |-> f, buf |-> rest, seg_bytes |-> m, write_count |-> n]
  BY <1>1 DEF Emptied
<1> QED BY <1>1, <1>2 DEF Writer, WriterIs

Moved(w, file) == [w EXCEPT !.buf = <<>>, !.seg_idx = @ + 1, !.seg_bytes = 0, !.file = file]

LEMMA WriterMoved ==
  ASSUME NEW w \in Writer, NEW file \in Nat, NEW new, new = Moved(w, file)
  PROVE  WriterIs(new, file, w.seg_idx + 1, <<>>)
<1>1. PICK s \in Nat, f \in Nat, c \in Seq(Piece), m \in Nat, n \in Nat :
        w = [seg_idx |-> s, file |-> f, buf |-> c, seg_bytes |-> m, write_count |-> n]
  BY DEF Writer
<1>2. new = [seg_idx |-> s + 1, file |-> file, buf |-> <<>>, seg_bytes |-> 0, write_count |-> n]
  BY <1>1 DEF Moved
<1>3. <<>> \in Seq(Piece) /\ s + 1 \in Nat
  BY EmptySeq
<1>4. new \in Writer
  BY <1>2, <1>3 DEF Writer
<1>5. new.file = file /\ new.seg_idx = s + 1 /\ new.buf = <<>> /\ w.seg_idx = s
  BY <1>1, <1>2
<1> QED BY <1>4, <1>5 DEF WriterIs

LEMMA FlushKeeps == Inductive /\ (Flush \/ Stop \/ OpenFails) => Inductive'
<1> SUFFICES ASSUME Inductive, Flush \/ Stop \/ OpenFails PROVE Inductive'
  OBVIOUS
<1>1. PICK start, owner : Described(start, owner)
  BY DEF Inductive
<1>2. Typed /\ Distinguished(logged, life) /\ Up
  BY DEF Inductive, Flush, Stop, OpenFails, Up
<1>3. /\ FilesOK(files) /\ logged \in Seq(Record)
      /\ start \in [DOMAIN files -> Nat]
      /\ Laid(files, logged, start, owner) /\ writer.buf \in Seq(Piece)
      /\ Follows(files, writer.file, writer.buf, logged, start, owner, life)
      /\ writer \in Writer
  BY <1>1, <1>2, Holding
<1>4. files' = Extended(files, writer.file, writer.buf)
  BY DEF Flush, Stop, OpenFails, FlushBuffer, Written, Extended
<1>5. IsFlushed(files', files, writer.file, <<>>, logged, start, owner, life)
  BY <1>3, <1>4, FlushedAll
<1>6. UNCHANGED <<policy, life, logged, returned, outages>>
  BY DEF Flush, Stop, OpenFails, Fail
<1>7. writer' \in Writer /\ writer'.buf = <<>> /\ writer'.file = writer.file
      /\ writer'.seg_idx \in {writer.seg_idx, writer.seg_idx + 1}
  <2>1. CASE Flush \/ Stop
    <3>1. writer' = Emptied(writer, <<>>) /\ <<>> \in Seq(Piece)
      BY <2>1, EmptySeq DEF Flush, Stop, FlushBuffer, Emptied
    <3>2. WriterIs(writer', writer.file, writer.seg_idx, <<>>)
      BY <1>3, <3>1, WriterEmptied
    <3> QED BY <3>2 DEF WriterIs
  <2>2. CASE OpenFails
    <3>1. writer' = Moved(writer, writer.file) /\ writer.file \in Nat
      BY <1>3, <2>2 DEF OpenFails, RolledTo, Moved, Writer
    <3>2. WriterIs(writer', writer.file, writer.seg_idx + 1, <<>>)
      BY <1>3, <3>1, WriterMoved
    <3> QED BY <3>2 DEF WriterIs
  <2> QED BY <2>1, <2>2
<1>8. writer'.seg_idx >= writer.file
  <2>1. writer.seg_idx \in Nat /\ writer.file \in Nat
    BY <1>3 DEF Writer
  <2>2. writer.seg_idx >= writer.file
    BY <1>1, <1>2 DEF Described, Writes
  <2> QED BY <1>7, <2>1, <2>2
<1>9. \/ at' \in {"idle", "down"}
      \/ at' = "sync" /\ start[writer.file] < Len(logged)
  BY <1>1, <1>2 DEF Flush, Stop, OpenFails, Fail, Described, Writes
<1>10. at' # "down" => /\ writer'.buf = <<>> /\ writer'.file = writer.file
                       /\ writer'.seg_idx >= writer.file
  BY <1>7, <1>8
<1> QED BY <1>1, <1>2, <1>5, <1>6, <1>7, <1>9, <1>10, WrittenKeeps

\* A write that gets through the first n pieces of the buffer.
LEMMA PartlyFlushed ==
  ASSUME NEW fs, FilesOK(fs), NEW log \in Seq(Record),
         NEW start \in [DOMAIN fs -> Nat], NEW owner, Laid(fs, log, start, owner),
         NEW buf \in Seq(Piece), NEW f, NEW who, Follows(fs, f, buf, log, start, owner, who),
         NEW n \in 0 .. Len(buf), NEW new, new = Extended(fs, f, SubSeq(buf, 1, n))
  PROVE  /\ IsFlushed(new, fs, f, SubSeq(buf, n + 1, Len(buf)), log, start, owner, who)
         /\ SubSeq(buf, n + 1, Len(buf)) \in Seq(Piece)
<1> DEFINE x == SubSeq(buf, 1, n)
           rest == SubSeq(buf, n + 1, Len(buf))
<1>1. x \in Seq(Piece) /\ rest \in Seq(Piece) /\ x \o rest = buf
  BY Split
<1>2. new = Extended(fs, f, x)
  OBVIOUS
<1> HIDE DEF x, rest
<1>3. Follows(fs, f, x \o rest, log, start, owner, who)
  BY <1>1
<1>4. IsFlushed(new, fs, f, rest, log, start, owner, who)
  BY <1>1, <1>2, <1>3, Flushed
<1> QED BY <1>1, <1>4 DEF rest

LEMMA FailKeeps == Inductive /\ (WriteFails \/ SyncFails \/ Kill) => Inductive'
<1> SUFFICES ASSUME Inductive, WriteFails \/ SyncFails \/ Kill PROVE Inductive'
  OBVIOUS
<1>1. PICK start, owner : Described(start, owner)
  BY DEF Inductive
<1>2. Typed /\ Distinguished(logged, life) /\ Up
  BY DEF Inductive, WriteFails, SyncFails, Kill, Writing, Up
<1>3. /\ FilesOK(files) /\ logged \in Seq(Record)
      /\ start \in [DOMAIN files -> Nat]
      /\ Laid(files, logged, start, owner) /\ writer.buf \in Seq(Piece)
      /\ Follows(files, writer.file, writer.buf, logged, start, owner, life)
      /\ writer \in Writer
  BY <1>1, <1>2, Holding
<1>4. writer.seg_idx >= writer.file
  BY <1>1, <1>2 DEF Described, Writes
<1>5. UNCHANGED <<policy, life, logged, returned, outages>>
  BY DEF WriteFails, SyncFails, Kill, Fail
<1>6. CASE WriteFails \/ Kill
  <2>1. \E n \in 0 .. Len(writer.buf) :
          /\ files' = Written(SubSeq(writer.buf, 1, n))
          /\ \/ /\ writer' = [writer EXCEPT !.buf = SubSeq(@, n + 1, Len(@))]
                /\ at' = "idle"
             \/ writer' = [writer EXCEPT !.buf = <<>>] /\ at' = "down"
    BY <1>6 DEF WriteFails, Kill, Fail
  <2>2. PICK n \in 0 .. Len(writer.buf) :
          /\ files' = Written(SubSeq(writer.buf, 1, n))
          /\ \/ /\ writer' = [writer EXCEPT !.buf = SubSeq(@, n + 1, Len(@))]
                /\ at' = "idle"
             \/ writer' = [writer EXCEPT !.buf = <<>>] /\ at' = "down"
    BY <2>1
  <2> DEFINE rest == SubSeq(writer.buf, n + 1, Len(writer.buf))
  <2>3. files' = Extended(files, writer.file, SubSeq(writer.buf, 1, n))
    BY <2>2 DEF Written, Extended
  <2>4. /\ IsFlushed(files', files, writer.file, rest, logged, start, owner, life)
        /\ rest \in Seq(Piece)
    BY <1>3, <2>3, PartlyFlushed
  <2>5. CASE at' = "idle"
    <3>1. writer' = Emptied(writer, rest)
      BY <2>2, <2>5 DEF Emptied
    <3> HIDE DEF rest
    <3>2. WriterIs(writer', writer.file, writer.seg_idx, rest)
      BY <1>3, <2>4, <3>1, WriterEmptied
    <3>3. writer' \in Writer
      BY <3>2 DEF WriterIs
    <3>4. at' # "down" => /\ writer'.buf = rest /\ writer'.file = writer.file
                          /\ writer'.seg_idx >= writer.file
      BY <1>4, <3>2 DEF WriterIs
    <3>5. at' \in {"idle", "down"}
      BY <2>5
    <3> QED BY <1>1, <1>2, <1>5, <2>4, <3>3, <3>4, <3>5, WrittenKeeps
  <2>6. CASE at' = "down"
    <3>1. writer' = Emptied(writer, <<>>) /\ <<>> \in Seq(Piece)
      BY <2>2, <2>6, EmptySeq DEF Emptied
    <3>2. WriterIs(writer', writer.file, writer.seg_idx, <<>>)
      BY <1>3, <3>1, WriterEmptied
    <3>3. writer' \in Writer
      BY <3>2 DEF WriterIs
    <3>4. at' # "down" => /\ writer'.buf = rest /\ writer'.file = writer.file
                          /\ writer'.seg_idx >= writer.file
      BY <2>6
    <3>5. at' \in {"idle", "down"}
      BY <2>6
    <3> HIDE DEF rest
    <3> QED BY <1>1, <1>2, <1>5, <2>4, <3>3, <3>4, <3>5, WrittenKeeps
  <2> QED BY <2>2, <2>5, <2>6
<1>7. CASE SyncFails
  <2>1. UNCHANGED <<files, writer>> /\ at' = "idle"
    BY <1>7 DEF SyncFails, Fail
  <2>2. IsFlushed(files', files, writer.file, writer.buf, logged, start, owner, life)
    BY <1>3, <2>1, LongerThanItself DEF IsFlushed
  <2>3. writer' \in Writer
    BY <1>3, <2>1
  <2>4. at' # "down" => /\ writer'.buf = writer.buf /\ writer'.file = writer.file
                        /\ writer'.seg_idx >= writer.file
    BY <1>4, <2>1
  <2>5. at' \in {"idle", "down"}
    BY <2>1
  <2> QED BY <1>1, <1>2, <1>5, <2>2, <2>3, <2>4, <2>5, WrittenKeeps
<1> QED BY <1>6, <1>7

LEMMA SyncDataKeeps == Inductive /\ SyncData => Inductive'
<1> SUFFICES ASSUME Inductive, SyncData PROVE Inductive'
  OBVIOUS
<1>1. PICK start, owner : Described(start, owner)
  BY DEF Inductive
<1>2. Typed /\ Distinguished(logged, life) /\ Up
  BY DEF Inductive, SyncData, Up
<1> DEFINE f == writer.file
<1>3. /\ FilesOK(files) /\ logged \in Seq(Record)
      /\ start \in [DOMAIN files -> Nat] /\ owner \in [DOMAIN files -> Nat]
      /\ Laid(files, logged, start, owner)
      /\ Confirmed(policy, returned, files, logged, start)
      /\ f \in DOMAIN files
  BY <1>1, <1>2, Holding
<1>4. /\ Follows(files, f, <<>>, logged, start, owner, life) /\ writer.buf = <<>>
      /\ start[f] < Len(logged) /\ writer.seg_idx >= f
  BY <1>1, <1>2 DEF Described, Writes, SyncData
<1>5. /\ files' = SyncedAt(files, f)
      /\ at' \in {"idle", "roll"}
      /\ returned' \subseteq returned \cup {logged[Len(logged)]}
      /\ UNCHANGED <<policy, writer, life, logged, errors, outages>>
  BY DEF SyncData, SyncedAt, GoOn, AfterSync, Newest
<1>6. IsSynced(files', files, f)
  BY <1>3, <1>5, FileSynced
<1>7. /\ Longer(files', files) /\ FilesOK(files') /\ DOMAIN files' = DOMAIN files
      /\ files'[f].data = files[f].data /\ files'[f].synced = Len(files'[f].data)
      /\ \A i \in DOMAIN files : files'[i].data = files[i].data
  <2>1. \A i \in DOMAIN files : files'[i].data = files[i].data
    BY <1>6 DEF IsSynced
  <2>2. ASSUME NEW i \in DOMAIN files
        PROVE  Len(files[i].data) <= Len(files'[i].data) /\ files[i].synced <= files'[i].synced
    <3>1. files[i].synced \in Nat /\ Len(files[i].data) \in Nat /\ files[i].synced <= Len(files[i].data)
      BY <1>3, FileIs
    <3>2. CASE i = f
      BY <1>6, <3>1, <3>2 DEF IsSynced
    <3>3. CASE i # f
      BY <1>6, <3>1, <3>3 DEF IsSynced
    <3> QED BY <3>2, <3>3
  <2> QED BY <1>6, <2>1, <2>2 DEF Longer, IsSynced
<1>8. Laid(files', logged, start, owner)
  <2>1. \A i \in DOMAIN files : /\ Len(files'[i].data) <= Len(files[i].data)
                                /\ \A j \in 1 .. Len(files'[i].data) : files'[i].data[j] = files[i].data[j]
    <3> TAKE i \in DOMAIN files
    <3>1. files'[i].data = files[i].data /\ Len(files[i].data) \in Nat
      BY <1>3, <1>7, FileIs
    <3> QED BY <3>1
  <2> QED BY <1>3, <1>7, <2>1, LaidShorter
<1>9. Follows(files', f, <<>>, logged, start, owner, life)
  BY <1>3, <1>4, <1>7 DEF Follows
<1>10. policy = 1 \/ outages = 0 => Unbroken(policy, files', logged, start, owner)
  <2> HAVE policy = 1 \/ outages = 0
  <2>1. Unbroken(policy, files, logged, start, owner)
    BY <1>1 DEF Described
  <2> QED BY <1>3, <1>7, <2>1, GrownUnbroken DEF Longer
<1>11. Confirmed(policy, returned', files', logged, start)
  <2>1. Confirmed(policy, returned, files', logged, start)
    BY <1>3, <1>7, ConfirmedLonger
  <2>2. Confirmed(policy, returned \cup {logged[Len(logged)]}, files', logged, start)
    BY <1>3, <1>4, <1>7, <1>9, <2>1, NewestIsDurable
  <2> QED BY <1>5, <2>2 DEF Confirmed
<1>12. Typed'
  <2>1. logged[Len(logged)] \in Record
    <3>1. Len(logged) \in Nat /\ start[f] \in Nat
      BY <1>3, LenProperties
    <3>2. Len(logged) \in 1 .. Len(logged)
      BY <1>4, <3>1
    <3> QED BY <1>3, <3>2, ElementOfSeq
  <2> QED BY <1>2, <1>5, <1>7, <2>1 DEF Typed, Up
<1>13. Distinguished(logged, life)'
  BY <1>2, <1>5
<1>14. Writes(start, owner)'
  BY <1>4, <1>5, <1>7, <1>9 DEF Writes, Up
<1>15. Described(start, owner)'
  BY <1>3, <1>5, <1>7, <1>8, <1>10, <1>11, <1>14 DEF Described, Segments
<1> QED BY <1>12, <1>13, <1>15 DEF Inductive

LEMMA RollSegmentKeeps == Inductive /\ RollSegment => Inductive'
<1> SUFFICES ASSUME Inductive, RollSegment PROVE Inductive'
  OBVIOUS
<1>1. PICK start, owner : Described(start, owner)
  BY DEF Inductive
<1>2. Typed /\ Distinguished(logged, life) /\ Up
  BY DEF Inductive, RollSegment, Up
<1> DEFINE f == writer.file
<1>3. /\ FilesOK(files) /\ logged \in Seq(Record) /\ life \in Nat
      /\ start \in [DOMAIN files -> Nat] /\ owner \in [DOMAIN files -> Nat]
      /\ Laid(files, logged, start, owner) /\ writer.buf \in Seq(Piece)
      /\ Follows(files, f, writer.buf, logged, start, owner, life)
      /\ Confirmed(policy, returned, files, logged, start)
      /\ writer \in Writer /\ f \in DOMAIN files
  BY <1>1, <1>2, Holding
<1>4. /\ start[f] < Len(logged) /\ writer.seg_idx >= f
      /\ policy = 1 => writer.buf = <<>> /\ files[f].synced = Len(files[f].data)
  BY <1>1, <1>2 DEF Described, Writes, RollSegment
<1>5. PICK idx : idx = writer.seg_idx + 1
  OBVIOUS
<1>6. PICK mid : mid = Extended(files, f, writer.buf)
  OBVIOUS
<1>7. IsFlushed(mid, files, f, <<>>, logged, start, owner, life)
  BY <1>3, <1>6, FlushedAll
<1>8. /\ Longer(mid, files) /\ Laid(mid, logged, start, owner)
      /\ Follows(mid, f, <<>>, logged, start, owner, life)
      /\ FilesOK(mid) /\ DOMAIN mid = DOMAIN files
  BY <1>7 DEF IsFlushed, Longer
<1>9. idx \in Nat \ {0} /\ \A i \in DOMAIN mid : i < idx
  <2>1. writer.seg_idx \in Nat /\ f \in Nat
    BY <1>3 DEF Writer
  <2>2. \A i \in DOMAIN mid : i \in Nat /\ i <= f
    BY <1>8 DEF Follows, FilesOK
  <2> QED BY <1>4, <1>5, <2>1, <2>2
<1>10. files' = WithFile(mid, idx, EmptyFile)
  <2>1. files' = Opened(mid, idx)
    BY <1>5, <1>6 DEF RollSegment, Written, Extended
  <2>2. idx \notin DOMAIN mid
    BY <1>8, <1>9 DEF FilesOK
  <2> QED BY <2>1, <2>2 DEF Opened
<1>11. PICK from, by : from = With(start, idx, Len(logged)) /\ by = With(owner, idx, life)
  OBVIOUS
<1>12. start \in [DOMAIN mid -> Nat] /\ owner \in [DOMAIN mid -> Nat]
  BY <1>3, <1>8
<1>13. Continued(files', from, by, mid, logged, start, owner, idx, life)
  BY <1>3, <1>8, <1>9, <1>10, <1>11, <1>12, NewSegment
<1>14. FilesOK(files')
  BY <1>8, <1>9, <1>10, NewSegmentFile
<1>15. policy = 1 => mid[f].synced = Len(mid[f].data)
  <2> HAVE policy = 1
  <2>1. IsExtended(mid, files, f, writer.buf)
    BY <1>3, <1>6, FileWritten
  <2>2. Len(mid[f].data) = Len(files[f].data) + Len(<<>>) /\ mid[f].synced = files[f].synced
    BY <1>4, <2>1 DEF IsExtended
  <2>3. Len(files[f].data) \in Nat /\ Len(<<>>) = 0
    BY <1>3, FileIs
  <2> QED BY <1>4, <2>2, <2>3
<1>16. policy = 1 \/ outages = 0 => Unbroken(policy, files', logged, from, by)
  <2> HAVE policy = 1 \/ outages = 0
  <2>1. Unbroken(policy, files, logged, start, owner)
    BY <1>1 DEF Described
  <2>2. Unbroken(policy, mid, logged, start, owner)
    BY <1>3, <1>8, <2>1, GrownUnbroken DEF Longer
  <2>3. \A k \in 1 .. Len(logged) : logged[k].life = life => Safe(policy, mid, start, k)
    BY <1>3, <1>8, <1>12, <1>15, <2>2, AllSafe
  <2> QED BY <1>13, <2>2, <2>3 DEF Continued
<1>17. Confirmed(policy, returned \cup {logged[Len(logged)]}, files', logged, from)
  <2>1. CASE policy = 1
    <3>1. Confirmed(policy, returned, mid, logged, start)
      BY <1>3, <1>8, ConfirmedLonger
    <3>2. Confirmed(policy, returned \cup {logged[Len(logged)]}, mid, logged, start)
      BY <1>3, <1>4, <1>8, <1>12, <1>15, <2>1, <3>1, NewestIsDurable
    <3> QED BY <1>3, <1>13, <3>2, ConfirmedContinued
  <2>2. CASE policy # 1
    BY <2>2 DEF Confirmed
  <2> QED BY <2>1, <2>2
<1>18. Follows(files', idx, <<>>, logged, from, by, life)
  <2>1. from[idx] = Len(logged) /\ by[idx] = life
    BY <1>13 DEF Continued
  <2> QED BY <1>3, <1>8, <1>9, <1>10, <2>1, FollowsNew
<1>19. /\ writer' = Moved(writer, idx)
       /\ at' = "idle" /\ returned' = returned \cup {logged[Len(logged)]}
       /\ UNCHANGED <<policy, life, logged, errors, outages>>
  BY <1>5 DEF RollSegment, RolledTo, Moved, GoOn, Newest
<1>20. WriterIs(writer', idx, writer.seg_idx + 1, <<>>)
  BY <1>3, <1>9, <1>19, WriterMoved
<1>21. Typed'
  <2>1. logged[Len(logged)] \in Record
    <3>1. Len(logged) \in Nat /\ start[f] \in Nat
      BY <1>3, LenProperties
    <3>2. Len(logged) \in 1 .. Len(logged)
      BY <1>4, <3>1
    <3> QED BY <1>3, <3>2, ElementOfSeq
  <2> QED BY <1>2, <1>14, <1>19, <1>20, <2>1 DEF Typed, Up, WriterIs
<1>22. Distinguished(logged, life)'
  BY <1>2, <1>19
<1>23. Writes(from, by)'
  BY <1>5, <1>9, <1>18, <1>19, <1>20 DEF Writes, Up, WriterIs
<1>24. Described(from, by)'
  BY <1>13, <1>16, <1>17, <1>19, <1>23 DEF Described, Segments, Continued
<1> QED BY <1>21, <1>22, <1>24 DEF Inductive

LEMMA PowerFailureKeeps == Inductive /\ PowerFailure => Inductive'
<1> SUFFICES ASSUME Inductive, PowerFailure PROVE Inductive'
  OBVIOUS
<1>1. PICK start, owner : Described(start, owner)
  BY DEF Inductive
<1>2. Typed /\ Distinguished(logged, life)
  BY DEF Inductive
<1>3. /\ FilesOK(files) /\ logged \in Seq(Record) /\ outages \in Nat /\ writer \in Writer
      /\ start \in [DOMAIN files -> Nat] /\ owner \in [DOMAIN files -> Nat]
      /\ Laid(files, logged, start, owner)
      /\ Confirmed(policy, returned, files, logged, start)
  BY <1>1, <1>2 DEF Typed, Described, Segments
<1>4. PICK length :
        /\ \A i \in Segments : length[i] \in files[i].synced .. Len(files[i].data)
        /\ files' = [i \in Segments |-> [data   |-> SubSeq(files[i].data, 1, length[i]),
                                         synced |-> length[i]]]
  BY DEF PowerFailure
<1>5. files' = Cut(files, length)
  BY <1>4 DEF Cut, Segments
<1>6. IsCut(files', files)
  BY <1>3, <1>4, <1>5, CutFiles DEF Segments
<1>7. /\ at' = "down" /\ outages' = outages + 1
      /\ writer' = Emptied(writer, <<>>)
      /\ UNCHANGED <<policy, life, logged, returned>>
  BY DEF PowerFailure, Emptied
<1>8. FilesOK(files') /\ DOMAIN files' = DOMAIN files
  BY <1>6 DEF IsCut
<1>9. Laid(files', logged, start, owner)
  <2>1. \A i \in DOMAIN files :
          /\ Len(files'[i].data) <= Len(files[i].data)
          /\ \A j \in 1 .. Len(files'[i].data) : files'[i].data[j] = files[i].data[j]
    BY <1>6 DEF IsCut
  <2> QED BY <1>3, <1>8, <2>1, LaidShorter
<1>10. \A k \in Nat : Durable(files, start, k) => Durable(files', start, k)
  <2> TAKE k \in Nat
  <2> HAVE Durable(files, start, k)
  <2>1. PICK i \in DOMAIN files : Within(k, start[i], files[i].synced)
    BY DEF Durable
  <2>2. files[i].synced \in Nat /\ files'[i].synced \in Nat /\ start[i] \in Nat
    BY <1>3, <1>8, FileIs
  <2>3. Within(k, start[i], files'[i].synced)
    BY <1>6, <2>1, <2>2 DEF Within, IsCut
  <2> QED BY <1>8, <2>3 DEF Durable
<1>11. policy = 1 \/ outages' = 0 => Unbroken(policy, files', logged, start, owner)
  <2>1. outages' # 0
    BY <1>3, <1>7
  <2> SUFFICES ASSUME policy = 1 PROVE Unbroken(policy, files', logged, start, owner)
    BY <2>1
  <2>2. Unbroken(policy, files, logged, start, owner)
    BY <1>1 DEF Described
  <2>3. \A i \in DOMAIN files : \A k \in 1 .. start[i] : k \in Nat
    BY <1>3
  <2> QED BY <1>3, <1>8, <1>10, <2>2, <2>3 DEF Unbroken, Safe
<1>12. Confirmed(policy, returned, files', logged, start)
  <2> SUFFICES ASSUME policy = 1, NEW rec \in returned
               PROVE  \E k \in 1 .. Len(logged) : logged[k] = rec /\ Durable(files', start, k)
    BY DEF Confirmed
  <2>1. PICK k \in 1 .. Len(logged) : logged[k] = rec /\ Durable(files, start, k)
    BY <1>3 DEF Confirmed
  <2>2. k \in Nat
    OBVIOUS
  <2> QED BY <1>10, <2>1, <2>2
<1>13. Typed'
  <2>1. <<>> \in Seq(Piece)
    BY EmptySeq
  <2>2. WriterIs(writer', writer.file, writer.seg_idx, <<>>)
    BY <1>3, <1>7, <2>1, WriterEmptied
  <2>3. writer' \in Writer
    BY <2>2 DEF WriterIs
  <2> QED BY <1>2, <1>3, <1>7, <1>8, <2>3 DEF Typed, Up
<1>14. Distinguished(logged, life)'
  BY <1>2, <1>7
<1>15. Described(start, owner)'
  BY <1>3, <1>7, <1>8, <1>9, <1>11, <1>12 DEF Described, Segments, Writes, Up
<1> QED BY <1>13, <1>14, <1>15 DEF Inductive

\* The invariant holds of the log, whatever fails and however often.
THEOREM Invariance == Spec => []Inductive
<1>1. Inductive /\ [Next]_vars => Inductive'
  <2> SUFFICES ASSUME Inductive, [Next]_vars PROVE Inductive'
    OBVIOUS
  <2>1. CASE Open
    BY <2>1, OpenKeeps
  <2>2. CASE AppendRecord
    BY <2>2, AppendRecordKeeps
  <2>3. CASE Spill
    BY <2>3, SpillKeeps
  <2>4. CASE Flush \/ Stop \/ OpenFails
    BY <2>4, FlushKeeps
  <2>5. CASE SyncData
    BY <2>5, SyncDataKeeps
  <2>6. CASE RollSegment
    BY <2>6, RollSegmentKeeps
  <2>7. CASE WriteFails \/ SyncFails \/ Kill
    BY <2>7, FailKeeps
  <2>8. CASE PowerFailure
    BY <2>8, PowerFailureKeeps
  <2>9. CASE UNCHANGED vars
    <3>1. UNCHANGED <<policy, files, writer, at, life, logged, returned, outages>>
      BY <2>9 DEF vars
    <3>2. Typed' /\ Distinguished(logged, life)'
      BY <3>1 DEF Inductive, Typed, Up
    <3>3. PICK start, owner : Described(start, owner)
      BY DEF Inductive
    <3>4. Described(start, owner)'
      BY <3>1, <3>3 DEF Described, Writes, Segments, Up
    <3> QED BY <3>2, <3>4 DEF Inductive
  <2> QED BY <2>1, <2>2, <2>3, <2>4, <2>5, <2>6, <2>7, <2>8, <2>9 DEF Next
<1> QED BY InitIsInductive, <1>1, PTL DEF Spec

(***************************************************************************)
(* What a replay makes of files that are laid out like this.               *)
(***************************************************************************)

\* Every record that a file has in full is read.
LEMMA AllWhole ==
  ASSUME NEW d \in Seq(Piece), NEW log \in Seq(Record), NEW from, Lies(d, log, from)
  PROVE  /\ Framed(d) \in Nat /\ 2 * Framed(d) <= Len(d) /\ Len(d) < 2 * Framed(d) + 2
         /\ Readable(d) = Framed(d)
         /\ \A k \in 1 .. Framed(d) : d[2 * k].rec = log[from + k] /\ from + k \in 1 .. Len(log)
<1>1. Len(d) \in Nat /\ Len(log) \in Nat
  BY LenProperties
<1>2. Framed(d) \in Nat /\ 2 * Framed(d) <= Len(d) /\ Len(d) < 2 * Framed(d) + 2
  BY <1>1 DEF Framed
<1>3. from \in 0 .. Len(log) /\ Len(d) <= 2 * (Len(log) - from)
  BY DEF Lies
<1>4. \A k \in 1 .. Framed(d) : /\ k \in 1 .. Len(log) - from
                                /\ 2 * k - 1 <= Len(d) /\ 2 * k <= Len(d)
  BY <1>1, <1>2, <1>3
<1>5. \A k \in 1 .. Framed(d) : d[2 * k - 1] = Frame(log[from + k]) /\ d[2 * k] = Body(log[from + k])
  BY <1>4 DEF Lies
<1>6. \A k \in 1 .. Framed(d) : Whole(d, k)
  <2> TAKE k \in 1 .. Framed(d)
  <2>1. \A rec : Frame(rec).part = "frame" /\ [Frame(rec) EXCEPT !.part = "body"] = Body(rec)
    BY DEF Frame, Body
  <2> QED BY <1>5, <2>1 DEF Whole
<1>7. Readable(d) = Framed(d)
  <2> DEFINE S == {m \in 0 .. Framed(d) : \A k \in 1 .. m : Whole(d, k)}
  <2>1. Framed(d) \in S /\ \A m \in S : Framed(d) >= m
    BY <1>2, <1>6
  <2>2. \A m \in S : (\A l \in S : m >= l) => m = Framed(d)
    BY <1>2, <2>1
  <2>3. Readable(d) = Max(S)
    BY DEF Readable
  <2> HIDE DEF S
  <2>4. Max(S) = Framed(d)
    BY <2>1, <2>2 DEF Max
  <2> QED BY <2>3, <2>4
<1>8. \A k \in 1 .. Framed(d) : d[2 * k].rec = log[from + k] /\ from + k \in 1 .. Len(log)
  <2> TAKE k \in 1 .. Framed(d)
  <2>1. \A rec : Body(rec).rec = rec
    BY DEF Body
  <2>2. from + k \in 1 .. Len(log)
    BY <1>1, <1>3, <1>4
  <2> QED BY <1>5, <2>1, <2>2
<1> QED BY <1>2, <1>7, <1>8

\* t is what segments 1 to i have kept of the log, phi tells where it was logged.
Collected(t, i, phi, fs, log, start) ==
  /\ t \in Seq(Record) /\ Embeds(t, log, phi)
  /\ \A m \in 1 .. Len(t) : \E j \in DOMAIN fs : j <= i /\ Within(phi[m], start[j], Len(fs[j].data))
  /\ \A j \in DOMAIN fs : j <= i =>
       \A k \in Nat : Within(k, start[j], Len(fs[j].data)) => \E m \in 1 .. Len(t) : phi[m] = k

LEMMA Halves ==
  \A p, s, l, g \in Nat : 2 * (p - s) <= l /\ 2 * s + l <= 2 * g => p <= g
OBVIOUS

LEMMA CollectedNext ==
  ASSUME NEW fs, FilesOK(fs), NEW log \in Seq(Record), NEW start \in [DOMAIN fs -> Nat], NEW owner,
         Laid(fs, log, start, owner), NEW i \in Nat, NEW t, NEW phi,
         Collected(t, i, phi, fs, log, start), i + 1 \in DOMAIN fs,
         NEW n \in Nat, 2 * n <= Len(fs[i + 1].data), Len(fs[i + 1].data) < 2 * n + 2,
         NEW r \in Seq(Record), Len(r) = n,
         \A k \in 1 .. n : r[k] = log[start[i + 1] + k] /\ start[i + 1] + k \in 1 .. Len(log)
  PROVE  \E psi : Collected(t \o r, i + 1, psi, fs, log, start)
<1> DEFINE from == start[i + 1]
           end == Len(fs[i + 1].data)
           u == t \o r
           psi == [m \in 1 .. Len(t) + n |-> IF m <= Len(t) THEN phi[m] ELSE from + (m - Len(t))]
<1>1. from \in Nat /\ end \in Nat /\ Len(log) \in Nat
  BY FileIs, LenProperties
<1>2. t \in Seq(Record) /\ Len(t) \in Nat /\ Embeds(t, log, phi)
  BY LenProperties DEF Collected
<1>3. /\ u \in Seq(Record) /\ Len(u) = Len(t) + n
      /\ \A m \in 1 .. Len(t) + n : u[m] = IF m <= Len(t) THEN t[m] ELSE r[m - Len(t)]
  BY ZenonT(60), <1>2, ConcatProperties
<1>4. \A m \in 1 .. Len(t) : phi[m] \in 1 .. Len(log) /\ phi[m] <= from
  <2> TAKE m \in 1 .. Len(t)
  <2>1. phi[m] \in 1 .. Len(log)
    BY <1>2 DEF Embeds
  <2>2. PICK j \in DOMAIN fs : j <= i /\ Within(phi[m], start[j], Len(fs[j].data))
    BY DEF Collected
  <2>3. j \in Nat /\ start[j] \in Nat /\ Len(fs[j].data) \in Nat
    BY FileIs
  <2>4. 2 * start[j] + Len(fs[j].data) <= 2 * from
    <3>1. j < i + 1
      BY <2>2, <2>3
    <3> QED BY <3>1 DEF Laid
  <2>5. phi[m] \in Nat /\ 2 * (phi[m] - start[j]) <= Len(fs[j].data)
    BY <2>1, <2>2 DEF Within
  <2> HIDE DEF from
  <2>6. phi[m] <= from
    BY <1>1, <2>3, <2>4, <2>5, Halves
  <2> QED BY <2>1, <2>6
<1>5. \A m \in 1 .. Len(t) : m \in 1 .. Len(u) /\ psi[m] = phi[m] /\ u[m] = t[m]
  BY <1>2, <1>3
<1>6. \A k \in 1 .. n : /\ Len(t) + k \in 1 .. Len(u) /\ psi[Len(t) + k] = from + k
                        /\ u[Len(t) + k] = r[k]
  <2> TAKE k \in 1 .. n
  <2>1. Len(t) + k \in 1 .. Len(t) + n /\ ~(Len(t) + k <= Len(t)) /\ (Len(t) + k) - Len(t) = k
    BY <1>2
  <2> QED BY <1>3, <2>1
<1>7. \A m \in 1 .. Len(u) : m \in 1 .. Len(t) \/ \E k \in 1 .. n : m = Len(t) + k
  <2> TAKE m \in 1 .. Len(u)
  <2>1. CASE m <= Len(t)
    BY <1>2, <2>1
  <2>2. CASE m > Len(t)
    <3>1. m - Len(t) \in 1 .. n /\ m = Len(t) + (m - Len(t))
      BY <1>2, <1>3, <2>2
    <3> QED BY <3>1
  <2> QED BY <1>2, <1>3, <2>1, <2>2
<1>8. psi = [m \in 1 .. Len(u) |-> psi[m]]
  BY <1>3
<1>9. i + 1 \in Nat /\ i + 1 <= i + 1 /\ \A j \in DOMAIN fs : j \in Nat /\ (j <= i + 1 => j <= i \/ j = i + 1)
  BY FileIs
<1> HIDE DEF psi, u, from, end
<1>10. \A m \in 1 .. Len(u) : psi[m] \in 1 .. Len(log) /\ u[m] = log[psi[m]]
  <2> TAKE m \in 1 .. Len(u)
  <2>1. CASE m \in 1 .. Len(t)
    BY <1>2, <1>4, <1>5, <2>1 DEF Embeds
  <2>2. ASSUME NEW k \in 1 .. n, m = Len(t) + k
        PROVE  psi[m] \in 1 .. Len(log) /\ u[m] = log[psi[m]]
    BY <1>6, <2>2 DEF from
  <2> QED BY <1>7, <2>1, <2>2
<1>11. \A l, m \in 1 .. Len(u) : l < m => psi[l] < psi[m]
  <2> SUFFICES ASSUME NEW l \in 1 .. Len(u), NEW m \in 1 .. Len(u), l < m
               PROVE  psi[l] < psi[m]
    OBVIOUS
  <2>1. CASE l \in 1 .. Len(t) /\ m \in 1 .. Len(t)
    BY <1>2, <1>5, <2>1 DEF Embeds
  <2>2. ASSUME l \in 1 .. Len(t), NEW k \in 1 .. n, m = Len(t) + k
        PROVE  psi[l] < psi[m]
    <3>1. psi[m] = from + k /\ psi[l] = phi[l]
      BY <1>5, <1>6, <2>2
    <3>2. phi[l] \in Nat /\ phi[l] <= from /\ k \in Nat /\ k >= 1
      BY SMTT(60), <1>4, <2>2
    <3>3. \A a, b, c \in Nat : a <= b /\ c >= 1 => a < b + c
      OBVIOUS
    <3>4. phi[l] < from + k
      BY <1>1, <3>2, <3>3
    <3> QED BY <3>1, <3>4
  <2>3. ASSUME NEW j \in 1 .. n, l = Len(t) + j, NEW k \in 1 .. n, m = Len(t) + k
        PROVE  psi[l] < psi[m]
    <3>1. j < k
      BY <1>2, <2>3
    <3>2. psi[l] = from + j /\ psi[m] = from + k
      BY <1>6, <2>3
    <3> QED BY <1>1, <3>1, <3>2
  <2>4. ASSUME NEW j \in 1 .. n, l = Len(t) + j, m \in 1 .. Len(t)
        PROVE  psi[l] < psi[m]
    BY <1>2, <2>4
  <2> QED BY <1>7, <2>1, <2>2, <2>3, <2>4
<1>12. Embeds(u, log, psi)
  <2>1. psi \in [1 .. Len(u) -> 1 .. Len(log)]
    BY <1>8, <1>10
  <2> QED BY <1>10, <1>11, <2>1 DEF Embeds
<1>13. ASSUME NEW m \in 1 .. Len(u)
       PROVE  \E j \in DOMAIN fs : j <= i + 1 /\ Within(psi[m], start[j], Len(fs[j].data))
  <2>1. CASE m \in 1 .. Len(t)
    <3>1. PICK j \in DOMAIN fs : j <= i /\ Within(phi[m], start[j], Len(fs[j].data))
      BY <2>1 DEF Collected
    <3>2. j <= i + 1
      BY <1>9, <3>1
    <3> QED BY <1>5, <2>1, <3>1, <3>2
  <2>2. ASSUME NEW k \in 1 .. n, m = Len(t) + k
        PROVE  \E j \in DOMAIN fs : j <= i + 1 /\ Within(psi[m], start[j], Len(fs[j].data))
    <3>1. psi[m] = from + k
      BY <1>6, <2>2
    <3>2. Within(from + k, from, end)
      <4>1. 2 * n <= end
        BY DEF end
      <4> QED BY <1>1, <4>1 DEF Within
    <3> QED BY <1>9, <3>1, <3>2 DEF from, end
  <2> QED BY <1>7, <2>1, <2>2
<1>14. ASSUME NEW j \in DOMAIN fs, j <= i + 1, NEW k \in Nat, Within(k, start[j], Len(fs[j].data))
       PROVE  \E m \in 1 .. Len(u) : psi[m] = k
  <2>1. CASE j <= i
    <3>1. PICK m \in 1 .. Len(t) : phi[m] = k
      BY <1>14, <2>1 DEF Collected
    <3> QED BY <1>5, <3>1
  <2>2. CASE j = i + 1
    <3>1. from < k /\ 2 * (k - from) <= end
      BY <1>14, <2>2 DEF Within, from, end
    <3>2. end < 2 * n + 2
      BY DEF end
    <3>3. k - from \in 1 .. n /\ from + (k - from) = k
      BY <1>1, <3>1, <3>2
    <3> QED BY <1>6, <3>3
  <2> QED BY <1>9, <1>14, <2>1, <2>2
<1> QED BY ZenonT(60), <1>3, <1>12, <1>13, <1>14 DEF Collected, u

\* What segments 1 to i give, as the replay puts it together.
IsRead(f, n) == f = [i \in 0 .. n |-> IF i = 0 THEN <<>> ELSE f[i - 1] \o ReadFrom(i)]

LEMMA ReadExists == \A n \in Nat : \E f : IsRead(f, n)
<1> DEFINE T == {n \in Nat : \E f : IsRead(f, n)}
<1>1. 0 \in T
  <2>1. IsRead([i \in 0 .. 0 |-> <<>>], 0)
    BY DEF IsRead
  <2> QED BY <2>1
<1>2. ASSUME NEW n \in T
      PROVE  n + 1 \in T
  <2>1. PICK f : IsRead(f, n)
    OBVIOUS
  <2> DEFINE g == [i \in 0 .. n + 1 |-> IF i <= n THEN f[i] ELSE f[n] \o ReadFrom(i)]
  <2>2. \A i \in 0 .. n : f[i] = IF i = 0 THEN <<>> ELSE f[i - 1] \o ReadFrom(i)
    BY <2>1 DEF IsRead
  <2>3. \A i \in 0 .. n + 1 : g[i] = IF i = 0 THEN <<>> ELSE g[i - 1] \o ReadFrom(i)
    <3> TAKE i \in 0 .. n + 1
    <3>1. CASE i <= n
      BY <3>1, <2>2
    <3>2. CASE i = n + 1
      BY <3>2
    <3> QED BY <3>1, <3>2
  <2>4. g = [i \in 0 .. n + 1 |-> g[i]]
    OBVIOUS
  <2>5. IsRead(g, n + 1)
    <3> HIDE DEF g
    <3> QED BY <2>3, <2>4 DEF IsRead
  <2> QED BY <2>5
<1> HIDE DEF T
<1>3. \A n \in Nat : n \in T
  <2>1. T \in SUBSET Nat
    BY DEF T
  <2> QED BY <1>1, <1>2, <2>1, Induction
<1> QED BY <1>3 DEF T

LEMMA ReplayedIs ==
  ASSUME FilesOK(files)
  PROVE  \E f : IsRead(f, Last(Segments)) /\ Replayed = f[Last(Segments)]
<1>1. Last(Segments) \in Nat
  BY LastIs DEF Segments
<1> DEFINE f == CHOOSE g : IsRead(g, Last(Segments))
<1>2. IsRead(f, Last(Segments))
  BY <1>1, ReadExists
<1>3. Replayed = f[Last(Segments)]
  BY DEF Replayed, IsRead
<1> QED BY <1>2, <1>3

\* A replay returns the records that are kept, from the places where they were logged.
LEMMA ReplayCollects ==
  ASSUME Typed, NEW start, NEW owner, Described(start, owner)
  PROVE  /\ ~ReplayFails
         /\ \E phi : Collected(Replayed, Last(Segments), phi, files, logged, start)
<1>1. /\ FilesOK(files) /\ logged \in Seq(Record)
      /\ start \in [DOMAIN files -> Nat] /\ Laid(files, logged, start, owner)
  BY DEF Typed, Described, Segments
<1>2. ASSUME NEW i \in DOMAIN files
      PROVE  /\ files[i].data \in Seq(Piece) /\ Lies(files[i].data, logged, start[i])
  BY <1>1, FileIs DEF Laid
<1>3. ASSUME NEW i \in DOMAIN files
      PROVE  Readable(files[i].data) = Framed(files[i].data) /\ Framed(files[i].data) \in Nat
  BY <1>1, <1>2, AllWhole
<1>4. ~ReplayFails
  <2> SUFFICES ASSUME ReplayFails PROVE FALSE
    OBVIOUS
  <2>1. PICK i \in Segments : Readable(files[i].data) < Framed(files[i].data)
    BY DEF ReplayFails
  <2> QED BY <1>3, <2>1 DEF Segments
<1>5. ASSUME NEW i \in DOMAIN files
      PROVE  LET n == Framed(files[i].data)
             IN  /\ n \in Nat /\ 2 * n <= Len(files[i].data) /\ Len(files[i].data) < 2 * n + 2
                 /\ ReadFrom(i) \in Seq(Record) /\ Len(ReadFrom(i)) = n
                 /\ \A k \in 1 .. n : /\ ReadFrom(i)[k] = logged[start[i] + k]
                                      /\ start[i] + k \in 1 .. Len(logged)
  <2> DEFINE d == files[i].data
             n == Framed(d)
             r == [k \in 1 .. n |-> logged[start[i] + k]]
  <2>1. /\ n \in Nat /\ 2 * n <= Len(d) /\ Len(d) < 2 * n + 2 /\ Readable(d) = n
        /\ \A k \in 1 .. n : d[2 * k].rec = logged[start[i] + k] /\ start[i] + k \in 1 .. Len(logged)
    BY <1>1, <1>2, AllWhole
  <2>2. ReadFrom(i) = [k \in 1 .. Readable(d) |-> d[2 * k].rec]
    BY DEF ReadFrom, Segments
  <2>3. ReadFrom(i) = r
    BY <2>1, <2>2
  <2>4. \A k \in 1 .. n : logged[start[i] + k] \in Record
    BY <1>1, <2>1, ElementOfSeq
  <2> HIDE DEF d, n
  <2>5. r \in Seq(Record) /\ Len(r) = n /\ \A k \in 1 .. n : r[k] = logged[start[i] + k]
    BY <2>1, <2>4
  <2> QED BY <2>1, <2>3, <2>5 DEF d, n
<1>6. PICK f : IsRead(f, Last(Segments)) /\ Replayed = f[Last(Segments)]
  BY <1>1, ReplayedIs
<1>7. PICK l : l = Last(Segments)
  OBVIOUS
<1>8. l \in Nat
  BY <1>1, <1>7, LastIs DEF Segments
<1> DEFINE T == {i \in Nat : i <= l => \E phi : Collected(f[i], i, phi, files, logged, start)}
<1>9. 0 \in T
  <2> DEFINE phi == [i \in 1 .. 0 |-> 1]
  <2>1. f[0] = <<>>
    BY <1>6, <1>7, <1>8 DEF IsRead
  <2>2. <<>> \in Seq(Record) /\ Len(<<>>) = 0
    BY EmptySeq
  <2>3. Embeds(<<>>, logged, phi)
    BY <2>2 DEF Embeds
  <2>4. \A j \in DOMAIN files : ~(j <= 0)
    BY <1>1 DEF FilesOK
  <2>5. Collected(<<>>, 0, phi, files, logged, start)
    BY <2>2, <2>3, <2>4 DEF Collected
  <2> QED BY <2>1, <2>5
<1>10. ASSUME NEW i \in T
       PROVE  i + 1 \in T
  <2> SUFFICES ASSUME i + 1 <= l
               PROVE  \E phi : Collected(f[i + 1], i + 1, phi, files, logged, start)
    OBVIOUS
  <2>1. PICK phi : Collected(f[i], i, phi, files, logged, start)
    BY <1>8
  <2>2. f[i + 1] = f[i] \o ReadFrom(i + 1)
    <3>1. i + 1 \in 0 .. l /\ i + 1 # 0 /\ (i + 1) - 1 = i
      BY <1>8
    <3> QED BY <1>6, <1>7, <3>1 DEF IsRead
  <2>3. CASE i + 1 \in DOMAIN files
    <3> DEFINE r == ReadFrom(i + 1)
               n == Framed(files[i + 1].data)
    <3>1. /\ n \in Nat /\ 2 * n <= Len(files[i + 1].data) /\ Len(files[i + 1].data) < 2 * n + 2
          /\ r \in Seq(Record) /\ Len(r) = n
          /\ \A k \in 1 .. n : /\ r[k] = logged[start[i + 1] + k]
                               /\ start[i + 1] + k \in 1 .. Len(logged)
      BY <1>5, <2>3
    <3>2. i \in Nat
      OBVIOUS
    <3> HIDE DEF r, n
    <3>3. \E psi : Collected(f[i] \o r, i + 1, psi, files, logged, start)
      BY <1>1, <2>1, <2>3, <3>1, <3>2, CollectedNext
    <3> QED BY <2>2, <3>3 DEF r
  <2>4. CASE i + 1 \notin DOMAIN files
    <3>1. f[i] \in Seq(Record)
      BY <2>1 DEF Collected
    <3>2. f[i + 1] = f[i]
      BY <2>2, <2>4, <3>1, ConcatEmptySeq DEF ReadFrom, Segments
    <3>3. \A j \in DOMAIN files : j <= i + 1 <=> j <= i
      BY <1>1, <2>4 DEF FilesOK
    <3>4. Collected(f[i], i + 1, phi, files, logged, start)
      BY <2>1, <3>3 DEF Collected
    <3> QED BY <3>2, <3>4
  <2> QED BY <2>3, <2>4
<1>11. T \in SUBSET Nat
  OBVIOUS
<1> HIDE DEF T
<1>12. l \in T
  BY <1>8, <1>9, <1>10, <1>11, Induction
<1>13. \E phi : Collected(f[l], l, phi, files, logged, start)
  BY <1>8, <1>12 DEF T
<1> QED BY <1>4, <1>6, <1>7, <1>13

LEMMA Inductive_ReplayInOrder == Inductive => ReplayInOrder
<1> SUFFICES ASSUME Inductive PROVE ReplayInOrder
  OBVIOUS
<1>1. PICK start, owner : Described(start, owner)
  BY DEF Inductive
<1>2. Typed /\ Distinguished(logged, life) /\ logged \in Seq(Record)
  BY DEF Inductive, Typed
<1>3. /\ ~ReplayFails
      /\ \E phi : Collected(Replayed, Last(Segments), phi, files, logged, start)
  BY <1>1, <1>2, ReplayCollects
<1>4. PICK phi : Collected(Replayed, Last(Segments), phi, files, logged, start)
  BY <1>3
<1>5. Replayed \in Seq(Record) /\ Embeds(Replayed, logged, phi)
  BY <1>4 DEF Collected
<1>6. \A k, l \in 1 .. Len(logged) : logged[k] = logged[l] => k = l
  BY <1>2 DEF Distinguished
<1>7. Replayed = Only(logged, Range(Replayed))
  BY <1>2, <1>5, <1>6, EmbeddedIsOnly
<1>8. Survivors = Range(Replayed)
  BY DEF Survivors, Range
<1> QED BY <1>3, <1>7, <1>8 DEF ReplayInOrder

\* A record survives exactly if a segment has it in full.
LEMMA SurvivesIsKept ==
  ASSUME Inductive, NEW start, NEW owner, Described(start, owner), NEW k \in 1 .. Len(logged)
  PROVE  Survives(logged[k]) <=> Kept(files, start, k)
<1>1. Typed /\ Distinguished(logged, life) /\ logged \in Seq(Record) /\ FilesOK(files)
  BY DEF Inductive, Typed
<1>2. PICK phi : Collected(Replayed, Last(Segments), phi, files, logged, start)
  BY <1>1, ReplayCollects
<1>3. /\ Replayed \in Seq(Record) /\ DOMAIN Replayed = 1 .. Len(Replayed)
      /\ Embeds(Replayed, logged, phi) /\ k \in Nat
  BY <1>2, LenProperties DEF Collected
<1>4. ASSUME Survives(logged[k])
      PROVE  Kept(files, start, k)
  <2>1. PICK m \in 1 .. Len(Replayed) : Replayed[m] = logged[k]
    BY <1>3, <1>4 DEF Survives, Survivors
  <2>2. phi[m] \in 1 .. Len(logged) /\ logged[phi[m]] = logged[k]
    BY <1>3, <2>1 DEF Embeds
  <2>3. phi[m] = k
    BY <1>1, <2>2 DEF Distinguished
  <2> QED BY <1>2, <2>1, <2>3 DEF Collected, Kept
<1>5. ASSUME Kept(files, start, k)
      PROVE  Survives(logged[k])
  <2>1. PICK j \in DOMAIN files : Within(k, start[j], Len(files[j].data))
    BY <1>5 DEF Kept
  <2>2. j <= Last(Segments)
    BY <1>1, LastIs DEF Segments
  <2>3. PICK m \in 1 .. Len(Replayed) : phi[m] = k
    BY <1>2, <1>3, <2>1, <2>2 DEF Collected
  <2>4. Replayed[m] = logged[k]
    BY <1>3, <2>3 DEF Embeds
  <2> QED BY <1>3, <2>4 DEF Survives, Survivors
<1> QED BY <1>4, <1>5

LEMMA Inductive_OkIsDurable == Inductive => OkIsDurable
<1> SUFFICES ASSUME Inductive, policy = 1, NEW rec \in returned PROVE Survives(rec)
  BY DEF OkIsDurable
<1>1. PICK start, owner : Described(start, owner)
  BY DEF Inductive
<1>2. FilesOK(files) /\ start \in [DOMAIN files -> Nat]
  BY <1>1 DEF Inductive, Typed, Described, Segments
<1>3. PICK k \in 1 .. Len(logged) : logged[k] = rec /\ Durable(files, start, k)
  BY <1>1 DEF Described, Confirmed
<1>4. k \in Nat
  OBVIOUS
<1>5. Kept(files, start, k)
  BY <1>2, <1>3, <1>4, DurableIsKept
<1> QED BY <1>1, <1>3, <1>5, SurvivesIsKept

LEMMA Inductive_NoGaps == Inductive => NoGaps
<1> SUFFICES ASSUME Inductive, policy = 1 \/ outages = 0, NEW n \in 1 .. life,
                    NEW i \in DOMAIN Records(n), NEW j \in DOMAIN Records(n),
                    i < j, Survives(Records(n)[j])
             PROVE  Survives(Records(n)[i])
  BY DEF NoGaps
<1>1. PICK start, owner : Described(start, owner)
  BY DEF Inductive
<1>2. /\ FilesOK(files) /\ logged \in Seq(Record) /\ start \in [DOMAIN files -> Nat]
      /\ Laid(files, logged, start, owner) /\ Unbroken(policy, files, logged, start, owner)
  BY <1>1 DEF Inductive, Typed, Described, Segments
<1> DEFINE own == Records(n)
<1>3. PICK phi : Embeds(own, logged, phi)
  BY <1>2, OnlyEmbeds DEF Records
<1>4. own \in Seq(Record \cap Of(n))
  BY <1>2, OnlyType DEF Records, Of
<1> HIDE DEF own
<1>5. /\ DOMAIN own = 1 .. Len(own)
      /\ \A m \in 1 .. Len(own) : own[m].life = n
  <2>1. \A m \in 1 .. Len(own) : own[m] \in Record \cap Of(n)
    BY <1>4, ElementOfSeq
  <2> QED BY <1>4, <2>1, LenProperties DEF Of
<1> DEFINE k == phi[i]
           l == phi[j]
<1>6. i \in 1 .. Len(own) /\ j \in 1 .. Len(own)
  BY <1>5 DEF own
<1>7. /\ k \in 1 .. Len(logged) /\ l \in 1 .. Len(logged) /\ k < l
      /\ own[i] = logged[k] /\ own[j] = logged[l]
      /\ logged[k].life = n /\ logged[l].life = n
  BY <1>3, <1>5, <1>6 DEF Embeds
<1> HIDE DEF k, l
<1>8. Kept(files, start, l)
  <2>1. Survives(logged[l])
    BY <1>7 DEF own
  <2> QED BY <1>1, <1>7, <2>1, SurvivesIsKept
<1>9. PICK s \in DOMAIN files : Within(l, start[s], Len(files[s].data))
  BY <1>8 DEF Kept
<1>10. owner[s] = n
  BY <1>2, <1>7, <1>9 DEF Laid
<1>11. start[s] \in Nat /\ Len(files[s].data) \in Nat /\ k \in Nat /\ l \in Nat
  BY <1>2, <1>7, FileIs
<1>12. Kept(files, start, k)
  <2>1. CASE k <= start[s]
    <3>1. k \in 1 .. start[s]
      BY <1>7, <1>11, <2>1
    <3>2. Safe(policy, files, start, k)
      BY <1>2, <1>7, <1>10, <3>1 DEF Unbroken
    <3> QED BY <1>2, <1>11, <3>2, DurableIsKept DEF Safe
  <2>2. CASE k > start[s]
    <3>1. Within(k, start[s], Len(files[s].data))
      BY <1>7, <1>9, <1>11, <2>2 DEF Within
    <3> QED BY <3>1 DEF Kept
  <2> QED BY <1>11, <2>1, <2>2
<1>13. Survives(logged[k])
  BY <1>1, <1>7, <1>12, SurvivesIsKept
<1> QED BY <1>7, <1>13 DEF own

(***************************************************************************)
(* The theorems.                                                           *)
(***************************************************************************)

\* WalReader::replay never meets a bad checksum, and returns what survives in the
\* order in which WalWriter::append took it, whatever was torn or lost before.
THEOREM ReplayKeepsOrder == Spec => []ReplayInOrder
BY Invariance, Inductive_ReplayInOrder, PTL

\* FsyncPolicy::PerRecord: a record for which append returned Ok survives every
\* kill of the process and every power failure.
THEOREM OkSurvives == Spec => []OkIsDurable
BY Invariance, Inductive_OkIsDurable, PTL

\* What a process has logged survives up to some point and not after it, unless
\* the power fails under a policy that does not sync every record.
THEOREM NothingInBetweenIsLost == Spec => []NoGaps
BY Invariance, Inductive_NoGaps, PTL

===============================================================================
