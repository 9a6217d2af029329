--------------------------- MODULE SessionProofs ---------------------------
(***************************************************************************)
(* Theorems about Session, for every command line, number of cases and     *)
(* repetitions, pipe and connection, and whatever fails, crashes or is     *)
(* stopped.                                                                *)
(*                                                                         *)
(* The scripts.  Place by place those of the servers fit: where one sends  *)
(* the other receives, and both shuffle, print and demand at the same      *)
(* places.  A script is a number of equal cases, so a place of it is a     *)
(* place of a case, and how often a case does something can be counted.    *)
(*                                                                         *)
(* The servers.  What of the two processes is where in its script decides  *)
(* what is on the connection: only the server that is ahead has sent       *)
(* since, and it received nothing since (Link).  So what one takes is what *)
(* the other sent at the same place; the verdict that BOB takes is the one *)
(* ALICE gave there (Verdicts, Refusal); the two have the same summaries   *)
(* when they judge a case, and judge it alike (Agree, Incorrect, Invalid); *)
(* and how often each has shuffled follows from where it is (Counted).     *)
(* Once connected they never wait for each other, whatever the connection  *)
(* holds unread (StuckWaits, SenderFinds, NotBothRead).                    *)
(*                                                                         *)
(* The driver.  Whatever the processes do, none is left when it has ended, *)
(* and only runs that both processes finished are parsed.                  *)
(*                                                                         *)
(* The promise.  Before and after each shuffle both servers wait for each  *)
(* other (Ordered, Waits), so none passes one and comes to the next, or to *)
(* the end of a case, alone (Near).  With what each has begun from where   *)
(* it is (Past) and the cases it has accepted from there too (Booked),     *)
(* every step is one of Retrieval or one that Retrieval does not see.      *)
(***************************************************************************)
EXTENDS Session, SequenceTheorems, FiniteSetTheorems, TLAPS

-----------------------------------------------------------------------------
(* Two scripts that fit together. *)

\* An operation that puts a message on the connection, and one that takes one.
Sends == {"send", "decide", "tell"}
Receives == {"receive", "obey", "hear"}

\* What is sent, but for the verdict and the summary.
Kinds ==
  {"ran", "keys", "cross", "clear", "barrier", "extension", "strings", "offset", "context",
   "signals", "proofs", "shares", "masked", "blinded", "open", "sum", "product", "response", "vector"}
Deeds == {"decide", "obey", "hear", "tell", "shuffle", "print", "demand"}
\* Where something is printed.
Spots ==
  {"start", "translated", "offline", "generated", "keys", "checked", "bridge", "shuffled",
   "compressed", "done", "report"}
Step == [op : Deeds \cup {"send", "receive"}, kind : Kinds \cup Deeds \cup Spots]

\* What ALICE does at a place of her script and what BOB does there.
Match(a, b) ==
  \/ a.op = "send" /\ b.op = "receive" /\ a.kind = b.kind /\ a.kind \in Kinds
  \/ a.op = "receive" /\ b.op = "send" /\ a.kind = b.kind /\ a.kind \in Kinds
  \/ a.op = "decide" /\ b.op = "obey"
  \/ a.op = "hear" /\ b.op = "tell"
  \/ a.op = b.op /\ a.op \in {"shuffle", "print", "demand"}

\* Two pieces of the scripts that fit together place by place; ALICE hears only
\* after she sent something, and decides only after she received something.
Fits(x, y) ==
  /\ x \in Seq(Step) /\ y \in Seq(Step) /\ Len(x) = Len(y)
  /\ \A i \in 1 .. Len(x) :
       /\ Match(x[i], y[i])
       /\ x[i].op = "hear" => i > 1 /\ x[i - 1].op = "send"
       /\ x[i].op = "decide" => i > 1 /\ x[i - 1].op = "receive"

\* A piece has n operations o, and n is 0 or 1.
Never(x, o) == \A i \in 1 .. Len(x) : x[i].op # o
Once(x, o) == \E k \in 1 .. Len(x) : \A i \in 1 .. Len(x) : x[i].op = o <=> i = k
Tally(x, o, n) == IF n = 0 THEN Never(x, o) ELSE Once(x, o)

\* A piece of a case: no demand, n shuffles and m summaries.
Piece(x, y, n, m) ==
  /\ Fits(x, y) /\ Never(x, "demand") /\ Tally(x, "shuffle", n) /\ Tally(x, "hear", m)

\* The elements of two pieces in a row.
LEMMA Glue ==
  ASSUME NEW x \in Seq(Step), NEW u \in Seq(Step), NEW n, NEW m, Len(x) = n, Len(u) = m
  PROVE  /\ n \in Nat /\ m \in Nat /\ x \o u \in Seq(Step) /\ Len(x \o u) = n + m
         /\ \A i \in 1 .. n + m : (x \o u)[i] = IF i <= n THEN x[i] ELSE u[i - n]
<1>1. /\ x \o u \in Seq(Step) /\ Len(x \o u) = Len(x) + Len(u)
      /\ \A i \in 1 .. Len(x) + Len(u) : (x \o u)[i] = IF i <= Len(x) THEN x[i] ELSE u[i - Len(x)]
  BY ConcatProperties
<1> QED
  BY <1>1, LenProperties

\* Pieces that fit, one after the other, fit.
LEMMA FitsConcat ==
  ASSUME NEW x, NEW y, NEW u, NEW v, Fits(x, y), Fits(u, v)
  PROVE  Fits(x \o u, y \o v)
<1> DEFINE a == x \o u
           b == y \o v
           n == Len(x)
           m == Len(u)
<1>1. /\ n \in Nat /\ m \in Nat /\ Len(y) = n /\ Len(v) = m
      /\ x \in Seq(Step) /\ y \in Seq(Step) /\ u \in Seq(Step) /\ v \in Seq(Step)
  BY LenProperties DEF Fits
<1>2. /\ a \in Seq(Step) /\ Len(a) = n + m
      /\ \A i \in 1 .. n + m : a[i] = IF i <= n THEN x[i] ELSE u[i - n]
  BY <1>1, ConcatProperties
<1>3. /\ b \in Seq(Step) /\ Len(b) = n + m
      /\ \A i \in 1 .. n + m : b[i] = IF i <= n THEN y[i] ELSE v[i - n]
  <2>1. y \in Seq(Step) /\ v \in Seq(Step)
    BY <1>1
  <2>2. /\ b \in Seq(Step) /\ Len(b) = Len(y) + Len(v)
        /\ \A i \in 1 .. Len(y) + Len(v) : b[i] = IF i <= Len(y) THEN y[i] ELSE v[i - Len(y)]
    BY <2>1, ConcatProperties
  <2> HIDE DEF b, n, m
  <2> QED
    BY <1>1, <2>2
<1>4. \A i \in 1 .. n : /\ Match(x[i], y[i])
                        /\ x[i].op = "hear" => i > 1 /\ x[i - 1].op = "send"
                        /\ x[i].op = "decide" => i > 1 /\ x[i - 1].op = "receive"
  BY DEF Fits
<1>5. \A i \in 1 .. m : /\ Match(u[i], v[i])
                        /\ u[i].op = "hear" => i > 1 /\ u[i - 1].op = "send"
                        /\ u[i].op = "decide" => i > 1 /\ u[i - 1].op = "receive"
  BY DEF Fits
<1> HIDE DEF a, b, n, m
<1>6. ASSUME NEW i \in 1 .. n + m
      PROVE  /\ Match(a[i], b[i])
             /\ a[i].op = "hear" => i > 1 /\ a[i - 1].op = "send"
             /\ a[i].op = "decide" => i > 1 /\ a[i - 1].op = "receive"
  <2>1. CASE i <= n
    <3>1. i \in 1 .. n /\ a[i] = x[i] /\ b[i] = y[i]
      BY <1>1, <1>2, <1>3, <2>1
    <3>2. i > 1 => a[i - 1] = x[i - 1]
      BY <1>1, <1>2, <2>1
    <3> QED
      BY <1>4, <3>1, <3>2
  <2>2. CASE i > n
    <3>1. i - n \in 1 .. m /\ a[i] = u[i - n] /\ b[i] = v[i - n]
      BY <1>1, <1>2, <1>3, <2>2
    <3>2. i - n > 1 => a[i - 1] = u[(i - n) - 1] /\ i > 1
      BY <1>1, <1>2, <2>2
    <3> QED
      BY <1>5, <3>1, <3>2
  <2> QED
    BY <1>1, <2>1, <2>2
<1> QED
  BY <1>2, <1>3, <1>6 DEF Fits, a, b

\* What happens once at most in two pieces in a row happens in one of them.
LEMMA TallyConcat ==
  ASSUME NEW x \in Seq(Step), NEW u \in Seq(Step), NEW o, NEW n \in Nat, NEW m \in Nat,
         n + m <= 1, Tally(x, o, n), Tally(u, o, m)
  PROVE  Tally(x \o u, o, n + m)
<1> DEFINE a == x \o u
           c == Len(x)
           d == Len(u)
<1>1. c \in Nat /\ d \in Nat
  BY LenProperties
<1>2. /\ Len(a) = c + d
      /\ \A i \in 1 .. c + d : a[i] = IF i <= c THEN x[i] ELSE u[i - c]
  BY <1>1, ConcatProperties
<1>3. \A i \in 1 .. c + d : IF i <= c THEN i \in 1 .. c /\ a[i] = x[i]
                                      ELSE i - c \in 1 .. d /\ a[i] = u[i - c]
  BY <1>1, <1>2
<1>4. CASE n = 0 /\ m = 0
  <2>1. Never(x, o) /\ Never(u, o)
    BY <1>4 DEF Tally
  <2> HIDE DEF a
  <2>2. Never(a, o)
    BY <1>2, <1>3, <2>1 DEF Never
  <2> QED
    BY <1>4, <2>2 DEF Tally, a
<1>5. CASE n = 1 /\ m = 0
  <2>1. Never(u, o)
    BY <1>5 DEF Tally
  <2>2. PICK k \in 1 .. c : \A i \in 1 .. c : x[i].op = o <=> i = k
    BY <1>5 DEF Tally, Once
  <2> HIDE DEF a
  <2>3. \A i \in 1 .. c + d : a[i].op = o <=> i = k
    BY <1>1, <1>3, <2>1, <2>2 DEF Never
  <2>4. k \in 1 .. Len(a)
    BY <1>1, <1>2
  <2>5. Once(a, o)
    BY <1>2, <2>3, <2>4 DEF Once
  <2> QED
    BY <1>5, <2>5 DEF Tally, a
<1>6. CASE n = 0 /\ m = 1
  <2>1. Never(x, o)
    BY <1>6 DEF Tally
  <2>2. PICK k \in 1 .. d : \A i \in 1 .. d : u[i].op = o <=> i = k
    BY <1>6 DEF Tally, Once
  <2> HIDE DEF a
  <2>3. ASSUME NEW i \in 1 .. c + d PROVE a[i].op = o <=> i = c + k
    <3>1. CASE i <= c
      BY <1>1, <1>3, <2>1, <3>1 DEF Never
    <3>2. CASE i > c
      <4>1. ~(i <= c)
        BY <1>1, <3>2
      <4>2. i - c \in 1 .. d /\ a[i] = u[i - c]
        BY <1>3, <4>1
      <4>3. u[i - c].op = o <=> i - c = k
        BY <2>2, <4>2
      <4>4. i - c = k <=> i = c + k
        BY <1>1, <2>2
      <4> QED
        BY <4>2, <4>3, <4>4
    <3> QED
      BY <1>1, <3>1, <3>2
  <2>4. c + k \in 1 .. Len(a)
    BY <1>1, <1>2
  <2>5. Once(a, o)
    BY <1>2, <2>3, <2>4 DEF Once
  <2> QED
    BY <1>6, <2>5 DEF Tally, a
<1> QED
  BY <1>4, <1>5, <1>6

\* Two pieces in a row are a piece if no more than one shuffle and one summary come
\* of it.
LEMMA PieceConcat ==
  ASSUME NEW x, NEW y, NEW u, NEW v, NEW n \in Nat, NEW m \in Nat, NEW i \in Nat, NEW j \in Nat,
         n + i <= 1, m + j <= 1, Piece(x, y, n, m), Piece(u, v, i, j)
  PROVE  Piece(x \o u, y \o v, n + i, m + j)
<1>1. Fits(x \o u, y \o v)
  BY FitsConcat DEF Piece
<1>2. x \in Seq(Step) /\ u \in Seq(Step)
  BY DEF Piece, Fits
<1>3. Tally(x, "demand", 0) /\ Tally(u, "demand", 0)
  BY DEF Piece, Tally
<1>4. Tally(x \o u, "demand", 0 + 0)
  BY <1>2, <1>3, TallyConcat
<1>5. Tally(x \o u, "shuffle", n + i) /\ Tally(x \o u, "hear", m + j)
  BY <1>2, TallyConcat DEF Piece
<1> QED
  BY <1>1, <1>4, <1>5 DEF Piece, Tally

\* A single operation.
LEMMA One ==
  ASSUME NEW e \in Step, NEW f \in Step, Match(e, f), e.op \notin {"hear", "decide", "demand"}
  PROVE  Piece(<<e>>, <<f>>, IF e.op = "shuffle" THEN 1 ELSE 0, 0)
<1> DEFINE x == <<e>>
           y == <<f>>
<1>1. /\ x \in Seq(Step) /\ y \in Seq(Step) /\ Len(x) = 1 /\ Len(y) = 1
      /\ \A i \in 1 .. 1 : x[i] = e /\ y[i] = f
  OBVIOUS
<1> HIDE DEF x, y
<1>2. Fits(x, y)
  BY <1>1 DEF Fits
<1>3. Never(x, "hear") /\ Never(x, "demand")
  BY <1>1 DEF Never
<1>4. Tally(x, "shuffle", IF e.op = "shuffle" THEN 1 ELSE 0)
  BY <1>1 DEF Tally, Never, Once
<1> QED
  BY <1>2, <1>3, <1>4 DEF Piece, Tally, x, y

\* No operation.
LEMMA None ==
  Piece(<<>>, <<>>, 0, 0)
<1> DEFINE x == <<>>
<1>1. x \in Seq(Step) /\ Len(x) = 0
  OBVIOUS
<1> HIDE DEF x
<1>2. Piece(x, x, 0, 0)
  BY <1>1 DEF Piece, Fits, Never, Tally
<1> QED
  BY <1>2 DEF x

-----------------------------------------------------------------------------
(* The pieces of the scripts. *)

\* What one party says the other hears.
LEMMA SaysFits ==
  ASSUME NEW k \in Kinds, NEW speaker \in Party
  PROVE  Piece(Says(ALICE, speaker, k), Says(BOB, speaker, k), 0, 0)
<1>1. Tx(k) \in Step /\ Rx(k) \in Step
  BY DEF Tx, Rx, Step
<1>2. Match(Tx(k), Rx(k)) /\ Match(Rx(k), Tx(k))
  BY DEF Match, Tx, Rx
<1>3. Tx(k).op = "send" /\ Rx(k).op = "receive"
  BY DEF Tx, Rx
<1>4. Piece(<<Tx(k)>>, <<Rx(k)>>, 0, 0) /\ Piece(<<Rx(k)>>, <<Tx(k)>>, 0, 0)
  BY <1>1, <1>2, <1>3, One
<1> QED
  BY <1>4 DEF Says, Party, ALICE, BOB

\* Pieces without shuffle and summary, in a row.
LEMMA Join ==
  ASSUME NEW x, NEW y, NEW u, NEW v, Piece(x, y, 0, 0), Piece(u, v, 0, 0)
  PROVE  Piece(x \o u, y \o v, 0, 0)
<1>1. Piece(x \o u, y \o v, 0 + 0, 0 + 0)
  BY PieceConcat
<1> QED
  BY <1>1

\* What ALICE says, and what BOB says.
LEMMA Phrase ==
  ASSUME NEW k \in Kinds
  PROVE  /\ Piece(Says(ALICE, ALICE, k), Says(BOB, ALICE, k), 0, 0)
         /\ Piece(Says(ALICE, BOB, k), Says(BOB, BOB, k), 0, 0)
BY SaysFits DEF Party

\* The kinds of messages, one by one.
LEMMA KindsAre ==
  /\ "ran" \in Kinds /\ "keys" \in Kinds /\ "cross" \in Kinds /\ "clear" \in Kinds
  /\ "barrier" \in Kinds /\ "extension" \in Kinds /\ "strings" \in Kinds
  /\ "offset" \in Kinds /\ "context" \in Kinds /\ "signals" \in Kinds /\ "proofs" \in Kinds /\ "shares" \in Kinds
  /\ "masked" \in Kinds /\ "blinded" \in Kinds /\ "open" \in Kinds /\ "sum" \in Kinds
  /\ "product" \in Kinds /\ "response" \in Kinds /\ "vector" \in Kinds
BY DEF Kinds

\* An operation that is neither a send nor a receive.
LEMMA DeedsAre ==
  ASSUME NEW o \in Deeds
  PROVE  Do(o) \in Step /\ Do(o).op = o
BY DEF Do, Step

\* The places, one by one.
LEMMA SpotsAre ==
  /\ "start" \in Spots /\ "translated" \in Spots /\ "offline" \in Spots
  /\ "generated" \in Spots /\ "keys" \in Spots /\ "checked" \in Spots
  /\ "bridge" \in Spots /\ "shuffled" \in Spots /\ "compressed" \in Spots
  /\ "done" \in Spots /\ "report" \in Spots
BY DEF Spots

\* What is printed at a place.
LEMMA PrintsAre ==
  ASSUME NEW k \in Spots
  PROVE  Prints(k) \in Step /\ Prints(k).op = "print"
BY DEF Prints, Step, Deeds

\* Both have the place in their scripts, whether they print there or not.
LEMMA PrintsFit ==
  ASSUME NEW k \in Spots
  PROVE  Piece(<<Prints(k)>>, <<Prints(k)>>, 0, 0)
<1>1. Prints(k) \in Step /\ Prints(k).op = "print"
  BY PrintsAre
<1>2. Match(Prints(k), Prints(k))
  BY <1>1 DEF Match
<1> QED
  BY <1>1, <1>2, One

\* A send and a receive.
LEMMA SpokenAre ==
  ASSUME NEW k \in Kinds
  PROVE  /\ Tx(k) \in Step /\ Tx(k).op = "send" /\ Tx(k).kind = k
         /\ Rx(k) \in Step /\ Rx(k).op = "receive" /\ Rx(k).kind = k
BY DEF Tx, Rx, Step

\* Two single operations in a row.
LEMMA PairIs ==
  ASSUME NEW e \in Step, NEW f \in Step
  PROVE  <<e>> \o <<f>> = <<e, f>>
<1> DEFINE x == <<e>>
           y == <<f>>
           z == <<e, f>>
<1>1. /\ x \in Seq(Step) /\ y \in Seq(Step) /\ Len(x) = 1 /\ Len(y) = 1
      /\ x[1] = e /\ y[1] = f
  OBVIOUS
<1>2. z \in Seq(Step) /\ Len(z) = 2 /\ z[1] = e /\ z[2] = f
  OBVIOUS
<1> HIDE DEF x, y, z
<1>3. /\ x \o y \in Seq(Step) /\ Len(x \o y) = 2
      /\ \A i \in 1 .. 2 : (x \o y)[i] = IF i <= 1 THEN x[i] ELSE y[i - 1]
  <2>1. x \in Seq(Step) /\ y \in Seq(Step)
    BY <1>1
  <2>2. /\ x \o y \in Seq(Step) /\ Len(x \o y) = Len(x) + Len(y)
        /\ \A i \in 1 .. Len(x) + Len(y) : (x \o y)[i] = IF i <= Len(x) THEN x[i] ELSE y[i - Len(x)]
    BY <2>1, ConcatProperties
  <2> QED
    BY <1>1, <2>2
<1>4. (x \o y)[1] = e /\ (x \o y)[2] = f
  BY <1>1, <1>3
<1>5. \A i \in 1 .. 2 : (x \o y)[i] = z[i]
  <2>1. \A i \in 1 .. 2 : i = 1 \/ i = 2
    OBVIOUS
  <2> QED
    BY <1>2, <1>4, <2>1
<1>6. x \o y = z
  BY <1>2, <1>3, <1>5, SeqEqual
<1> QED
  BY <1>6 DEF x, y, z

\* BTGen and the barrier fit.
LEMMA TripleFits == Piece(Triple(ALICE), Triple(BOB), 0, 0)
<1> DEFINE a(s) == Says(s, ALICE, "keys") \o Says(s, BOB, "cross")
           b(s) == a(s) \o Says(s, ALICE, "clear")
           c(s) == b(s) \o Says(s, ALICE, "barrier")
<1>1. Piece(a(ALICE), a(BOB), 0, 0)
  BY Join, Phrase, KindsAre
<1>2. Piece(b(ALICE), b(BOB), 0, 0)
  BY <1>1, Join, Phrase, KindsAre
<1>3. Piece(c(ALICE), c(BOB), 0, 0)
  BY <1>2, Join, Phrase, KindsAre
<1>4. Piece(c(ALICE) \o Says(ALICE, BOB, "barrier"), c(BOB) \o Says(BOB, BOB, "barrier"), 0, 0)
  BY <1>3, Join, Phrase, KindsAre
<1> QED
  BY <1>4 DEF Triple

\* An exchange, begun by either party.
LEMMA Two ==
  ASSUME NEW j \in Kinds, NEW k \in Kinds
  PROVE  /\ Piece(<<Tx(j), Rx(k)>>, <<Rx(j), Tx(k)>>, 0, 0)
         /\ Piece(<<Rx(j), Tx(k)>>, <<Tx(j), Rx(k)>>, 0, 0)
<1>1. Piece(<<Tx(j)>>, <<Rx(j)>>, 0, 0) /\ Piece(<<Rx(j)>>, <<Tx(j)>>, 0, 0)
  BY Phrase DEF Says, ALICE, BOB
<1>2. Piece(<<Tx(k)>>, <<Rx(k)>>, 0, 0) /\ Piece(<<Rx(k)>>, <<Tx(k)>>, 0, 0)
  BY Phrase DEF Says, ALICE, BOB
<1>3. /\ Piece(<<Tx(j)>> \o <<Rx(k)>>, <<Rx(j)>> \o <<Tx(k)>>, 0, 0)
      /\ Piece(<<Rx(j)>> \o <<Tx(k)>>, <<Tx(j)>> \o <<Rx(k)>>, 0, 0)
  BY <1>1, <1>2, Join
<1> QED
  BY <1>3, PairIs, SpokenAre

\* The two translations fit: each party chooses where the other answers; and so do the
\* differences of the layers.
LEMMA OfflineFits == Piece(Offline(ALICE), Offline(BOB), 0, 0)
<1> DEFINE a(s) == IF s = ALICE THEN Translation(FALSE) \o Translation(TRUE)
                                ELSE Translation(TRUE) \o Translation(FALSE)
           b(s) == a(s) \o <<Prints("translated")>>
<1>1. Piece(a(ALICE), a(BOB), 0, 0)
  <2>1. /\ Piece(Translation(FALSE), Translation(TRUE), 0, 0)
        /\ Piece(Translation(TRUE), Translation(FALSE), 0, 0)
    BY Two, KindsAre DEF Translation
  <2>2. Piece(Translation(FALSE) \o Translation(TRUE), Translation(TRUE) \o Translation(FALSE), 0, 0)
    BY <2>1, Join
  <2>3. BOB # ALICE
    BY DEF ALICE, BOB
  <2> QED
    BY <2>2, <2>3
<1>2. Piece(b(ALICE), b(BOB), 0, 0)
  BY <1>1, PrintsFit, SpotsAre, Join
<1>3. Piece(Offset(ALICE), Offset(BOB), 0, 0)
  <2>1. Piece(Says(ALICE, ALICE, "offset") \o Says(ALICE, BOB, "offset"),
              Says(BOB, ALICE, "offset") \o Says(BOB, BOB, "offset"), 0, 0)
    BY Join, Phrase, KindsAre
  <2> QED
    BY <2>1, None DEF Offset
<1>4. Piece(b(ALICE) \o Offset(ALICE), b(BOB) \o Offset(BOB), 0, 0)
  BY <1>2, <1>3, Join
<1> QED
  BY <1>4 DEF Offline

\* ALICE's context and signals fit.
LEMMA KeysFit == Piece(Keys(ALICE), Keys(BOB), 0, 0)
<1> DEFINE a(s) == Says(s, ALICE, "context") \o <<Prints("generated")>>
           b(s) == a(s) \o Says(s, ALICE, "signals")
<1>1. Piece(a(ALICE), a(BOB), 0, 0)
  BY Join, Phrase, KindsAre, PrintsFit, SpotsAre
<1>2. Piece(b(ALICE), b(BOB), 0, 0)
  BY <1>1, Join, Phrase, KindsAre
<1>3. Piece(b(ALICE) \o <<Prints("keys")>>, b(BOB) \o <<Prints("keys")>>, 0, 0)
  BY <1>2, Join, PrintsFit, SpotsAre
<1> QED
  BY <1>3 DEF Keys

\* The check of the signals fits, and ALICE decides after she received the proofs.
LEMMA CheckFits == Piece(Check(ALICE), Check(BOB), 0, 0)
<1> DEFINE x == <<Rx("proofs"), Do("decide")>>
           y == <<Tx("proofs"), Do("obey")>>
<1>1. x \in Seq(Step) /\ Len(x) = 2
  BY SpokenAre, DeedsAre, KindsAre DEF Deeds
<1>2. y \in Seq(Step) /\ Len(y) = 2
  BY SpokenAre, DeedsAre, KindsAre DEF Deeds
<1>3. /\ x[1] = [op |-> "receive", kind |-> "proofs"] /\ x[2] = [op |-> "decide", kind |-> "decide"]
      /\ y[1] = [op |-> "send", kind |-> "proofs"] /\ y[2] = [op |-> "obey", kind |-> "obey"]
  BY DEF Rx, Tx, Do
<1>4. x = Check(ALICE) /\ y = Check(BOB)
  BY DEF Check, ALICE, BOB
<1> HIDE DEF x, y
<1>5. \A i \in 1 .. 2 : i = 1 \/ i = 2
  OBVIOUS
<1>6. x[1].op = "receive" /\ x[2].op = "decide" /\ Match(x[1], y[1]) /\ Match(x[2], y[2])
  BY <1>3, KindsAre DEF Match
<1>7. Fits(x, y)
  BY <1>1, <1>2, <1>5, <1>6 DEF Fits
<1>8. \A i \in 1 .. 2 : x[i].op \notin {"shuffle", "hear", "demand"}
  BY <1>5, <1>6
<1> QED
  BY <1>1, <1>4, <1>7, <1>8 DEF Piece, Tally, Never

\* The opened shares fit, in a component pilot as well.
LEMMA BridgeFits == Piece(Bridge(ALICE), Bridge(BOB), 0, 0)
<1>1. Piece(Says(ALICE, BOB, "shares") \o <<Prints("bridge")>>,
            Says(BOB, BOB, "shares") \o <<Prints("bridge")>>, 0, 0)
  BY Join, Phrase, KindsAre, PrintsFit, SpotsAre
<1> QED
  BY <1>1, None DEF Bridge

\* The turns of the shuffle fit, ALICE's first, and it is begun once.
LEMMA ShuffleFits == Piece(Shuffle(ALICE), Shuffle(BOB), 1, 0)
<1> DEFINE h(s) == <<Do("shuffle")>>
           p(s) == PermuteShare(s = ALICE)
           q(s) == IF config.flat THEN <<>> ELSE PermuteShare(s = BOB)
<1>1. Piece(h(ALICE), h(BOB), 1, 0)
  BY One, DeedsAre DEF Deeds, Match
<1>2. /\ Piece(PermuteShare(TRUE), PermuteShare(FALSE), 0, 0)
      /\ Piece(PermuteShare(FALSE), PermuteShare(TRUE), 0, 0)
  BY Two, KindsAre DEF PermuteShare
<1>3. (ALICE = ALICE) = TRUE /\ (BOB = ALICE) = FALSE /\ (ALICE = BOB) = FALSE /\ (BOB = BOB) = TRUE
  BY DEF ALICE, BOB
<1>4. Piece(p(ALICE), p(BOB), 0, 0)
  BY <1>2, <1>3
<1>5. Piece(q(ALICE), q(BOB), 0, 0)
  BY <1>2, <1>3, None
<1> HIDE DEF h, p, q
<1>6. Piece(h(ALICE) \o p(ALICE), h(BOB) \o p(BOB), 1 + 0, 0 + 0)
  BY <1>1, <1>4, PieceConcat
<1>7. Piece((h(ALICE) \o p(ALICE)) \o q(ALICE), (h(BOB) \o p(BOB)) \o q(BOB), 1 + 0, 0 + 0)
  BY <1>5, <1>6, PieceConcat
<1>8. Piece(((h(ALICE) \o p(ALICE)) \o q(ALICE)) \o <<Prints("shuffled")>>,
            ((h(BOB) \o p(BOB)) \o q(BOB)) \o <<Prints("shuffled")>>, 1 + 0, 0 + 0)
  BY <1>7, PrintsFit, SpotsAre, PieceConcat
<1> QED
  BY <1>8 DEF Shuffle, h, p, q

\* The exchanges of the compression fit.
LEMMA CompressFits == Piece(Compress(ALICE), Compress(BOB), 0, 0)
<1> DEFINE a(s) == Says(s, ALICE, "open") \o Says(s, BOB, "open")
           b(s) == a(s) \o Says(s, ALICE, "sum")
           c(s) == b(s) \o Says(s, BOB, "sum")
           d(s) == c(s) \o Says(s, ALICE, "product")
<1>1. Piece(a(ALICE), a(BOB), 0, 0)
  BY Join, Phrase, KindsAre
<1>2. Piece(b(ALICE), b(BOB), 0, 0)
  BY <1>1, Join, Phrase, KindsAre
<1>3. Piece(c(ALICE), c(BOB), 0, 0)
  BY <1>2, Join, Phrase, KindsAre
<1>4. Piece(d(ALICE), d(BOB), 0, 0)
  BY <1>3, Join, Phrase, KindsAre
<1>5. Piece(d(ALICE) \o Says(ALICE, BOB, "product"), d(BOB) \o Says(BOB, BOB, "product"), 0, 0)
  BY <1>4, Join, Phrase, KindsAre
<1> DEFINE f(s) == d(s) \o Says(s, BOB, "product")
<1>6. Piece(f(ALICE) \o <<Prints("compressed")>>, f(BOB) \o <<Prints("compressed")>>, 0, 0)
  BY <1>5, PrintsFit, SpotsAre, Join
<1> QED
  BY <1>6 DEF Compress

\* The response fits, and ALICE's last operation of it is a send.
LEMMA RespondFits ==
  /\ Piece(Respond(ALICE), Respond(BOB), 0, 0)
  /\ Len(Respond(ALICE)) = 2 /\ Respond(ALICE)[2].op = "send"
<1>1. Piece(Respond(ALICE), Respond(BOB), 0, 0)
  BY Join, Phrase, KindsAre DEF Respond
<1>2. Respond(ALICE) = <<Tx("response")>> \o <<Tx("vector")>>
  BY DEF Respond, Says
<1>4. Respond(ALICE) = <<Tx("response"), Tx("vector")>>
  BY <1>2, PairIs, SpokenAre, KindsAre
<1>5. Len(Respond(ALICE)) = 2 /\ Respond(ALICE)[2] = Tx("vector")
  BY <1>4
<1> QED
  BY <1>1, <1>5 DEF Tx

\* A piece that ends with a send of ALICE, and the summary after it.
LEMMA Heard ==
  ASSUME NEW x, NEW y, NEW n \in 0 .. 1, Piece(x, y, n, 0), Len(x) > 0, x[Len(x)].op = "send"
  PROVE  Piece(x \o <<Do("hear")>>, y \o <<Do("tell")>>, n, 1)
<1> DEFINE u == <<Do("hear")>>
           v == <<Do("tell")>>
           a == x \o u
           b == y \o v
           c == Len(x)
<1>1. /\ c \in Nat /\ c > 0 /\ Len(y) = c /\ x \in Seq(Step) /\ y \in Seq(Step)
  BY LenProperties DEF Piece, Fits
<1>2. /\ u \in Seq(Step) /\ v \in Seq(Step) /\ Len(u) = 1 /\ Len(v) = 1
      /\ u[1].op = "hear" /\ v[1].op = "tell"
  BY DeedsAre DEF Deeds
<1> HIDE DEF u, v
<1>3. /\ a \in Seq(Step) /\ Len(a) = c + 1
      /\ \A i \in 1 .. c + 1 : a[i] = IF i <= c THEN x[i] ELSE u[i - c]
  <2>1. x \in Seq(Step) /\ u \in Seq(Step)
    BY <1>1, <1>2
  <2>2. /\ a \in Seq(Step) /\ Len(a) = Len(x) + Len(u)
        /\ \A i \in 1 .. Len(x) + Len(u) : a[i] = IF i <= Len(x) THEN x[i] ELSE u[i - Len(x)]
    BY <2>1, ConcatProperties
  <2> HIDE DEF a
  <2> QED
    BY <1>1, <1>2, <2>2
<1>4. /\ b \in Seq(Step) /\ Len(b) = c + 1
      /\ \A i \in 1 .. c + 1 : b[i] = IF i <= c THEN y[i] ELSE v[i - c]
  <2>1. y \in Seq(Step) /\ v \in Seq(Step)
    BY <1>1, <1>2
  <2>2. /\ b \in Seq(Step) /\ Len(b) = Len(y) + Len(v)
        /\ \A i \in 1 .. Len(y) + Len(v) : b[i] = IF i <= Len(y) THEN y[i] ELSE v[i - Len(y)]
    BY <2>1, ConcatProperties
  <2> HIDE DEF b, c
  <2> QED
    BY <1>1, <1>2, <2>2
<1>5. x[c].op = "send"
  OBVIOUS
<1>6. \A i \in 1 .. c : /\ Match(x[i], y[i])
                        /\ x[i].op = "hear" => i > 1 /\ x[i - 1].op = "send"
                        /\ x[i].op = "decide" => i > 1 /\ x[i - 1].op = "receive"
                        /\ x[i].op # "hear" /\ x[i].op # "demand"
  BY DEF Piece, Fits, Never, Tally
<1> HIDE DEF a, b, c
<1>7. a[c + 1] = u[1] /\ b[c + 1] = v[1] /\ a[c] = x[c] /\ c + 1 > 1
  BY <1>1, <1>3, <1>4
<1>8. Match(a[c + 1], b[c + 1]) /\ a[c + 1].op = "hear" /\ a[c].op = "send"
  BY <1>2, <1>5, <1>7 DEF Match
<1>9. ASSUME NEW i \in 1 .. c + 1
      PROVE  /\ Match(a[i], b[i])
             /\ a[i].op = "hear" => i > 1 /\ a[i - 1].op = "send"
             /\ a[i].op = "decide" => i > 1 /\ a[i - 1].op = "receive"
             /\ a[i].op = "hear" <=> i = c + 1
             /\ a[i].op # "demand"
  <2>1. CASE i <= c
    <3>1. i \in 1 .. c /\ a[i] = x[i] /\ b[i] = y[i] /\ i # c + 1
      BY <1>1, <1>3, <1>4, <2>1
    <3>2. i > 1 => a[i - 1] = x[i - 1]
      BY <1>1, <1>3, <2>1
    <3> QED
      BY <1>6, <3>1, <3>2
  <2>2. CASE i = c + 1
    <3>1. (c + 1) - 1 = c
      BY <1>1
    <3> QED
      BY <1>7, <1>8, <2>2, <3>1
  <2> QED
    BY <1>1, <2>1, <2>2
<1>10. Fits(a, b)
  BY <1>3, <1>4, <1>9 DEF Fits
<1>11. Never(a, "demand")
  BY <1>3, <1>9 DEF Never
<1>12. c + 1 \in 1 .. Len(a)
  BY <1>1, <1>3
<1>13. Once(a, "hear")
  <2>1. \A i \in 1 .. Len(a) : a[i].op = "hear" <=> i = c + 1
    BY <1>3, <1>9
  <2> QED
    BY <1>12, <2>1 DEF Once
<1>14. Tally(u, "shuffle", 0)
  BY <1>2 DEF Tally, Never
<1>15. Tally(x \o u, "shuffle", n + 0)
  BY <1>1, <1>2, <1>14, TallyConcat DEF Piece
<1> QED
  BY <1>10, <1>11, <1>13, <1>15 DEF Piece, Tally, a, b, u, v

-----------------------------------------------------------------------------
(* Repetitions. *)

\* A piece has a receive.
Listens(x) == \E i \in 1 .. Len(x) : x[i].op = "receive"

\* A receive in one of two pieces is one in both together.
LEMMA ListensConcat ==
  ASSUME NEW x \in Seq(Step), NEW u \in Seq(Step), Listens(x) \/ Listens(u)
  PROVE  Listens(x \o u)
<1> DEFINE a == x \o u
           c == Len(x)
           d == Len(u)
<1>1. /\ c \in Nat /\ d \in Nat /\ Len(a) = c + d
      /\ \A i \in 1 .. c + d : a[i] = IF i <= c THEN x[i] ELSE u[i - c]
  BY Glue
<1>2. CASE Listens(x)
  <2>1. PICK i \in 1 .. c : x[i].op = "receive"
    BY <1>2 DEF Listens
  <2> HIDE DEF a, c, d
  <2>2. i \in 1 .. Len(a) /\ a[i] = x[i]
    BY <1>1
  <2>3. Listens(a)
    BY <2>1, <2>2 DEF Listens
  <2> QED
    BY <2>3 DEF a
<1>3. CASE Listens(u)
  <2>1. PICK i \in 1 .. d : u[i].op = "receive"
    BY <1>3 DEF Listens
  <2> HIDE DEF a, c, d
  <2>2. c + i \in 1 .. Len(a) /\ a[c + i] = u[i]
    BY <1>1
  <2>3. Listens(a)
    BY <2>1, <2>2 DEF Listens
  <2> QED
    BY <2>3 DEF a
<1> QED
  BY <1>2, <1>3

\* The last operation of two pieces is that of the second.
LEMMA LastConcat ==
  ASSUME NEW x \in Seq(Step), NEW u \in Seq(Step), Len(u) > 0
  PROVE  /\ Len(x \o u) > 0
         /\ (x \o u)[Len(x \o u)] = u[Len(u)]
<1> DEFINE a == x \o u
           c == Len(x)
           d == Len(u)
<1>1. /\ c \in Nat /\ d \in Nat /\ Len(a) = c + d
      /\ \A i \in 1 .. c + d : a[i] = IF i <= c THEN x[i] ELSE u[i - c]
  BY Glue
<1> HIDE DEF a, c
<1>2. c + d \in 1 .. c + d /\ ~(c + d <= c) /\ (c + d) - c = d
  BY <1>1
<1>3. a[c + d] = u[d]
  BY <1>1, <1>2
<1> QED
  BY <1>1, <1>3 DEF a

\* A repetition fits: one shuffle, one summary, and both wait for each other in it.
LEMMA RepetitionFits ==
  ASSUME config \in Configs
  PROVE  Piece(Repetition(ALICE), Repetition(BOB), 1, 1) /\ Listens(Repetition(ALICE))
<1> DEFINE w(s) == IF config.pilot THEN Check(s) ELSE <<>>
           a(s) == Keys(s) \o w(s)
           b(s) == a(s) \o Check(s)
           h(s) == b(s) \o <<Prints("checked")>>
           c(s) == h(s) \o Bridge(s)
           d(s) == c(s) \o Shuffle(s)
           e(s) == d(s) \o Compress(s)
           f(s) == e(s) \o Respond(s)
           g(s) == f(s) \o Summary(s)
           z == <<Prints("done")>>
<1>1. Piece(w(ALICE), w(BOB), 0, 0)
  BY CheckFits, None
<1>2. Piece(b(ALICE), b(BOB), 0, 0)
  BY <1>1, KeysFit, CheckFits, Join
<1>14. Piece(h(ALICE), h(BOB), 0, 0)
  BY <1>2, PrintsFit, SpotsAre, Join
<1>3. Piece(c(ALICE), c(BOB), 0, 0)
  BY <1>14, BridgeFits, Join
<1>4. Piece(d(ALICE), d(BOB), 0 + 1, 0 + 0)
  BY <1>3, ShuffleFits, PieceConcat
<1>5. Piece(e(ALICE), e(BOB), 1 + 0, 0 + 0)
  BY <1>4, CompressFits, PieceConcat
<1>6. Piece(f(ALICE), f(BOB), 1 + 0, 0 + 0)
  BY <1>5, RespondFits, PieceConcat
<1>7. Piece(g(ALICE), g(BOB), 1, 1)
  <2>1. Len(f(ALICE)) > 0 /\ f(ALICE)[Len(f(ALICE))].op = "send"
    <3>1. e(ALICE) \in Seq(Step) /\ Respond(ALICE) \in Seq(Step)
      BY <1>5, RespondFits DEF Piece, Fits
    <3>2. Len(Respond(ALICE)) > 0 /\ Respond(ALICE)[Len(Respond(ALICE))].op = "send"
      BY RespondFits
    <3> HIDE DEF e
    <3> QED
      BY <3>1, <3>2, LastConcat
  <2>2. Summary(ALICE) = <<Do("hear")>> /\ Summary(BOB) = <<Do("tell")>>
    BY DEF Summary, ALICE, BOB
  <2> HIDE DEF f
  <2> QED
    BY <1>6, <2>1, <2>2, Heard
<1>8. Piece(g(ALICE) \o z, g(BOB) \o z, 1 + 0, 1 + 0)
  <2>1. Piece(z, z, 0, 0)
    BY PrintsFit, SpotsAre
  <2> HIDE DEF g, z
  <2> QED
    BY <1>7, <2>1, PieceConcat
<1>9. Listens(Check(ALICE))
  <2>1. Check(ALICE) = <<Rx("proofs"), Do("decide")>>
    BY DEF Check
  <2>2. Len(Check(ALICE)) = 2 /\ Check(ALICE)[1].op = "receive"
    BY <2>1, SpokenAre, KindsAre
  <2> QED
    BY <2>2 DEF Listens
<1>10. \A p, q, n, m : Piece(p, q, n, m) => p \in Seq(Step)
  BY DEF Piece, Fits
<1>11. Listens(b(ALICE))
  BY <1>1, <1>9, <1>10, KeysFit, CheckFits, Join, ListensConcat
<1>12. Listens(e(ALICE))
  <2>1. Listens(c(ALICE))
    <3>1. <<Prints("checked")>> \in Seq(Step)
      BY <1>10, PrintsFit, SpotsAre
    <3>2. Listens(h(ALICE))
      BY <1>2, <1>10, <1>11, <3>1, ListensConcat
    <3> QED
      BY <1>14, <1>10, <3>2, BridgeFits, ListensConcat
  <2>2. Listens(d(ALICE))
    BY <1>3, <1>10, <2>1, ShuffleFits, ListensConcat
  <2> QED
    BY <1>4, <1>10, <2>2, CompressFits, ListensConcat
<1>13. Listens(g(ALICE) \o z)
  <2>1. Listens(f(ALICE))
    BY <1>5, <1>10, <1>12, RespondFits, ListensConcat
  <2>2. Summary(ALICE) \in Seq(Step)
    BY DeedsAre DEF Summary, Deeds
  <2>3. Listens(g(ALICE))
    BY <1>6, <1>10, <2>1, <2>2, ListensConcat
  <2>4. z \in Seq(Step)
    BY <1>10, PrintsFit, SpotsAre
  <2> HIDE DEF g, z
  <2> QED
    BY <1>7, <1>10, <2>3, <2>4, ListensConcat
<1> QED
  BY <1>8, <1>13 DEF Repetition

\* Division of a number written with quotient and remainder.
LEMMA ModDigit ==
  ASSUME NEW q \in Int, NEW m \in Nat \ {0}, NEW k \in 0 .. m - 1
  PROVE  (q * m + k) % m = k /\ (q * m + k) \div m = q
<1>1. (q * m + k) % m = k
  BY Z3
<1>2. (q * m + k) \div m = q
  BY Z3
<1> QED
  BY <1>1, <1>2

\* Every number is written with quotient and remainder.
LEMMA ModSplit ==
  ASSUME NEW k \in Int, NEW m \in Nat \ {0}
  PROVE  /\ k \div m \in Int /\ k % m \in 0 .. m - 1
         /\ k = (k \div m) * m + (k % m)
<1>1. k % m \in 0 .. m - 1
  BY Z3
<1>2. k \div m \in Int
  BY Z3
<1>3. k = (k \div m) * m + (k % m)
  BY Z3
<1> QED
  BY <1>1, <1>2, <1>3

\* Where an index of m turns of n places is: in turn q, at place j.
LEMMA TurnOf ==
  ASSUME NEW n \in Nat \ {0}, NEW m \in Nat, NEW i \in 1 .. m * n
  PROVE  \E q \in 0 .. m - 1, j \in 1 .. n : i = q * n + j
<1> DEFINE q == (i - 1) \div n
           j == (i - 1) % n
<1>1. q \in Int /\ j \in 0 .. n - 1 /\ i - 1 = q * n + j
  BY ModSplit
<1>2. i - 1 >= 0 /\ i <= m * n /\ q * n \in Int /\ m * n \in Int
  BY <1>1
<1> HIDE DEF q, j
<1>3. q >= 0
  <2> SUFFICES ASSUME q < 0 PROVE FALSE
    BY <1>1
  <2>1. q * n <= (-1) * n
    BY <1>1, Z3
  <2> QED
    BY <1>1, <1>2, <2>1
<1>4. q <= m - 1
  <2> SUFFICES ASSUME q >= m PROVE FALSE
    BY <1>1
  <2>1. q * n >= m * n
    BY <1>1, Z3
  <2> QED
    BY <1>1, <1>2, <2>1
<1>5. q \in 0 .. m - 1 /\ j + 1 \in 1 .. n /\ i = q * n + (j + 1)
  BY <1>1, <1>2, <1>3, <1>4
<1> QED
  BY <1>5

\* The place of a turn is an index of the repeated piece.
LEMMA TurnIn ==
  ASSUME NEW n \in Nat \ {0}, NEW m \in Nat, NEW q \in 0 .. m - 1, NEW j \in 1 .. n
  PROVE  /\ q * n + j \in 1 .. m * n
         /\ ((q * n + j - 1) % n) + 1 = j
<1>1. q * n \in Int /\ m * n \in Int /\ (q + 1) * n = q * n + n
  BY Z3
<1>2. q * n >= 0 /\ (q + 1) * n <= m * n
  BY Z3
<1>3. q * n + j - 1 = q * n + (j - 1) /\ j - 1 \in 0 .. n - 1
  BY <1>1
<1>4. (q * n + (j - 1)) % n = j - 1
  BY <1>3, ModDigit
<1> QED
  BY <1>1, <1>2, <1>3, <1>4

\* What a repeated piece holds.
LEMMA RepeatAt ==
  ASSUME NEW x \in Seq(Step), NEW m \in Nat, Len(x) > 0
  PROVE  /\ Len(x) \in Nat \ {0} /\ m * Len(x) \in Nat
         /\ Repeat(x, m) \in Seq(Step) /\ Len(Repeat(x, m)) = m * Len(x)
         /\ \A q \in 0 .. m - 1, j \in 1 .. Len(x) :
              q * Len(x) + j \in 1 .. m * Len(x) /\ Repeat(x, m)[q * Len(x) + j] = x[j]
<1> DEFINE n == Len(x)
           y == [i \in 1 .. m * n |-> x[((i - 1) % n) + 1]]
<1>1. n \in Nat \ {0}
  BY LenProperties
<1> HIDE DEF n
<1>2. m * n \in Nat
  BY <1>1, Z3
<1>3. ASSUME NEW q \in 0 .. m - 1, NEW j \in 1 .. n
      PROVE  q * n + j \in 1 .. m * n /\ ((q * n + j - 1) % n) + 1 = j
  BY <1>1, TurnIn
<1>4. \A j \in 1 .. n : x[j] \in Step
  BY ElementOfSeq DEF n
<1>5. ASSUME NEW i \in 1 .. m * n
      PROVE  x[((i - 1) % n) + 1] \in Step
  <2>1. PICK q \in 0 .. m - 1, j \in 1 .. n : i = q * n + j
    BY <1>1, TurnOf
  <2>2. ((i - 1) % n) + 1 = j
    <3>1. i - 1 = q * n + j - 1
      BY <1>1, <2>1
    <3> QED
      BY <1>3, <3>1
  <2> QED
    BY <1>4, <2>2
<1>6. y \in [1 .. m * n -> Step]
  BY <1>5
<1>7. y \in Seq(Step) /\ Len(y) = m * n
  BY <1>2, <1>6
<1>8. y = Repeat(x, m)
  BY DEF Repeat, n
<1>9. ASSUME NEW q \in 0 .. m - 1, NEW j \in 1 .. n
      PROVE  q * n + j \in 1 .. m * n /\ y[q * n + j] = x[j]
  <2> DEFINE e == q * n + j
  <2>1. e \in 1 .. m * n /\ ((e - 1) % n) + 1 = j
    BY <1>1, TurnIn
  <2> HIDE DEF e
  <2>2. y[e] = x[j]
    BY <2>1
  <2> QED
    BY <2>1, <2>2 DEF e
<1> HIDE DEF y
<1> QED
  BY <1>1, <1>2, <1>7, <1>8, <1>9 DEF n

\* Pieces that fit, fit when they are repeated.
LEMMA FitsRepeat ==
  ASSUME NEW x, NEW y, Fits(x, y), Len(x) > 0, NEW m \in Nat
  PROVE  Fits(Repeat(x, m), Repeat(y, m))
<1> DEFINE n == Len(x)
           a == Repeat(x, m)
           b == Repeat(y, m)
<1>1. x \in Seq(Step) /\ y \in Seq(Step) /\ Len(y) = n
  BY DEF Fits
<1>2. /\ n \in Nat \ {0} /\ m * n \in Nat /\ a \in Seq(Step) /\ Len(a) = m * n
      /\ \A q \in 0 .. m - 1, j \in 1 .. n : a[q * n + j] = x[j]
  <2>1. /\ n \in Nat \ {0} /\ m * n \in Nat /\ a \in Seq(Step) /\ Len(a) = m * n
        /\ \A q \in 0 .. m - 1, j \in 1 .. n :
             q * n + j \in 1 .. m * n /\ a[q * n + j] = x[j]
    BY <1>1, RepeatAt
  <2> HIDE DEF n, a
  <2> QED
    BY <2>1
<1>3. /\ b \in Seq(Step) /\ Len(b) = m * n
      /\ \A q \in 0 .. m - 1, j \in 1 .. n : b[q * n + j] = y[j]
  <2>1. /\ b \in Seq(Step) /\ Len(b) = m * Len(y)
        /\ \A q \in 0 .. m - 1, j \in 1 .. Len(y) : b[q * Len(y) + j] = y[j]
    <3>1. y \in Seq(Step) /\ Len(y) > 0
      BY <1>1
    <3> QED
      BY <3>1, RepeatAt
  <2> HIDE DEF b, n
  <2> QED
    BY <1>1, <2>1
<1>4. \A j \in 1 .. n : /\ Match(x[j], y[j])
                        /\ x[j].op = "hear" => j > 1 /\ x[j - 1].op = "send"
                        /\ x[j].op = "decide" => j > 1 /\ x[j - 1].op = "receive"
  BY DEF Fits
<1> HIDE DEF n, a, b
<1>5. ASSUME NEW i \in 1 .. m * n
      PROVE  /\ Match(a[i], b[i])
             /\ a[i].op = "hear" => i > 1 /\ a[i - 1].op = "send"
             /\ a[i].op = "decide" => i > 1 /\ a[i - 1].op = "receive"
  <2>1. PICK q \in 0 .. m - 1, j \in 1 .. n : i = q * n + j
    BY <1>2, TurnOf
  <2>2. a[i] = x[j] /\ b[i] = y[j]
    BY <1>2, <1>3, <2>1
  <2>3. ASSUME j > 1
        PROVE  i > 1 /\ a[i - 1] = x[j - 1]
    <3>1. j - 1 \in 1 .. n /\ q * n \in Nat /\ i - 1 = q * n + (j - 1) /\ i > 1
      BY <1>2, <2>1, <2>3, Z3
    <3> QED
      BY <1>2, <3>1
  <2> QED
    BY <1>4, <2>2, <2>3
<1>6. Fits(a, b)
  BY <1>2, <1>3, <1>5 DEF Fits
<1> QED
  BY <1>6 DEF a, b

\* w does o only at place k of each of m turns of n places, after p other places.
Turns(w, o, p, n, m, k) ==
  \A q \in 0 .. m - 1, j \in 1 .. n : w[p + q * n + j].op = o <=> j = k

\* How often a repeated piece does what the piece does once: w is the repeated piece
\* after p other places.
LEMMA TallyRepeat ==
  ASSUME NEW w, NEW o, NEW p \in Nat, NEW n \in Nat \ {0}, NEW m \in Nat, NEW k \in 1 .. n,
         NEW c \in Nat, c = p + m * n,
         \A i \in 1 .. p : w[i].op # o,
         Turns(w, o, p, n, m, k)
  PROVE  Cardinality({i \in 1 .. c : w[i].op = o}) = m
<1> DEFINE S == {i \in 1 .. c : w[i].op = o}
           at(q) == p + (q - 1) * n + k
           f == [q \in 1 .. m |-> at(q)]
<1>1. ASSUME NEW q \in 1 .. m
      PROVE  at(q) \in S
  <2>1. q - 1 \in 0 .. m - 1
    OBVIOUS
  <2>2. (q - 1) * n + k \in 1 .. m * n
    BY <2>1, TurnIn
  <2>3. at(q) \in 1 .. c
    <3>1. (q - 1) * n \in Int /\ m * n \in Int
      BY Z3
    <3> QED
      BY <2>2, <3>1
  <2>4. w[at(q)].op = o
    BY <2>1 DEF Turns
  <2> QED
    BY <2>3, <2>4
<1>2. ASSUME NEW i \in S
      PROVE  \E q \in 1 .. m : i = at(q)
  <2>1. i \in 1 .. c /\ w[i].op = o /\ m * n \in Int
    BY Z3
  <2>2. i > p
    <3> SUFFICES ASSUME i <= p PROVE FALSE
      BY <2>1
    <3>1. i \in 1 .. p
      BY <2>1
    <3> QED
      BY <2>1, <3>1
  <2>3. i - p \in 1 .. m * n
    BY <2>1, <2>2
  <2>4. PICK q \in 0 .. m - 1, j \in 1 .. n : i - p = q * n + j
    BY <2>3, TurnOf
  <2>5. i = p + q * n + j
    <3>1. q * n \in Int
      BY Z3
    <3> QED
      BY <2>1, <2>4, <3>1
  <2>6. j = k
    BY <2>1, <2>5 DEF Turns
  <2>7. q + 1 \in 1 .. m /\ (q + 1) - 1 = q
    OBVIOUS
  <2>8. i = at(q + 1)
    BY <2>5, <2>6, <2>7
  <2> QED
    BY <2>7, <2>8
<1>3. ASSUME NEW q \in 1 .. m, NEW r \in 1 .. m, at(q) = at(r)
      PROVE  q = r
  <2>1. (q - 1) * n \in Int /\ (r - 1) * n \in Int
    BY Z3
  <2>2. (q - 1) * n = (r - 1) * n
    BY <1>3, <2>1
  <2> QED
    BY <2>2, Z3
<1> HIDE DEF at
<1>4. f \in [1 .. m -> S]
  BY <1>1
<1>5. \A q, r \in 1 .. m : f[q] = f[r] => q = r
  BY <1>3
<1>6. \A i \in S : \E q \in 1 .. m : f[q] = i
  BY <1>2
<1> HIDE DEF f, S
<1>7. f \in Bijection(1 .. m, S)
  BY <1>4, <1>5, <1>6 DEF Bijection, Injection, Surjection, IsInjective
<1>8. ExistsBijection(1 .. m, S)
  BY <1>7 DEF ExistsBijection
<1>9. IsFiniteSet(1 .. m) /\ Cardinality(1 .. m) = m
  BY FS_Interval
<1> QED
  BY <1>8, <1>9, FS_Bijection DEF S

-----------------------------------------------------------------------------
(* A case, and a script of cases. *)

\* The script of one case, of which a script is a number.
Case(s) == (IF config.valid THEN RunBenchmarkCase(s) ELSE <<>>) \o <<Do("demand")>>

\* What a case does before its repetitions.
Front(s) ==
  <<Prints("start")>> \o Ran(s)
    \o (IF config.trusted THEN <<>> ELSE Triple(s) \o Offline(s)) \o <<Prints("offline")>>

\* What comes before the repetitions fits, and BOB waits in it.
LEMMA FrontFits ==
  Piece(Front(ALICE), Front(BOB), 0, 0) /\ Listens(Front(BOB))
<1> DEFINE w(s) == IF config.trusted THEN <<>> ELSE Triple(s) \o Offline(s)
<1>1. Piece(Ran(ALICE), Ran(BOB), 0, 0)
  BY Phrase, KindsAre DEF Ran
<1>2. Piece(w(ALICE), w(BOB), 0, 0)
  BY TripleFits, OfflineFits, Join, None
<1>3. Listens(Ran(BOB))
  <2>1. Ran(BOB) = <<Rx("ran")>>
    BY DEF Ran, Says, ALICE, BOB
  <2>2. Len(Ran(BOB)) = 1 /\ Ran(BOB)[1].op = "receive"
    BY <2>1, SpokenAre, KindsAre
  <2> QED
    BY <2>2 DEF Listens
<1>4. Ran(BOB) \in Seq(Step) /\ w(BOB) \in Seq(Step)
  BY <1>1, <1>2 DEF Piece, Fits
<1> DEFINE a(s) == <<Prints("start")>> \o Ran(s)
           b(s) == a(s) \o w(s)
<1> HIDE DEF w
<1>5. Piece(a(ALICE), a(BOB), 0, 0)
  BY <1>1, PrintsFit, SpotsAre, Join
<1>6. Piece(b(ALICE), b(BOB), 0, 0)
  BY <1>2, <1>5, Join
<1>7. Piece(b(ALICE) \o <<Prints("offline")>>, b(BOB) \o <<Prints("offline")>>, 0, 0)
  BY <1>6, PrintsFit, SpotsAre, Join
<1>8. <<Prints("start")>> \in Seq(Step) /\ <<Prints("offline")>> \in Seq(Step)
  BY PrintsAre, SpotsAre
<1>9. Listens(a(BOB)) /\ a(BOB) \in Seq(Step)
  BY <1>3, <1>4, <1>5, <1>8, ListensConcat DEF Piece, Fits
<1>10. Listens(b(BOB)) /\ b(BOB) \in Seq(Step)
  <2> HIDE DEF a
  <2> QED
    BY <1>4, <1>6, <1>9, ListensConcat DEF Piece, Fits
<1>11. Listens(b(BOB) \o <<Prints("offline")>>)
  <2> HIDE DEF b
  <2> QED
    BY <1>8, <1>10, ListensConcat
<1> QED
  BY <1>7, <1>11 DEF Front, w

\* What the proofs need of the script of a case, for any command line: the two
\* scripts fit, it ends with its only demand, and before it both servers wait for
\* each other at least once, and the repetitions are counted.
CaseFacts ==
  LET x == Case(ALICE)
      c == Len(x)
  IN  /\ Fits(x, Case(BOB)) /\ c \in Nat \ {0}
      /\ \A i \in 1 .. c : x[i].op = "demand" <=> i = c
      /\ ~config.valid => c = 1
      /\ config.valid =>
           /\ \A s \in Party : \E i \in 1 .. c - 1 : Case(s)[i].op = "receive"
           /\ Cardinality({i \in 1 .. c - 1 : x[i].op = "shuffle"}) = config.reps
           /\ Cardinality({i \in 1 .. c - 1 : x[i].op = "hear"}) = config.reps

\* A piece with a demand behind it.
LEMMA Closed ==
  ASSUME NEW x, NEW y, Fits(x, y), Never(x, "demand")
  PROVE  LET a == x \o <<Do("demand")>>
             b == y \o <<Do("demand")>>
             n == Len(x)
         IN  /\ Fits(a, b) /\ n \in Nat /\ Len(a) = n + 1 /\ Len(b) = n + 1
             /\ a[n + 1].op = "demand"
             /\ \A i \in 1 .. n : a[i] = x[i] /\ b[i] = y[i] /\ a[i].op # "demand"
<1> DEFINE u == <<Do("demand")>>
           a == x \o u
           b == y \o u
           n == Len(x)
<1>1. Do("demand") \in Step /\ Do("demand").op = "demand"
  BY DeedsAre DEF Deeds
<1>2. Match(Do("demand"), Do("demand"))
  BY <1>1 DEF Match
<1>3. u \in Seq(Step) /\ Len(u) = 1 /\ u[1] = Do("demand")
  BY <1>1
<1> HIDE DEF u
<1>4. Fits(u, u)
  BY <1>1, <1>2, <1>3 DEF Fits
<1>5. Fits(a, b)
  BY <1>4, FitsConcat
<1>6. x \in Seq(Step) /\ y \in Seq(Step) /\ Len(y) = n
  BY DEF Fits
<1>7. /\ n \in Nat /\ Len(a) = n + Len(u)
      /\ \A i \in 1 .. n + Len(u) : a[i] = IF i <= n THEN x[i] ELSE u[i - n]
  <2>1. u \in Seq(Step)
    BY <1>3
  <2> QED
    BY <1>6, <2>1, Glue
<1>8. /\ Len(b) = n + Len(u)
      /\ \A i \in 1 .. n + Len(u) : b[i] = IF i <= n THEN y[i] ELSE u[i - n]
  <2>1. u \in Seq(Step)
    BY <1>3
  <2> QED
    BY <1>6, <2>1, Glue
<1>9. \A i \in 1 .. n : x[i].op # "demand"
  BY DEF Never
<1> HIDE DEF a, b, n
<1>10. Len(a) = n + 1 /\ Len(b) = n + 1
  BY <1>3, <1>7, <1>8
<1>11. a[n + 1].op = "demand"
  <2>1. n + 1 \in 1 .. n + Len(u) /\ ~(n + 1 <= n) /\ (n + 1) - n = 1
    BY <1>3, <1>7
  <2> QED
    BY <1>1, <1>3, <1>7, <2>1
<1>12. ASSUME NEW i \in 1 .. n PROVE a[i] = x[i] /\ b[i] = y[i] /\ a[i].op # "demand"
  <2>1. i \in 1 .. n + Len(u) /\ i <= n
    BY <1>3, <1>7
  <2> QED
    BY <1>7, <1>8, <1>9, <2>1
<1> QED
  BY <1>5, <1>7, <1>10, <1>11, <1>12 DEF a, b, n, u

\* The script of a case is as CaseFacts says, for any command line.
LEMMA CaseIs ==
  ASSUME config \in Configs
  PROVE  CaseFacts
<1> DEFINE x == Case(ALICE)
           y == Case(BOB)
           c == Len(x)
<1>1. config.valid \in BOOLEAN /\ config.reps \in Nat \ {0}
  BY SessionAssumption
<1>2. CASE ~config.valid
  <2> DEFINE e == <<>>
  <2>1. Fits(e, e) /\ Never(e, "demand") /\ Len(e) = 0
    BY None DEF Piece
  <2>2. x = e \o <<Do("demand")>> /\ y = e \o <<Do("demand")>>
    BY <1>2 DEF Case
  <2> HIDE DEF x, y, e
  <2>3. Fits(x, y) /\ Len(x) = 1 /\ x[1].op = "demand"
    <3>1. /\ Fits(x, y) /\ Len(x) = Len(e) + 1
          /\ x[Len(e) + 1].op = "demand"
      <4>1. Fits(e, e) /\ Never(e, "demand")
        BY <2>1
      <4> QED
        BY <2>2, <4>1, Closed
    <3>2. Len(e) + 1 = 1
      BY <2>1
    <3> QED
      BY <3>1, <3>2
  <2>4. \A i \in 1 .. 1 : i = 1
    OBVIOUS
  <2> QED
    BY <1>2, <2>3, <2>4 DEF CaseFacts, x, y
<1>3. CASE config.valid
  <2> DEFINE f == Front(ALICE)
             r == Repetition(ALICE)
             p == Len(f)
             n == Len(r)
             m == config.reps
             a == f \o Repeat(r, m)
             b == Front(BOB) \o Repeat(Repetition(BOB), m)
             z == <<Prints("report")>>
  <2>1. /\ Piece(f, Front(BOB), 0, 0) /\ Listens(Front(BOB))
        /\ Piece(r, Repetition(BOB), 1, 1) /\ Listens(r)
    BY FrontFits, RepetitionFits
  <2>2. /\ f \in Seq(Step) /\ r \in Seq(Step) /\ Front(BOB) \in Seq(Step)
        /\ p \in Nat /\ n \in Nat
    BY <2>1, LenProperties DEF Piece, Fits
  <2>3. n > 0
    <3>1. PICK i \in 1 .. n : TRUE
      BY <2>1 DEF Listens
    <3> QED
      BY <2>2, <3>1
  <2>4. /\ n \in Nat \ {0} /\ m * n \in Nat
        /\ Repeat(r, m) \in Seq(Step) /\ Len(Repeat(r, m)) = m * n
        /\ \A q \in 0 .. m - 1, j \in 1 .. n :
              q * n + j \in 1 .. m * n /\ Repeat(r, m)[q * n + j] = r[j]
    BY <1>1, <2>2, <2>3, RepeatAt
  <2>5. Fits(Repeat(r, m), Repeat(Repetition(BOB), m))
    BY <1>1, <2>1, <2>3, FitsRepeat DEF Piece
  <2>6. Fits(a, b)
    BY <2>1, <2>5, FitsConcat DEF Piece
  <2>7. /\ a \in Seq(Step) /\ Len(a) = p + m * n
        /\ \A i \in 1 .. p + m * n : a[i] = IF i <= p THEN f[i] ELSE Repeat(r, m)[i - p]
    BY <2>2, <2>4, Glue
  <2>8. x = (a \o z) \o <<Do("demand")>> /\ y = (b \o z) \o <<Do("demand")>>
    BY <1>3 DEF Case, RunBenchmarkCase, Front
  <2>21. Piece(z, z, 0, 0)
    BY PrintsFit, SpotsAre
  <2>22. z \in Seq(Step) /\ Len(z) = 1 /\ z[1].op = "print"
    BY PrintsAre, SpotsAre
  <2>9. Listens(Repeat(r, m)) /\ Listens(b)
    <3>1. PICK j \in 1 .. n : r[j].op = "receive"
      BY <2>1 DEF Listens
    <3>2. 0 \in 0 .. m - 1 /\ 0 * n + j = j
      BY <1>1, <2>4
    <3>3. j \in 1 .. m * n /\ Repeat(r, m)[j].op = "receive"
      BY <2>4, <3>1, <3>2
    <3>4. Listens(Repeat(r, m))
      BY <2>4, <3>3 DEF Listens
    <3>5. Repeat(Repetition(BOB), m) \in Seq(Step)
      BY <2>5 DEF Fits
    <3> QED
      BY <2>1, <2>2, <3>4, <3>5, ListensConcat
  <2>10. Listens(a)
    BY <2>2, <2>4, <2>9, ListensConcat
  <2> HIDE DEF x, y, a, b, f, r, p, n, m, z
  <2>11. \A i \in 1 .. p : a[i] = f[i]
    BY <2>2, <2>4, <2>7
  <2>12. ASSUME NEW q \in 0 .. m - 1, NEW j \in 1 .. n
         PROVE  a[p + q * n + j] = r[j] /\ p + q * n + j \in 1 .. p + m * n
    <3> DEFINE e == q * n + j
    <3>1. e \in 1 .. m * n /\ Repeat(r, m)[e] = r[j]
      BY <2>4
    <3>2. p + q * n + j = p + e
      BY <2>2, <2>4, Z3
    <3> HIDE DEF e
    <3>3. p + e \in 1 .. p + m * n /\ ~(p + e <= p) /\ (p + e) - p = e
      BY <2>2, <2>4, <3>1
    <3>4. a[p + e] = r[j]
      BY <2>7, <3>1, <3>3
    <3> QED
      BY <3>2, <3>3, <3>4
  <2>13. Never(f, "demand") /\ Never(r, "demand")
    BY <2>1 DEF Piece
  <2>14. Never(a, "demand")
    <3> SUFFICES ASSUME NEW i \in 1 .. p + m * n PROVE a[i].op # "demand"
      BY <2>7 DEF Never
    <3>1. CASE i <= p
      <4>1. i \in 1 .. p
        BY <2>2, <2>4, <3>1
      <4> QED
        BY <2>11, <2>13, <4>1 DEF Never, p
    <3>2. CASE i > p
      <4>1. i - p \in 1 .. m * n
        BY <2>2, <2>4, <3>2
      <4>2. PICK q \in 0 .. m - 1, j \in 1 .. n : i - p = q * n + j
        BY <1>1, <2>4, <4>1, TurnOf DEF m
      <4>3. i = p + q * n + j
        <5>1. q * n \in Int
          BY <2>4, Z3
        <5> QED
          BY <2>2, <4>2, <5>1
      <4> QED
        BY <2>12, <2>13, <4>3 DEF Never, n
    <3> QED
      BY <2>2, <2>4, <3>1, <3>2
  <2>23. /\ Fits(a \o z, b \o z) /\ Never(a \o z, "demand") /\ Len(a \o z) = p + m * n + 1
         /\ \A i \in 1 .. p + m * n : (a \o z)[i] = a[i] /\ (b \o z)[i] = b[i]
         /\ (a \o z)[p + m * n + 1] = z[1]
    <3> DEFINE g == p + m * n
    <3>1. g \in Nat /\ a \in Seq(Step) /\ b \in Seq(Step) /\ Len(a) = g /\ Len(b) = g
      BY <2>2, <2>4, <2>6, <2>7 DEF Fits
    <3>2. Fits(a \o z, b \o z)
      BY <2>6, <2>21, FitsConcat DEF Piece
    <3>3. Never(a \o z, "demand")
      <4>1. a \in Seq(Step) /\ z \in Seq(Step)
        BY <2>22, <3>1
      <4>2. Tally(a, "demand", 0) /\ Tally(z, "demand", 0)
        BY <2>14, <2>21 DEF Piece, Tally
      <4>3. Tally(a \o z, "demand", 0 + 0)
        BY <4>1, <4>2, TallyConcat
      <4> QED
        BY <4>3 DEF Tally
    <3> HIDE DEF g
    <3>4. /\ Len(a \o z) = g + 1
          /\ \A i \in 1 .. g + 1 : (a \o z)[i] = IF i <= g THEN a[i] ELSE z[i - g]
      <4>1. a \in Seq(Step) /\ z \in Seq(Step)
        BY <2>22, <3>1
      <4>2. /\ Len(a \o z) = Len(a) + Len(z)
            /\ \A i \in 1 .. Len(a) + Len(z) :
                 (a \o z)[i] = IF i <= Len(a) THEN a[i] ELSE z[i - Len(a)]
        BY <4>1, ConcatProperties
      <4>3. Len(a) = g /\ Len(z) = 1
        BY <2>22, <3>1
      <4> QED
        BY <4>2, <4>3
    <3>5. \A i \in 1 .. g + 1 : (b \o z)[i] = IF i <= g THEN b[i] ELSE z[i - g]
      <4>1. b \in Seq(Step) /\ z \in Seq(Step)
        BY <2>22, <3>1
      <4>2. /\ Len(b \o z) = Len(b) + Len(z)
            /\ \A i \in 1 .. Len(b) + Len(z) :
                 (b \o z)[i] = IF i <= Len(b) THEN b[i] ELSE z[i - Len(b)]
        BY <4>1, ConcatProperties
      <4>3. Len(b) = g /\ Len(z) = 1
        BY <2>22, <3>1
      <4> QED
        BY <4>2, <4>3
    <3>6. g + 1 \in 1 .. g + 1 /\ ~(g + 1 <= g) /\ (g + 1) - g = 1
      BY <3>1
    <3>7. (a \o z)[g + 1] = z[1]
      BY <3>4, <3>6
    <3>8. \A i \in 1 .. g : (a \o z)[i] = a[i] /\ (b \o z)[i] = b[i]
      BY <3>1, <3>4, <3>5
    <3> QED
      BY <3>2, <3>3, <3>4, <3>7, <3>8 DEF g
  <2>15. /\ Fits(x, y) /\ c = p + m * n + 2 /\ x[c].op = "demand"
         /\ \A i \in 1 .. p + m * n : x[i] = a[i] /\ y[i] = b[i] /\ x[i].op # "demand"
         /\ x[p + m * n + 1].op = "print"
    <3> DEFINE u == a \o z
               v == b \o z
               g == p + m * n
    <3>0. g \in Nat /\ Len(u) = g + 1
      BY <2>2, <2>4, <2>23
    <3>1. Len(u) \in Nat /\ c = Len(u) + 1
      BY <2>8, <2>23, Closed
    <3>2. Fits(x, y) /\ x[Len(u) + 1].op = "demand"
      BY <2>8, <2>23, Closed
    <3>3. \A i \in 1 .. Len(u) : x[i] = u[i] /\ y[i] = v[i] /\ x[i].op # "demand"
      <4> SUFFICES ASSUME NEW i \in 1 .. Len(u)
                   PROVE  x[i] = u[i] /\ y[i] = v[i] /\ x[i].op # "demand"
        OBVIOUS
      <4>1. LET e == u \o <<Do("demand")>>
                h == v \o <<Do("demand")>>
            IN  \A k \in 1 .. Len(u) : e[k] = u[k] /\ h[k] = v[k] /\ e[k].op # "demand"
        BY <2>23, Closed
      <4> QED
        BY <2>8, <4>1
    <3>4. /\ \A i \in 1 .. g : u[i] = a[i] /\ v[i] = b[i]
          /\ u[g + 1].op = "print"
      BY <2>22, <2>23
    <3> HIDE DEF c, u, v, g
    <3>5. c = g + 2 /\ g + 1 \in 1 .. Len(u) /\ \A i \in 1 .. g : i \in 1 .. Len(u)
      BY <3>0, <3>1
    <3>6. \A i \in 1 .. g : x[i] = a[i] /\ y[i] = b[i] /\ x[i].op # "demand"
      BY <3>3, <3>4, <3>5
    <3>7. x[g + 1].op = "print"
      BY <3>3, <3>4, <3>5
    <3>8. x[c].op = "demand"
      BY <3>1, <3>2
    <3> QED
      BY <3>2, <3>5, <3>6, <3>7, <3>8 DEF g
  <2> HIDE DEF c
  <2>16. c \in Nat \ {0} /\ c - 1 = p + m * n + 1 /\ p + m * n \in Nat
    BY <2>2, <2>4, <2>15
  <2>17. \A i \in 1 .. c : x[i].op = "demand" <=> i = c
    <3>1. \A i \in 1 .. c : i = c \/ i \in 1 .. p + m * n \/ i = p + m * n + 1
      BY <2>16
    <3> QED
      BY <2>15, <3>1
  <2>18. ASSUME NEW o \in {"shuffle", "hear"}
         PROVE  Cardinality({i \in 1 .. c - 1 : x[i].op = o}) = m
    <3>1. Never(f, o) /\ Once(r, o)
      BY <2>1 DEF Piece, Tally
    <3>2. PICK k \in 1 .. n : \A j \in 1 .. n : r[j].op = o <=> j = k
      BY <3>1 DEF Once, n
    <3>3. ASSUME NEW i \in 1 .. p PROVE x[i].op # o
      <4>1. i \in 1 .. p + m * n
        BY <2>2, <2>4
      <4> QED
        BY <2>11, <2>15, <3>1, <4>1 DEF Never, p
    <3>4. Turns(x, o, p, n, m, k)
      BY <2>12, <2>15, <3>2 DEF Turns
    <3>5. p + m * n \in Nat /\ m \in Nat
      BY <1>1, <2>16 DEF m
    <3>6. {i \in 1 .. c - 1 : x[i].op = o} = {i \in 1 .. p + m * n : x[i].op = o}
      <4>1. x[p + m * n + 1].op # o
        BY <2>15
      <4>2. \A i \in 1 .. c - 1 : i = p + m * n + 1 \/ i \in 1 .. p + m * n
        BY <2>16
      <4>3. \A i \in 1 .. p + m * n : i \in 1 .. c - 1
        BY <2>16
      <4> QED
        BY <4>1, <4>2, <4>3
    <3>7. Cardinality({i \in 1 .. p + m * n : x[i].op = o}) = m
      <4>1. p \in Nat /\ n \in Nat \ {0}
        BY <2>2, <2>4
      <4>2. \A i \in 1 .. p : x[i].op # o
        BY <3>3
      <4> QED
        BY <3>4, <3>5, <4>1, <4>2, TallyRepeat
    <3> QED
      BY <3>6, <3>7
  <2>19. \A s \in Party : \E i \in 1 .. c - 1 : Case(s)[i].op = "receive"
    <3>1. PICK i \in 1 .. p + m * n : a[i].op = "receive"
      BY <2>7, <2>10 DEF Listens
    <3>2. x[i].op = "receive"
      BY <2>15, <3>1
    <3>3. Len(b) = p + m * n
      BY <2>6, <2>7 DEF Fits
    <3>4. PICK j \in 1 .. p + m * n : b[j].op = "receive"
      BY <2>9, <3>3 DEF Listens
    <3>5. y[j].op = "receive"
      BY <2>15, <3>4
    <3> QED
      BY <2>16, <3>2, <3>5 DEF Party, x, y
  <2>20. /\ Cardinality({i \in 1 .. c - 1 : x[i].op = "shuffle"}) = config.reps
         /\ Cardinality({i \in 1 .. c - 1 : x[i].op = "hear"}) = config.reps
    BY <2>18 DEF m
  <2> QED
    BY <1>3, <2>15, <2>16, <2>17, <2>19, <2>20 DEF CaseFacts, x, y, c
<1> QED
  BY <1>1, <1>2, <1>3

\* The script of a process, the operations of a case, and those of all cases.
Script(s) == ServerTest0(s)
CaseLen == Len(Case(ALICE))
Whole == config.cases * CaseLen

\* The two scripts of a run: the script of a case over and over.
LEMMA ScriptIs ==
  ASSUME config \in Configs
  PROVE  /\ CaseLen \in Nat \ {0} /\ Whole \in Nat /\ Fits(Script(ALICE), Script(BOB))
         /\ \A s \in Party :
              /\ Script(s) \in Seq(Step) /\ Len(Script(s)) = Whole /\ Len(Case(s)) = CaseLen
              /\ \A q \in 0 .. config.cases - 1, j \in 1 .. CaseLen :
                   Script(s)[q * CaseLen + j] = Case(s)[j]
<1>1. config.cases \in Nat \ {0}
  BY SessionAssumption
<1>2. CaseLen \in Nat \ {0} /\ Fits(Case(ALICE), Case(BOB))
  BY CaseIs DEF CaseFacts, CaseLen
<1>3. \A s \in Party : Case(s) \in Seq(Step) /\ Len(Case(s)) = CaseLen
  BY <1>2 DEF Fits, Party, CaseLen
<1>4. \A s : Script(s) = Repeat(Case(s), config.cases)
  BY DEF Script, ServerTest0, Case
<1>5. Len(Case(ALICE)) > 0
  BY <1>2 DEF CaseLen
<1>6. Fits(Script(ALICE), Script(BOB))
  BY <1>1, <1>2, <1>4, <1>5, FitsRepeat
<1>7. ASSUME NEW s \in Party
      PROVE  /\ Script(s) \in Seq(Step) /\ Len(Script(s)) = Whole /\ Whole \in Nat
             /\ \A q \in 0 .. config.cases - 1, j \in 1 .. CaseLen :
                  Script(s)[q * CaseLen + j] = Case(s)[j]
  <2>1. Case(s) \in Seq(Step) /\ Len(Case(s)) > 0 /\ config.cases \in Nat
    BY <1>1, <1>2, <1>3
  <2>2. /\ config.cases * Len(Case(s)) \in Nat
        /\ Script(s) \in Seq(Step) /\ Len(Script(s)) = config.cases * Len(Case(s))
        /\ \A q \in 0 .. config.cases - 1, j \in 1 .. Len(Case(s)) :
              Script(s)[q * Len(Case(s)) + j] = Case(s)[j]
    BY <1>4, <2>1, RepeatAt
  <2>3. Len(Case(s)) = CaseLen
    BY <1>3
  <2> QED
    BY <2>2, <2>3 DEF Whole
<1> QED
  BY <1>2, <1>3, <1>6, <1>7 DEF Party

\* The kind of the message that an operation sends.
MessageKind(e) ==
  CASE e.op = "decide" -> "verdict" [] e.op = "tell" -> "summary" [] OTHER -> e.kind

\* What one party does at a place, from what the other does there.
LEMMA Places ==
  ASSUME config \in Configs, NEW i \in 1 .. Whole, NEW s \in Party
  PROVE  LET e == Script(s)[i]
             d == Script(Peer(s))[i]
         IN  /\ e \in Step
             /\ e.op \in Receives <=> d.op \in Sends
             /\ e.op \in Sends <=> d.op \in Receives
             /\ e.op \in Sends \cup Receives \cup {"shuffle", "print", "demand"}
             /\ \A o \in {"shuffle", "demand"} : e.op = o <=> d.op = o
             /\ e.op = "send" => e.kind \notin {"verdict", "summary"} /\ e.kind \in Kinds
             /\ e.op = "receive" => e.kind = MessageKind(d) /\ e.kind \in Kinds
             /\ e.op = "hear" <=> s = ALICE /\ d.op = "tell"
             /\ e.op = "tell" <=> s = BOB /\ d.op = "hear"
             /\ e.op = "decide" <=> s = ALICE /\ d.op = "obey"
             /\ e.op = "obey" <=> s = BOB /\ d.op = "decide"
<1> DEFINE a == Script(ALICE)[i]
           b == Script(BOB)[i]
<1>1. Match(a, b) /\ a \in Step /\ b \in Step
  <2>1. i \in 1 .. Len(Script(ALICE)) /\ i \in 1 .. Len(Script(BOB))
    BY ScriptIs DEF Party
  <2> QED
    BY <2>1, ScriptIs, ElementOfSeq DEF Fits, Party
<1> HIDE DEF a, b
<1>2. CASE s = ALICE
  <2>1. Peer(s) = BOB /\ s # BOB
    BY <1>2 DEF Peer, ALICE, BOB
  <2>2. Script(s)[i] = a /\ Script(Peer(s))[i] = b
    BY <1>2, <2>1 DEF a, b
  <2> HIDE DEF a, b
  <2> QED
    BY <1>1, <1>2, <2>1, <2>2 DEF Match, MessageKind, Sends, Receives, Kinds
<1>3. CASE s = BOB
  <2>1. Peer(s) = ALICE /\ s # ALICE
    BY <1>3 DEF Peer, ALICE, BOB
  <2>2. Script(s)[i] = b /\ Script(Peer(s))[i] = a
    BY <1>3, <2>1 DEF a, b
  <2> HIDE DEF a, b
  <2> QED
    BY <1>1, <1>3, <2>1, <2>2 DEF Match, MessageKind, Sends, Receives, Kinds
<1> QED
  BY <1>2, <1>3 DEF Party

\* BOB tells, and ALICE decides, right after a receive.
LEMMA After ==
  ASSUME config \in Configs, NEW i \in 1 .. Whole
  PROVE  /\ Script(BOB)[i].op = "tell" => i > 1 /\ Script(BOB)[i - 1].op \in Receives
         /\ Script(ALICE)[i].op = "decide" => i > 1 /\ Script(ALICE)[i - 1].op \in Receives
<1>1. i \in 1 .. Len(Script(ALICE)) /\ ALICE \in Party /\ BOB \in Party /\ Peer(BOB) = ALICE
  BY ScriptIs DEF Party, Peer, ALICE, BOB
<1>2. /\ Script(ALICE)[i].op = "hear" => i > 1 /\ Script(ALICE)[i - 1].op = "send"
      /\ Script(ALICE)[i].op = "decide" => i > 1 /\ Script(ALICE)[i - 1].op = "receive"
  BY <1>1, ScriptIs DEF Fits
<1>3. Script(BOB)[i].op = "tell" => Script(ALICE)[i].op = "hear"
  BY <1>1, Places
<1>4. ASSUME i > 1, Script(ALICE)[i - 1].op = "send"
      PROVE  Script(BOB)[i - 1].op \in Receives
  <2>1. i - 1 \in 1 .. Whole
    BY <1>4, ScriptIs
  <2> QED
    BY <1>1, <1>4, <2>1, Places DEF Sends
<1> QED
  BY <1>2, <1>3, <1>4 DEF Receives

\* The only demand of a case is its last operation.
LEMMA DemandLast ==
  ASSUME config \in Configs, NEW s \in Party, NEW i \in 1 .. CaseLen
  PROVE  Case(s)[i].op = "demand" <=> i = CaseLen
<1>1. Case(ALICE)[i].op = "demand" <=> i = CaseLen
  BY CaseIs DEF CaseFacts, CaseLen
<1>2. Match(Case(ALICE)[i], Case(BOB)[i])
  BY CaseIs DEF CaseFacts, CaseLen, Fits
<1>3. Case(BOB)[i].op = "demand" <=> i = CaseLen
  BY <1>1, <1>2 DEF Match
<1> QED
  BY <1>1, <1>3 DEF Party

\* Place p + 1 of a script in the script of its case.
LEMMA NextPlace ==
  ASSUME config \in Configs, NEW s \in Party, NEW p \in 0 .. Whole - 1
  PROVE  LET c == p % CaseLen IN
         /\ c \in 0 .. CaseLen - 1 /\ Script(s)[p + 1] = Case(s)[c + 1]
         /\ Script(s)[p + 1].op = "demand" <=> c = CaseLen - 1
         /\ c = CaseLen - 1 => (p + 1) % CaseLen = 0 /\ (p + 1) \div CaseLen = p \div CaseLen + 1
         /\ c # CaseLen - 1 => (p + 1) % CaseLen = c + 1 /\ (p + 1) \div CaseLen = p \div CaseLen
<1> DEFINE n == CaseLen
           m == config.cases
<1>1. /\ n \in Nat \ {0} /\ m \in Nat \ {0} /\ Whole = m * n
      /\ Script(s) \in Seq(Step)
      /\ \A q \in 0 .. m - 1, j \in 1 .. n : Script(s)[q * n + j] = Case(s)[j]
  BY ScriptIs, SessionAssumption DEF Whole
<1>2. \A i \in 1 .. n : Case(s)[i].op = "demand" <=> i = n
  BY DemandLast
<1> HIDE DEF n, m
<1>3. p + 1 \in 1 .. m * n /\ p \in Int
  BY <1>1
<1>4. PICK q \in 0 .. m - 1, j \in 1 .. n : p + 1 = q * n + j
  BY <1>1, <1>3, TurnOf
<1>5. q * n \in Int /\ (q + 1) * n = q * n + n
  BY <1>1, Z3
<1>6. p = q * n + (j - 1) /\ j - 1 \in 0 .. n - 1
  BY <1>1, <1>3, <1>4, <1>5
<1>7. p % n = j - 1 /\ p \div n = q
  <2>1. (q * n + (j - 1)) % n = j - 1 /\ (q * n + (j - 1)) \div n = q
    <3>1. n \in Nat \ {0} /\ j - 1 \in 0 .. n - 1 /\ q \in Int
      BY <1>1, <1>6
    <3> QED
      BY <3>1, ModDigit
  <2> QED
    BY <1>6, <2>1, Zenon
<1>8. Script(s)[p + 1] = Case(s)[j]
  BY <1>1, <1>4
<1>9. CASE j = n
  <2>1. p + 1 = (q + 1) * n + 0 /\ 0 \in 0 .. n - 1 /\ q + 1 \in Int
    BY <1>1, <1>4, <1>5, <1>9
  <2>2. (p + 1) % n = 0 /\ (p + 1) \div n = q + 1
    <3>1. ((q + 1) * n + 0) % n = 0 /\ ((q + 1) * n + 0) \div n = q + 1
      BY <1>1, <2>1, ModDigit
    <3> QED
      BY <2>1, <3>1, Zenon
  <2> QED
    BY <1>1, <1>2, <1>6, <1>7, <1>8, <1>9, <2>2 DEF n
<1>10. CASE j # n
  <2>1. j \in 0 .. n - 1
    BY <1>1, <1>10
  <2>2. (p + 1) % n = j /\ (p + 1) \div n = q
    BY <1>1, <1>4, <2>1, ModDigit
  <2> QED
    BY <1>1, <1>2, <1>6, <1>7, <1>8, <1>10, <2>1, <2>2 DEF n
<1> QED
  BY <1>9, <1>10

\* Between two demands each server waits for the other.
LEMMA Apart ==
  ASSUME config \in Configs, config.valid, NEW s \in Party, NEW d \in 1 .. Whole, NEW e \in 1 .. Whole,
         d < e, Script(s)[d].op = "demand", Script(s)[e].op = "demand"
  PROVE  \E i \in d + 1 .. e : Script(s)[i].op \in Receives
<1> DEFINE n == CaseLen
           m == config.cases
<1>1. /\ n \in Nat \ {0} /\ m \in Nat \ {0} /\ Whole = m * n
      /\ \A q \in 0 .. m - 1, j \in 1 .. n : Script(s)[q * n + j] = Case(s)[j]
  BY ScriptIs, SessionAssumption DEF Whole
<1>2. \A i \in 1 .. n : Case(s)[i].op = "demand" <=> i = n
  BY DemandLast
<1>3. PICK i \in 1 .. n - 1 : Case(s)[i].op = "receive"
  BY CaseIs DEF CaseFacts, CaseLen
<1> HIDE DEF n, m
<1>4. ASSUME NEW k \in 1 .. Whole, Script(s)[k].op = "demand"
      PROVE  \E q \in 0 .. m - 1 : k = q * n + n
  <2>1. k \in 1 .. m * n
    BY <1>1
  <2>2. PICK q \in 0 .. m - 1, j \in 1 .. n : k = q * n + j
    BY <1>1, <2>1, TurnOf
  <2> QED
    BY <1>1, <1>2, <1>4, <2>2
<1>5. PICK q \in 0 .. m - 1 : d = q * n + n
  BY <1>4
<1>6. PICK r \in 0 .. m - 1 : e = r * n + n
  BY <1>4
<1>7. /\ q * n \in Int /\ r * n \in Int /\ (q + 1) * n = q * n + n
      /\ (r <= q => r * n <= q * n) /\ (r >= q + 1 => r * n >= q * n + n)
  BY <1>1, Z3
<1>8. r >= q + 1
  BY <1>1, <1>5, <1>6, <1>7
<1>9. q + 1 \in 0 .. m - 1 /\ i \in 1 .. n
  BY <1>1, <1>8
<1>10. Script(s)[(q + 1) * n + i].op = "receive"
  BY <1>1, <1>3, <1>9
<1>11. (q + 1) * n + i \in d + 1 .. e
  BY <1>1, <1>5, <1>6, <1>7, <1>8
<1> QED
  BY <1>10, <1>11 DEF Receives

-----------------------------------------------------------------------------
(* What a case counts. *)

\* How many of the first c operations of a case are o.
Done(s, o, c) == Cardinality({i \in 1 .. c : Case(s)[i].op = o})

\* What a server does at the end of a repetition.
Summing(s) == IF s = ALICE THEN "hear" ELSE "tell"

\* Counting one operation more.
LEMMA DoneNext ==
  ASSUME NEW s, NEW o, NEW c \in Nat
  PROVE  /\ Done(s, o, c) \in Nat /\ Done(s, o, 0) = 0
         /\ Case(s)[c + 1].op = o => Done(s, o, c + 1) = Done(s, o, c) + 1
         /\ Case(s)[c + 1].op # o => Done(s, o, c + 1) = Done(s, o, c)
         /\ \A d \in 0 .. c : Done(s, o, d) <= Done(s, o, c)
<1> DEFINE S(k) == {i \in 1 .. k : Case(s)[i].op = o}
<1>1. ASSUME NEW k \in Nat PROVE IsFiniteSet(S(k)) /\ Cardinality(S(k)) \in Nat
  <2>1. IsFiniteSet(1 .. k) /\ S(k) \in SUBSET (1 .. k)
    BY FS_Interval
  <2> QED
    BY <2>1, FS_Subset, FS_CardinalityType
<1>2. S(0) = {}
  OBVIOUS
<1>3. Cardinality(S(0)) = 0
  BY <1>2, FS_EmptySet
<1>4. c + 1 \notin S(c) /\ c + 1 \in 1 .. c + 1
  OBVIOUS
<1>5. Case(s)[c + 1].op = o => S(c + 1) = S(c) \cup {c + 1}
  BY <1>4
<1>6. Case(s)[c + 1].op # o => S(c + 1) = S(c)
  OBVIOUS
<1>7. ASSUME NEW d \in 0 .. c PROVE S(d) \in SUBSET S(c)
  OBVIOUS
<1> HIDE DEF S
<1>8. Cardinality(S(c) \cup {c + 1}) = Cardinality(S(c)) + 1
  BY <1>1, <1>4, FS_AddElement
<1>9. \A d \in 0 .. c : Cardinality(S(d)) <= Cardinality(S(c))
  BY <1>1, <1>7, FS_Subset
<1>10. \A k : Done(s, o, k) = Cardinality(S(k))
  BY DEF Done, S
<1>11. Done(s, o, c) \in Nat /\ Done(s, o, 0) = 0
  BY <1>1, <1>3, <1>10
<1>12. \A d \in 0 .. c : Done(s, o, d) <= Done(s, o, c)
  BY <1>9, <1>10
<1>13. Case(s)[c + 1].op = o => Done(s, o, c + 1) = Done(s, o, c) + 1
  BY <1>5, <1>8, <1>10
<1>14. Case(s)[c + 1].op # o => Done(s, o, c + 1) = Done(s, o, c)
  BY <1>6, <1>10
<1> QED
  BY <1>11, <1>12, <1>13, <1>14

\* A case that fits has a shuffle and a summary in each repetition.
LEMMA DoneAll ==
  ASSUME config \in Configs, config.valid, NEW s \in Party
  PROVE  /\ Done(s, "shuffle", CaseLen - 1) = config.reps
         /\ Done(s, Summing(s), CaseLen - 1) = config.reps
<1> DEFINE c == CaseLen
<1>1. c \in Nat \ {0} /\ \A i \in 1 .. c : Match(Case(ALICE)[i], Case(BOB)[i])
  BY CaseIs DEF CaseFacts, CaseLen, Fits
<1>2. /\ Cardinality({i \in 1 .. c - 1 : Case(ALICE)[i].op = "shuffle"}) = config.reps
      /\ Cardinality({i \in 1 .. c - 1 : Case(ALICE)[i].op = "hear"}) = config.reps
  BY CaseIs DEF CaseFacts, CaseLen
<1>3. \A i \in 1 .. c - 1 : /\ Case(ALICE)[i].op = "shuffle" <=> Case(BOB)[i].op = "shuffle"
                            /\ Case(ALICE)[i].op = "hear" <=> Case(BOB)[i].op = "tell"
  BY <1>1 DEF Match
<1>4. {i \in 1 .. c - 1 : Case(ALICE)[i].op = "shuffle"} = {i \in 1 .. c - 1 : Case(BOB)[i].op = "shuffle"}
  BY <1>3
<1>5. {i \in 1 .. c - 1 : Case(ALICE)[i].op = "hear"} = {i \in 1 .. c - 1 : Case(BOB)[i].op = "tell"}
  BY <1>3
<1> HIDE DEF c
<1>6. BOB # ALICE
  BY DEF ALICE, BOB
<1>7. CASE s = ALICE
  BY <1>2, <1>7 DEF Done, Summing, c
<1>8. CASE s = BOB
  BY <1>2, <1>4, <1>5, <1>6, <1>8 DEF Done, Summing, c
<1> QED
  BY <1>7, <1>8 DEF Party

\* Both servers have as many shuffles among their first operations of a case.
LEMMA DoneBoth ==
  ASSUME config \in Configs, NEW c \in 0 .. CaseLen
  PROVE  Done(ALICE, "shuffle", c) = Done(BOB, "shuffle", c)
<1>1. CaseLen \in Nat /\ \A i \in 1 .. CaseLen : Match(Case(ALICE)[i], Case(BOB)[i])
  BY CaseIs DEF CaseFacts, CaseLen, Fits
<1>2. \A i \in 1 .. c : Case(ALICE)[i].op = "shuffle" <=> Case(BOB)[i].op = "shuffle"
  BY <1>1 DEF Match
<1>3. {i \in 1 .. c : Case(ALICE)[i].op = "shuffle"} = {i \in 1 .. c : Case(BOB)[i].op = "shuffle"}
  BY <1>2
<1> QED
  BY <1>3 DEF Done

-----------------------------------------------------------------------------
(* What a connection carries of a script. *)

\* The connection holds, in order, what script x sends from place lo + 1 to place hi.
Carries(ch, x, lo, hi) ==
  \E f \in [1 .. Len(ch) -> lo + 1 .. hi] :
     /\ \A j, k \in 1 .. Len(ch) : j < k => f[j] < f[k]
     /\ \A i \in lo + 1 .. hi : x[i].op \in Sends => \E k \in 1 .. Len(ch) : f[k] = i
     /\ \A k \in 1 .. Len(ch) : x[f[k]].op \in Sends /\ ch[k].kind = MessageKind(x[f[k]])
Message ==
  [kind : Kinds \cup {"verdict"}, ok : BOOLEAN]
    \cup [kind : {"summary"}, exact : BOOLEAN, indices : BOOLEAN]

\* Nothing sent, nothing carried.
LEMMA CarriesNone ==
  ASSUME NEW ch \in Seq(Message), NEW x, NEW lo \in Nat
  PROVE  Carries(ch, x, lo, lo) <=> ch = <<>>
<1>1. ASSUME Carries(ch, x, lo, lo) PROVE ch = <<>>
  <2>1. PICK f \in [1 .. Len(ch) -> lo + 1 .. lo] : TRUE
    BY <1>1 DEF Carries
  <2>2. ~(1 \in 1 .. Len(ch))
    BY <2>1
  <2>3. Len(ch) \in Nat /\ (ch # <<>> => Len(ch) # 0)
    BY LenProperties, EmptySeq
  <2> QED
    BY <2>2, <2>3
<1>2. ASSUME ch = <<>> PROVE Carries(ch, x, lo, lo)
  <2> DEFINE f == [k \in 1 .. Len(ch) |-> lo]
  <2>1. Len(ch) = 0
    BY <1>2
  <2>2. f \in [1 .. Len(ch) -> lo + 1 .. lo]
    BY <2>1
  <2>3. \A k \in 1 .. Len(ch) : FALSE
    BY <2>1
  <2>4. \A i \in lo + 1 .. lo : FALSE
    OBVIOUS
  <2> HIDE DEF f
  <2> QED
    BY <2>2, <2>3, <2>4 DEF Carries
<1> QED
  BY <1>1, <1>2

\* A connection carries nothing at first.
LEMMA CarriesEmpty ==
  ASSUME NEW x, NEW lo \in Nat
  PROVE  Carries(<<>>, x, lo, lo)
<1> DEFINE c == <<>>
<1>1. c \in Seq(Message) /\ c = <<>>
  BY EmptySeq
<1> HIDE DEF c
<1>2. Carries(c, x, lo, lo)
  BY <1>1, CarriesNone
<1> QED
  BY <1>1, <1>2, Zenon

\* A send is carried as the last message.
LEMMA CarriesSend ==
  ASSUME NEW ch \in Seq(Message), NEW x, NEW lo \in Nat, NEW hi \in Nat, lo <= hi,
         NEW m \in Message, x[hi + 1].op \in Sends, m.kind = MessageKind(x[hi + 1]),
         Carries(ch, x, lo, hi)
  PROVE  Carries(Append(ch, m), x, lo, hi + 1)
<1> DEFINE n == Len(ch)
           d == Append(ch, m)
<1>1. PICK f \in [1 .. n -> lo + 1 .. hi] :
        /\ \A j, k \in 1 .. n : j < k => f[j] < f[k]
        /\ \A i \in lo + 1 .. hi : x[i].op \in Sends => \E k \in 1 .. n : f[k] = i
        /\ \A k \in 1 .. n : x[f[k]].op \in Sends /\ ch[k].kind = MessageKind(x[f[k]])
  BY DEF Carries
<1>2. /\ n \in Nat /\ Len(d) = n + 1 /\ d[n + 1] = m
      /\ \A k \in 1 .. n : d[k] = ch[k]
  BY LenProperties, AppendProperties
<1> DEFINE g == [k \in 1 .. n + 1 |-> IF k = n + 1 THEN hi + 1 ELSE f[k]]
<1> HIDE DEF n, d
<1>3. \A k \in 1 .. n + 1 : k = n + 1 \/ k \in 1 .. n
  BY <1>2
<1>4. /\ n + 1 \in 1 .. n + 1 /\ g[n + 1] = hi + 1
      /\ \A k \in 1 .. n : k \in 1 .. n + 1 /\ k # n + 1 /\ g[k] = f[k] /\ f[k] \in lo + 1 .. hi
  BY <1>2
<1>5. g \in [1 .. n + 1 -> lo + 1 .. hi + 1]
  BY <1>2, <1>3
<1> HIDE DEF g
<1>6. ASSUME NEW j \in 1 .. n + 1, NEW k \in 1 .. n + 1, j < k
      PROVE  g[j] < g[k]
  <2>1. j \in 1 .. n
    BY <1>2, <1>6
  <2>2. CASE k = n + 1
    BY <1>4, <2>1, <2>2
  <2>3. CASE k \in 1 .. n
    BY <1>1, <1>4, <1>6, <2>1, <2>3
  <2> QED
    BY <1>3, <2>2, <2>3
<1>7. ASSUME NEW i \in lo + 1 .. hi + 1, x[i].op \in Sends
      PROVE  \E k \in 1 .. n + 1 : g[k] = i
  <2>1. CASE i = hi + 1
    BY <1>4, <2>1
  <2>2. CASE i # hi + 1
    <3>1. i \in lo + 1 .. hi
      BY <2>2
    <3>2. PICK k \in 1 .. n : f[k] = i
      BY <1>1, <1>7, <3>1
    <3> QED
      BY <1>4, <3>2
  <2> QED
    BY <2>1, <2>2
<1>8. ASSUME NEW k \in 1 .. n + 1
      PROVE  x[g[k]].op \in Sends /\ d[k].kind = MessageKind(x[g[k]])
  <2>1. CASE k = n + 1
    BY <1>2, <1>4, <2>1
  <2>2. CASE k \in 1 .. n
    BY <1>1, <1>2, <1>4, <2>2
  <2> QED
    BY <1>3, <2>1, <2>2
<1> QED
  <2>1. g \in [1 .. Len(d) -> lo + 1 .. hi + 1]
    BY <1>2, <1>5
  <2>2. \A j, k \in 1 .. Len(d) : j < k => g[j] < g[k]
    BY <1>2, <1>6
  <2>3. \A i \in lo + 1 .. hi + 1 : x[i].op \in Sends => \E k \in 1 .. Len(d) : g[k] = i
    BY <1>2, <1>7
  <2>4. \A k \in 1 .. Len(d) : x[g[k]].op \in Sends /\ d[k].kind = MessageKind(x[g[k]])
    BY <1>2, <1>8
  <2>5. Carries(d, x, lo, hi + 1)
    BY <2>1, <2>2, <2>3, <2>4 DEF Carries
  <2> QED
    BY <2>5 DEF d

\* What is not a send is not carried.
LEMMA CarriesOn ==
  ASSUME NEW ch \in Seq(Message), NEW x, NEW lo \in Nat, NEW hi \in Nat,
         x[hi + 1].op \notin Sends, Carries(ch, x, lo, hi)
  PROVE  Carries(ch, x, lo, hi + 1)
<1>1. PICK f \in [1 .. Len(ch) -> lo + 1 .. hi] :
        /\ \A j, k \in 1 .. Len(ch) : j < k => f[j] < f[k]
        /\ \A i \in lo + 1 .. hi : x[i].op \in Sends => \E k \in 1 .. Len(ch) : f[k] = i
        /\ \A k \in 1 .. Len(ch) : x[f[k]].op \in Sends /\ ch[k].kind = MessageKind(x[f[k]])
  BY DEF Carries
<1>2. f \in [1 .. Len(ch) -> lo + 1 .. hi + 1]
  BY <1>1
<1>3. \A i \in lo + 1 .. hi + 1 : i = hi + 1 \/ i \in lo + 1 .. hi
  OBVIOUS
<1> QED
  BY <1>1, <1>2, <1>3 DEF Carries

\* The receiver passes a place where nothing is sent.
LEMMA CarriesPast ==
  ASSUME NEW ch \in Seq(Message), NEW x, NEW lo \in Nat, NEW hi \in Nat,
         x[lo + 1].op \notin Sends, Carries(ch, x, lo, hi)
  PROVE  Carries(ch, x, lo + 1, hi)
<1>1. PICK f \in [1 .. Len(ch) -> lo + 1 .. hi] :
        /\ \A j, k \in 1 .. Len(ch) : j < k => f[j] < f[k]
        /\ \A i \in lo + 1 .. hi : x[i].op \in Sends => \E k \in 1 .. Len(ch) : f[k] = i
        /\ \A k \in 1 .. Len(ch) : x[f[k]].op \in Sends /\ ch[k].kind = MessageKind(x[f[k]])
  BY DEF Carries
<1>2. \A k \in 1 .. Len(ch) : f[k] \in lo + 1 .. hi /\ f[k] # lo + 1
  BY <1>1
<1>3. f \in [1 .. Len(ch) -> lo + 1 + 1 .. hi]
  BY <1>2
<1>4. \A i \in lo + 1 + 1 .. hi : i \in lo + 1 .. hi
  OBVIOUS
<1> QED
  BY <1>1, <1>3, <1>4 DEF Carries

\* The receiver that is where something was sent takes just that.
LEMMA CarriesTake ==
  ASSUME NEW ch \in Seq(Message), NEW x, NEW lo \in Nat, NEW hi \in Nat, lo < hi,
         x[lo + 1].op \in Sends, Carries(ch, x, lo, hi)
  PROVE  /\ ch # <<>> /\ Head(ch).kind = MessageKind(x[lo + 1])
         /\ Carries(Tail(ch), x, lo + 1, hi)
<1> DEFINE n == Len(ch)
           d == Tail(ch)
<1>1. PICK f \in [1 .. n -> lo + 1 .. hi] :
        /\ \A j, k \in 1 .. n : j < k => f[j] < f[k]
        /\ \A i \in lo + 1 .. hi : x[i].op \in Sends => \E k \in 1 .. n : f[k] = i
        /\ \A k \in 1 .. n : x[f[k]].op \in Sends /\ ch[k].kind = MessageKind(x[f[k]])
  BY DEF Carries
<1>2. n \in Nat
  BY LenProperties
<1>3. lo + 1 \in lo + 1 .. hi
  OBVIOUS
<1>4. PICK k1 \in 1 .. n : f[k1] = lo + 1
  BY <1>1, <1>3
<1>5. n >= 1 /\ 1 \in 1 .. n
  BY <1>2
<1>6. k1 = 1
  <2>1. f[1] \in lo + 1 .. hi
    BY <1>5
  <2>2. 1 < k1 => f[1] < f[k1]
    BY <1>1, <1>5
  <2> QED
    BY <1>2, <1>4, <2>1, <2>2
<1>7. ch # <<>> /\ Head(ch) = ch[1]
  BY <1>5
<1>8. Head(ch).kind = MessageKind(x[lo + 1])
  BY <1>1, <1>4, <1>5, <1>6, <1>7
<1>9. Len(d) = n - 1 /\ \A k \in 1 .. n - 1 : d[k] = ch[k + 1]
  BY <1>7, HeadTailProperties
<1> DEFINE g == [k \in 1 .. n - 1 |-> f[k + 1]]
<1> HIDE DEF n, d
<1>10. \A k \in 1 .. n - 1 : k + 1 \in 1 .. n /\ 1 < k + 1
  BY <1>2
<1>11. \A k \in 1 .. n - 1 : f[k + 1] \in lo + 1 + 1 .. hi
  <2> SUFFICES ASSUME NEW k \in 1 .. n - 1 PROVE f[k + 1] \in lo + 1 + 1 .. hi
    OBVIOUS
  <2>1. f[1] < f[k + 1] /\ f[k + 1] \in lo + 1 .. hi
    BY <1>1, <1>5, <1>10
  <2> QED
    BY <1>4, <1>6, <2>1
<1>12. g \in [1 .. n - 1 -> lo + 1 + 1 .. hi] /\ \A k \in 1 .. n - 1 : g[k] = f[k + 1]
  BY <1>11
<1> HIDE DEF g
<1>13. ASSUME NEW j \in 1 .. n - 1, NEW k \in 1 .. n - 1, j < k
       PROVE  g[j] < g[k]
  <2>1. j + 1 < k + 1
    BY <1>2, <1>13
  <2> QED
    BY <1>1, <1>10, <1>12, <2>1
<1>14. ASSUME NEW i \in lo + 1 + 1 .. hi, x[i].op \in Sends
       PROVE  \E k \in 1 .. n - 1 : g[k] = i
  <2>1. PICK k \in 1 .. n : f[k] = i
    BY <1>1, <1>14
  <2>2. k # 1
    BY <1>4, <1>6, <2>1
  <2>3. k - 1 \in 1 .. n - 1 /\ (k - 1) + 1 = k
    BY <1>2, <2>2
  <2>4. g[k - 1] = i
    BY <1>12, <2>1, <2>3
  <2> QED
    BY <2>3, <2>4
<1>15. ASSUME NEW k \in 1 .. n - 1
       PROVE  x[g[k]].op \in Sends /\ d[k].kind = MessageKind(x[g[k]])
  BY <1>1, <1>9, <1>10, <1>12
<1>16. Carries(d, x, lo + 1, hi)
  <2>1. g \in [1 .. Len(d) -> lo + 1 + 1 .. hi]
    BY <1>9, <1>12
  <2>2. \A j, k \in 1 .. Len(d) : j < k => g[j] < g[k]
    BY <1>9, <1>13
  <2>3. \A i \in lo + 1 + 1 .. hi : x[i].op \in Sends => \E k \in 1 .. Len(d) : g[k] = i
    BY <1>9, <1>14
  <2>4. \A k \in 1 .. Len(d) : x[g[k]].op \in Sends /\ d[k].kind = MessageKind(x[g[k]])
    BY <1>9, <1>15
  <2> QED
    BY <2>1, <2>2, <2>3, <2>4 DEF Carries
<1> QED
  BY <1>7, <1>8, <1>16 DEF d

\* Two sends are two messages.
LEMMA CarriesTwo ==
  ASSUME NEW ch \in Seq(Message), NEW x, NEW lo \in Nat, NEW hi \in Nat, lo < hi,
         x[lo + 1].op \in Sends, x[hi].op \in Sends, Carries(ch, x, lo, hi)
  PROVE  Len(ch) = 1 <=> lo + 1 = hi
<1> DEFINE n == Len(ch)
<1>1. PICK f \in [1 .. n -> lo + 1 .. hi] :
        /\ \A j, k \in 1 .. n : j < k => f[j] < f[k]
        /\ \A i \in lo + 1 .. hi : x[i].op \in Sends => \E k \in 1 .. n : f[k] = i
  BY DEF Carries
<1>2. n \in Nat
  BY LenProperties
<1>3. lo + 1 \in lo + 1 .. hi /\ hi \in lo + 1 .. hi
  OBVIOUS
<1>4. PICK j \in 1 .. n, k \in 1 .. n : f[j] = lo + 1 /\ f[k] = hi
  BY <1>1, <1>3
<1> HIDE DEF n
<1>5. n = 1 => j = k
  BY <1>2
<1>6. ASSUME lo + 1 = hi, n # 1 PROVE FALSE
  <2>1. 1 \in 1 .. n /\ 2 \in 1 .. n
    BY <1>2, <1>6
  <2>2. f[1] < f[2] /\ f[1] \in lo + 1 .. hi /\ f[2] \in lo + 1 .. hi
    BY <1>1, <2>1
  <2> QED
    BY <1>6, <2>2
<1> QED
  BY <1>4, <1>5, <1>6 DEF n

\* The first message was sent at some place.
LEMMA CarriesFirst ==
  ASSUME NEW ch \in Seq(Message), NEW x, NEW lo \in Nat, NEW hi \in Nat, ch # <<>>,
         Carries(ch, x, lo, hi)
  PROVE  \E i \in lo + 1 .. hi : x[i].op \in Sends /\ Head(ch).kind = MessageKind(x[i])
<1>1. PICK f \in [1 .. Len(ch) -> lo + 1 .. hi] :
        \A k \in 1 .. Len(ch) : x[f[k]].op \in Sends /\ ch[k].kind = MessageKind(x[f[k]])
  BY DEF Carries
<1>2. 1 \in 1 .. Len(ch) /\ Head(ch) = ch[1]
  BY EmptySeq
<1> QED
  BY <1>1, <1>2

\* How a process may be.
Statuses ==
  {"running", "lost", "refused", "incorrect", "undecoded", "done", "crashed", "killed"}

-----------------------------------------------------------------------------
(* The positions of the servers, and the connection between them. *)

\* The two parties.
LEMMA PeerIs ==
  /\ ALICE \in Party /\ BOB \in Party /\ ALICE # BOB /\ Peer(ALICE) = BOB /\ Peer(BOB) = ALICE
  /\ \A s \in Party : /\ s = ALICE \/ s = BOB
                      /\ Peer(s) \in Party /\ Peer(s) # s /\ Peer(Peer(s)) = s
                      /\ \A r \in Party : r = s \/ r = Peer(s)
BY DEF Party, Peer, ALICE, BOB

\* What BOB says of a repetition.
Summaries == [exact : BOOLEAN, indices : BOOLEAN]

\* How far process s is in its script.
Pos(s) == Len(Script(s)) - Len(todo[s])

\* The types, with the messages and scripts that TypeOK leaves out.
Types ==
  /\ config \in Configs /\ connected \in [Party -> BOOLEAN] /\ status \in [Party -> Statuses]
  /\ todo \in [Party -> Seq(Step)] /\ chan \in [Party -> Seq(Message)]
  /\ out \in [Party -> 0 .. Capacity] /\ shuffles \in [Party -> Nat]
  /\ said \in [Party -> Seq(Summaries)]
  /\ driver \in {"waiting", "grace", "ended"} /\ outcome \in {"none", "parsed", "error"}

\* ALICE accepts only the connection that BOB made.
Met == connected[ALICE] => connected[BOB]

\* What is left of a script is its end.
Where ==
  \A s \in Party : Pos(s) \in 0 .. Whole /\ todo[s] = SubSeq(Script(s), Pos(s) + 1, Whole)

\* The process that is not behind took nothing that its peer has not sent, nothing
\* is on its way to it, and what is on its way to the peer is what it sent since.
Linked(s) ==
  /\ chan[s] = <<>> /\ Carries(chan[Peer(s)], Script(s), Pos(Peer(s)), Pos(s))
  /\ \A i \in Pos(Peer(s)) + 1 .. Pos(s) : Script(s)[i].op \notin Receives

\* Whoever is not behind is linked to its peer.
Link == \A s \in Party : Pos(Peer(s)) <= Pos(s) => Linked(s)

\* The scripts are those of the command line, which does not change.
LEMMA Fixed ==
  ASSUME config' = config, NEW s \in Party
  PROVE  Script(s)' = Script(s) /\ Case(s)' = Case(s) /\ CaseLen' = CaseLen /\ Whole' = Whole
<1>1. Case(s)' = Case(s) /\ Case(ALICE)' = Case(ALICE)
  BY DEF Case, RunBenchmarkCase, Ran, Triple, Offline, Translation, Repetition, Keys, Check, Bridge,
         Shuffle, PermuteShare, Compress, Respond, Summary, Repeat, Says, Tx, Rx, Do, Prints, Offset
<1>2. Script(s)' = Script(s)
  BY DEF Script, ServerTest0, RunBenchmarkCase, Ran, Triple, Offline, Translation, Repetition, Keys,
         Check, Bridge, Shuffle, PermuteShare, Compress, Respond, Summary, Repeat, Says, Tx, Rx,
         Do, Prints, Offset
<1> QED
  BY <1>1, <1>2 DEF CaseLen, Whole

\* Process s takes the next operation of its script.
Goes(s) == todo[s] # <<>> /\ Advance(s) /\ config' = config

\* A process that has something left is at a place of its script.
LEMMA Stands ==
  ASSUME Types, Where, NEW s \in Party, todo[s] # <<>>
  PROVE  Pos(s) \in 0 .. Whole - 1 /\ At(s) = Script(s)[Pos(s) + 1] /\ At(s) \in Step
<1>1. /\ Pos(s) \in 0 .. Whole /\ todo[s] = SubSeq(Script(s), Pos(s) + 1, Whole)
      /\ Script(s) \in Seq(Step) /\ Len(Script(s)) = Whole /\ Whole \in Nat
  BY ScriptIs DEF Where, Types
<1>2. Pos(s) # Whole
  <2> SUFFICES ASSUME Pos(s) = Whole PROVE FALSE
    OBVIOUS
  <2>1. Whole < Pos(s) + 1 /\ Whole \in Int /\ Pos(s) + 1 \in Int
    BY <1>1
  <2>2. SubSeq(Script(s), Pos(s) + 1, Whole) = <<>>
    BY <2>1, SubSeqEmpty
  <2> QED
    BY <1>1, <2>2
<1>3. Pos(s) + 1 \in 1 .. Len(Script(s)) /\ Whole \in Pos(s) + 1 .. Len(Script(s))
  BY <1>1, <1>2
<1>4. Head(SubSeq(Script(s), Pos(s) + 1, Whole)) = Script(s)[Pos(s) + 1]
  BY <1>1, <1>3, HeadTailOfSubSeq
<1>5. Script(s)[Pos(s) + 1] \in Step
  BY <1>1, <1>3, ElementOfSeq
<1> QED
  BY <1>1, <1>2, <1>4, <1>5 DEF At

\* Taking an operation moves one place.
LEMMA Moves ==
  ASSUME Types, Where, NEW s \in Party, Goes(s)
  PROVE  /\ todo' \in [Party -> Seq(Step)] /\ Where'
         /\ Pos(s)' = Pos(s) + 1 /\ Pos(Peer(s))' = Pos(Peer(s))
<1>1. /\ todo[s] \in Seq(Step) /\ todo[s] # <<>> /\ todo' = [todo EXCEPT ![s] = Tail(@)]
      /\ todo \in [Party -> Seq(Step)]
  BY DEF Types, Goes, Advance
<1>2. Tail(todo[s]) \in Seq(Step) /\ Len(Tail(todo[s])) = Len(todo[s]) - 1 /\ Len(todo[s]) \in Nat
  BY <1>1, HeadTailProperties, LenProperties
<1>3. todo' \in [Party -> Seq(Step)] /\ todo'[s] = Tail(todo[s]) /\ todo'[Peer(s)] = todo[Peer(s)]
  BY <1>1, <1>2, PeerIs
<1>4. \A r \in Party : Script(r)' = Script(r) /\ Whole' = Whole
  BY Fixed DEF Goes
<1>5. \A r \in Party : Len(Script(r)) = Whole /\ Script(r) \in Seq(Step) /\ Whole \in Nat
  BY ScriptIs DEF Types
<1>6. Peer(s) \in Party /\ Peer(s)' = Peer(s)
  BY PeerIs DEF Peer
<1>7. Pos(s)' = Pos(s) + 1
  <2>1. Script(s)' = Script(s) /\ Len(Script(s)) \in Nat
    BY <1>4, <1>5
  <2>2. Len(todo'[s]) = Len(todo[s]) - 1 /\ Len(todo[s]) \in Nat
    BY <1>2, <1>3
  <2> QED
    BY <2>1, <2>2 DEF Pos
<1>8. Pos(Peer(s))' = Pos(Peer(s))
  BY <1>3, <1>4, <1>6 DEF Pos
<1>9. Pos(s) \in 0 .. Whole - 1 /\ todo[s] = SubSeq(Script(s), Pos(s) + 1, Whole)
  BY <1>1, Stands DEF Where
<1>10. Pos(s) + 1 \in 1 .. Len(Script(s)) /\ Whole \in Pos(s) + 1 .. Len(Script(s))
  BY <1>5, <1>9
<1>11. Tail(SubSeq(Script(s), Pos(s) + 1, Whole)) = SubSeq(Script(s), Pos(s) + 1 + 1, Whole)
  BY <1>5, <1>10, HeadTailOfSubSeq
<1>12. Pos(s)' \in 0 .. Whole' /\ todo'[s] = SubSeq(Script(s)', Pos(s)' + 1, Whole')
  <2>1. Script(s)' = Script(s) /\ Whole' = Whole
    BY <1>4
  <2>2. Pos(s) + 1 \in 0 .. Whole
    BY <1>5, <1>9
  <2>3. todo'[s] = SubSeq(Script(s), Pos(s) + 1 + 1, Whole)
    BY <1>3, <1>9, <1>11
  <2> QED
    BY <1>7, <2>1, <2>2, <2>3
<1>13. Pos(Peer(s)) \in 0 .. Whole /\ todo[Peer(s)] = SubSeq(Script(Peer(s)), Pos(Peer(s)) + 1, Whole)
  BY <1>6 DEF Where
<1>14. /\ Pos(Peer(s))' \in 0 .. Whole'
       /\ todo'[Peer(s)] = SubSeq(Script(Peer(s))', Pos(Peer(s))' + 1, Whole')
  BY <1>3, <1>4, <1>6, <1>8, <1>13
<1>15. Where'
  BY <1>12, <1>14, PeerIs DEF Where
<1> QED
  BY <1>3, <1>7, <1>8, <1>15

\* Where both are equally far nothing is on its way.
LEMMA Level ==
  ASSUME Types, Where, Link, NEW s \in Party, Pos(Peer(s)) = Pos(s)
  PROVE  chan[s] = <<>> /\ chan[Peer(s)] = <<>>
<1>1. /\ Peer(s) \in Party /\ Peer(Peer(s)) = s /\ Pos(s) \in Nat
      /\ chan[s] \in Seq(Message) /\ chan[Peer(s)] \in Seq(Message)
  BY PeerIs DEF Types, Where
<1>2. Linked(s) /\ Linked(Peer(s))
  BY <1>1 DEF Link
<1> QED
  BY <1>1, <1>2 DEF Linked

\* A process that is to send is not behind.
LEMMA SenderLeads ==
  ASSUME Types, Where, Link, NEW s \in Party, todo[s] # <<>>, At(s).op \in Sends
  PROVE  Pos(Peer(s)) <= Pos(s) /\ Linked(s)
<1> DEFINE t == Peer(s)
<1>1. t \in Party /\ Peer(t) = s /\ Pos(s) \in 0 .. Whole - 1 /\ Pos(t) \in 0 .. Whole /\ Whole \in Nat
  BY PeerIs, Stands, ScriptIs DEF Where, Types
<1>2. At(s) = Script(s)[Pos(s) + 1] /\ Pos(s) + 1 \in 1 .. Whole
  BY <1>1, Stands
<1>3. Script(t)[Pos(s) + 1].op \in Receives
  BY <1>2, Places DEF Types
<1>4. ASSUME Pos(s) < Pos(t) PROVE FALSE
  <2>1. Linked(t)
    BY <1>1, <1>4 DEF Link
  <2>2. Pos(s) + 1 \in Pos(Peer(t)) + 1 .. Pos(t)
    BY <1>1, <1>4
  <2> QED
    BY <1>3, <2>1, <2>2 DEF Linked
<1>5. Pos(t) <= Pos(s)
  BY <1>1, <1>4
<1> QED
  BY <1>5 DEF Link

\* A process for which something is on its way is behind, and what comes first is
\* what its peer sent at the place where it is.
LEMMA ReceiverLags ==
  ASSUME Types, Where, Link, NEW s \in Party, todo[s] # <<>>, At(s).op \in Receives, chan[s] # <<>>
  PROVE  /\ Pos(s) < Pos(Peer(s)) /\ Linked(Peer(s))
         /\ Script(Peer(s))[Pos(s) + 1].op \in Sends
         /\ Head(chan[s]).kind = MessageKind(Script(Peer(s))[Pos(s) + 1])
         /\ Carries(Tail(chan[s]), Script(Peer(s)), Pos(s) + 1, Pos(Peer(s)))
<1> DEFINE t == Peer(s)
<1>1. t \in Party /\ Peer(t) = s /\ Pos(s) \in 0 .. Whole - 1 /\ Pos(t) \in 0 .. Whole /\ Whole \in Nat
  BY PeerIs, Stands, ScriptIs DEF Where, Types
<1>2. At(s) = Script(s)[Pos(s) + 1] /\ Pos(s) + 1 \in 1 .. Whole
  BY <1>1, Stands
<1>3. Script(t)[Pos(s) + 1].op \in Sends
  BY <1>2, Places DEF Types
<1>4. Pos(s) < Pos(t)
  BY <1>1 DEF Link, Linked
<1>5. Linked(t)
  BY <1>1, <1>4 DEF Link
<1>6. Carries(chan[s], Script(t), Pos(s), Pos(t)) /\ chan[s] \in Seq(Message)
  BY <1>1, <1>5 DEF Linked, Types
<1> HIDE DEF t
<1>7. Pos(s) \in Nat /\ Pos(t) \in Nat
  BY <1>1
<1>8. /\ Head(chan[s]).kind = MessageKind(Script(t)[Pos(s) + 1])
      /\ Carries(Tail(chan[s]), Script(t), Pos(s) + 1, Pos(t))
  BY <1>3, <1>4, <1>6, <1>7, CarriesTake
<1> QED
  BY <1>3, <1>4, <1>5, <1>8 DEF t

\* One link, from its parts, after a step.
LEMMA LinkedNext ==
  ASSUME config' = config, NEW s \in Party, NEW c, NEW lo, NEW hi,
         chan'[s] = <<>>, chan'[Peer(s)] = c, Pos(Peer(s))' = lo, Pos(s)' = hi,
         Carries(c, Script(s), lo, hi),
         \A i \in lo + 1 .. hi : Script(s)[i].op \notin Receives
  PROVE  Linked(s)'
<1>1. Script(s)' = Script(s) /\ Peer(s)' = Peer(s)
  BY Fixed DEF Peer
<1>2. Carries(c, Script(s), lo, hi) = Carries(chan'[Peer(s)], Script(s)', Pos(Peer(s))', Pos(s)')
  BY <1>1
<1> QED
  BY <1>1, <1>2 DEF Linked

\* A send keeps the link.
LEMMA LinkSends ==
  ASSUME Types, Where, Link, NEW s \in Party, Goes(s), At(s).op \in Sends, NEW m \in Message,
         m.kind = MessageKind(At(s)), Put(s, m)
  PROVE  Link'
<1> DEFINE t == Peer(s)
<1>1. /\ t \in Party /\ t # s /\ Peer(t) = s /\ Pos(s) \in 0 .. Whole - 1 /\ Pos(t) \in 0 .. Whole
      /\ Whole \in Nat /\ At(s) = Script(s)[Pos(s) + 1] /\ chan[t] \in Seq(Message)
  BY PeerIs, Stands, ScriptIs DEF Where, Types, Goes
<1>2. Pos(s)' = Pos(s) + 1 /\ Pos(t)' = Pos(t)
  BY Moves
<1>3. Pos(t) <= Pos(s) /\ Linked(s)
  BY SenderLeads DEF Goes
<1>4. chan'[t] = Append(chan[t], m) /\ chan'[s] = chan[s]
  BY <1>1 DEF Put, Types
<1>5. At(s).op \notin Receives
  BY DEF Sends, Receives
<1>6. /\ chan[s] = <<>> /\ Carries(chan[t], Script(s), Pos(t), Pos(s))
      /\ \A i \in Pos(t) + 1 .. Pos(s) : Script(s)[i].op \notin Receives
  BY <1>3 DEF Linked
<1>7. Carries(Append(chan[t], m), Script(s), Pos(t), Pos(s) + 1)
  <2> HIDE DEF t
  <2>1. Pos(t) \in Nat /\ Pos(s) \in Nat
    BY <1>1
  <2> QED
    BY <1>1, <1>3, <1>6, <2>1, CarriesSend
<1>8. \A i \in Pos(t) + 1 .. Pos(s) + 1 : Script(s)[i].op \notin Receives
  <2>1. \A i \in Pos(t) + 1 .. Pos(s) + 1 : i = Pos(s) + 1 \/ i \in Pos(t) + 1 .. Pos(s)
    BY <1>1
  <2> QED
    BY <1>1, <1>5, <1>6, <2>1
<1>9. Linked(s)'
  <2>1. config' = config /\ chan'[s] = <<>>
    BY <1>4, <1>6 DEF Goes
  <2> QED
    BY <1>2, <1>4, <1>7, <1>8, <2>1, LinkedNext
<1>10. ~(Pos(s)' <= Pos(t)')
  BY <1>1, <1>2, <1>3
<1>11. \A r \in Party : Peer(r)' = Peer(r) /\ (r = s \/ r = t)
  BY PeerIs DEF Peer
<1> QED
  BY <1>1, <1>9, <1>10, <1>11 DEF Link

\* A receive keeps the link.
LEMMA LinkReceives ==
  ASSUME Types, Where, Link, NEW s \in Party, Goes(s), At(s).op \in Receives, chan[s] # <<>>, Take(s)
  PROVE  Link'
<1> DEFINE t == Peer(s)
<1>1. /\ t \in Party /\ t # s /\ Peer(t) = s /\ Pos(s) \in 0 .. Whole - 1 /\ Pos(t) \in 0 .. Whole
      /\ Whole \in Nat /\ At(s) = Script(s)[Pos(s) + 1]
  BY PeerIs, Stands, ScriptIs DEF Where, Types, Goes
<1>2. Pos(s)' = Pos(s) + 1 /\ Pos(t)' = Pos(t)
  BY Moves
<1>3. /\ Pos(s) < Pos(t) /\ Linked(t)
      /\ Carries(Tail(chan[s]), Script(t), Pos(s) + 1, Pos(t))
  BY ReceiverLags DEF Goes
<1>4. chan'[t] = chan[t] /\ chan'[s] = Tail(chan[s])
  BY <1>1 DEF Take, Types
<1>5. /\ chan[t] = <<>>
      /\ \A i \in Pos(s) + 1 .. Pos(t) : Script(t)[i].op \notin Receives
  BY <1>1, <1>3 DEF Linked
<1>6. \A i \in Pos(s) + 1 + 1 .. Pos(t) : Script(t)[i].op \notin Receives
  BY <1>1, <1>5
<1>7. Linked(t)'
  <2>1. config' = config /\ chan'[t] = <<>> /\ Pos(Peer(t))' = Pos(s) + 1
    BY <1>1, <1>2, <1>4, <1>5 DEF Goes
  <2> HIDE DEF t
  <2> QED
    BY <1>1, <1>2, <1>3, <1>4, <1>6, <2>1, LinkedNext
<1>8. \A r \in Party : Peer(r)' = Peer(r) /\ (r = s \/ r = t)
  BY PeerIs DEF Peer
<1>9. Pos(t)' <= Pos(s)' => Linked(s)'
  <2> SUFFICES ASSUME Pos(t)' <= Pos(s)' PROVE Linked(s)'
    OBVIOUS
  <2>1. Pos(s) + 1 = Pos(t)
    BY <1>1, <1>2, <1>3
  <2>2. Tail(chan[s]) \in Seq(Message)
    BY HeadTailProperties DEF Types
  <2>3. Pos(t) \in Nat /\ Carries(Tail(chan[s]), Script(t), Pos(t), Pos(t))
    BY <1>1, <1>3, <2>1
  <2> HIDE DEF t
  <2>4. Tail(chan[s]) = <<>>
    BY <2>2, <2>3, CarriesNone
  <2>5. Carries(<<>>, Script(s), Pos(t), Pos(t))
    BY <2>3, CarriesEmpty
  <2>6. \A i \in Pos(t) + 1 .. Pos(t) : FALSE
    BY <2>3
  <2>7. /\ config' = config /\ chan'[s] = <<>> /\ chan'[Peer(s)] = <<>>
        /\ Pos(Peer(s))' = Pos(t) /\ Pos(s)' = Pos(t)
    BY <1>2, <1>4, <1>5, <2>1, <2>4 DEF Goes, t
  <2> QED
    BY <2>5, <2>6, <2>7, LinkedNext
<1> QED
  BY <1>1, <1>7, <1>8, <1>9 DEF Link

\* An operation without a message keeps the link.
LEMMA LinkGoes ==
  ASSUME Types, Where, Link, NEW s \in Party, Goes(s), At(s).op \notin Sends \cup Receives,
         UNCHANGED chan
  PROVE  Link'
<1> DEFINE t == Peer(s)
<1>1. /\ t \in Party /\ t # s /\ Peer(t) = s /\ Pos(s) \in 0 .. Whole - 1 /\ Pos(t) \in 0 .. Whole
      /\ Whole \in Nat /\ At(s) = Script(s)[Pos(s) + 1]
      /\ chan[t] \in Seq(Message) /\ chan[s] \in Seq(Message)
  BY PeerIs, Stands, ScriptIs DEF Where, Types, Goes
<1>2. Pos(s)' = Pos(s) + 1 /\ Pos(t)' = Pos(t)
  BY Moves
<1>3. Script(t)[Pos(s) + 1].op \notin Sends
  <2>1. Pos(s) + 1 \in 1 .. Whole
    BY <1>1
  <2> QED
    BY <1>1, <2>1, Places DEF Types
<1>4. \A r \in Party : Peer(r)' = Peer(r) /\ (r = s \/ r = t)
  BY PeerIs DEF Peer
<1>5. config' = config
  BY DEF Goes
<1>6. ASSUME Pos(t)' <= Pos(s)'
      PROVE  Linked(s)'
  <2>1. CASE Pos(t) <= Pos(s)
    <3>1. Linked(s)
      BY <2>1 DEF Link
    <3>2. /\ chan[s] = <<>> /\ Carries(chan[t], Script(s), Pos(t), Pos(s))
          /\ \A i \in Pos(t) + 1 .. Pos(s) : Script(s)[i].op \notin Receives
      BY <3>1 DEF Linked
    <3> HIDE DEF t
    <3>3. Carries(chan[t], Script(s), Pos(t), Pos(s) + 1)
      <4>1. Pos(t) \in Nat /\ Pos(s) \in Nat
        BY <1>1
      <4> QED
        BY <1>1, <3>2, <4>1, CarriesOn
    <3>4. \A i \in Pos(t) + 1 .. Pos(s) + 1 : Script(s)[i].op \notin Receives
      <4>1. \A i \in Pos(t) + 1 .. Pos(s) + 1 : i = Pos(s) + 1 \/ i \in Pos(t) + 1 .. Pos(s)
        BY <1>1
      <4> QED
        BY <1>1, <3>2, <4>1
    <3>5. chan'[s] = <<>> /\ chan'[Peer(s)] = chan[t] /\ Pos(Peer(s))' = Pos(t)
      BY <1>2, <3>2 DEF t
    <3> QED
      BY <1>2, <1>5, <3>3, <3>4, <3>5, LinkedNext
  <2>2. CASE Pos(s) < Pos(t)
    <3>1. Pos(t) = Pos(s) + 1
      BY <1>1, <1>2, <1>6, <2>2
    <3>2. Linked(t)
      BY <1>1, <2>2 DEF Link
    <3>3. chan[t] = <<>> /\ Carries(chan[s], Script(t), Pos(s), Pos(t))
      BY <1>1, <3>2 DEF Linked
    <3> HIDE DEF t
    <3>4. Pos(s) \in Nat /\ Pos(t) \in Nat
      BY <1>1
    <3>5. Carries(chan[s], Script(t), Pos(t), Pos(t))
      <4>1. Carries(chan[s], Script(t), Pos(s) + 1, Pos(t))
        BY <1>1, <1>3, <3>3, <3>4, CarriesPast
      <4> QED
        BY <3>1, <4>1
    <3>6. chan[s] = <<>>
      BY <1>1, <3>4, <3>5, CarriesNone
    <3>7. Carries(<<>>, Script(s), Pos(t), Pos(t))
      BY <3>4, CarriesEmpty
    <3>8. \A i \in Pos(t) + 1 .. Pos(t) : FALSE
      BY <3>4
    <3>9. /\ chan'[s] = <<>> /\ chan'[Peer(s)] = <<>>
          /\ Pos(Peer(s))' = Pos(t) /\ Pos(s)' = Pos(t)
      BY <1>2, <3>1, <3>3, <3>6 DEF t
    <3> QED
      BY <1>5, <3>7, <3>8, <3>9, LinkedNext
  <2> QED
    BY <1>1, <2>1, <2>2
<1>7. ASSUME Pos(s)' <= Pos(t)'
      PROVE  Linked(t)'
  <2>1. Pos(s) < Pos(t) /\ Pos(s) \in Nat /\ Pos(t) \in Nat
    BY <1>1, <1>2, <1>7
  <2>2. Linked(t)
    BY <1>1, <2>1 DEF Link
  <2>3. /\ chan[t] = <<>> /\ Carries(chan[s], Script(t), Pos(s), Pos(t))
        /\ \A i \in Pos(s) + 1 .. Pos(t) : Script(t)[i].op \notin Receives
    BY <1>1, <2>2 DEF Linked
  <2> HIDE DEF t
  <2>4. Carries(chan[s], Script(t), Pos(s) + 1, Pos(t))
    BY <1>1, <1>3, <2>1, <2>3, CarriesPast
  <2>5. \A i \in Pos(s) + 1 + 1 .. Pos(t) : Script(t)[i].op \notin Receives
    BY <2>1, <2>3
  <2>6. /\ chan'[t] = <<>> /\ chan'[Peer(t)] = chan[s]
        /\ Pos(Peer(t))' = Pos(s) + 1 /\ Pos(t)' = Pos(t)
    BY <1>1, <1>2, <1>4, <2>3
  <2> QED
    BY <1>1, <1>5, <2>4, <2>5, <2>6, LinkedNext
<1> QED
  BY <1>1, <1>4, <1>6, <1>7 DEF Link

\* A step without operation keeps the positions and the link.
LEMMA StayStill ==
  ASSUME Types, Where, Link, UNCHANGED <<config, todo, chan>>
  PROVE  Where' /\ Link' /\ \A s \in Party : Pos(s)' = Pos(s)
<1>1. \A s \in Party : Script(s)' = Script(s) /\ Whole' = Whole /\ Peer(s)' = Peer(s) /\ Peer(s) \in Party
  BY Fixed, PeerIs DEF Peer
<1>2. ASSUME NEW s \in Party PROVE Pos(s)' = Pos(s)
  BY <1>1 DEF Pos
<1>3. Where'
  BY <1>1, <1>2 DEF Where
<1>4. ASSUME NEW s \in Party, Pos(Peer(s))' <= Pos(s)'
      PROVE  Linked(s)'
  <2>1. Pos(s)' = Pos(s) /\ Pos(Peer(s))' = Pos(Peer(s)) /\ Script(s)' = Script(s)
    BY <1>1, <1>2
  <2>2. Linked(s)
    BY <1>4, <2>1 DEF Link
  <2>3. Peer(s)' = Peer(s) /\ config' = config
    BY <1>1
  <2>4. /\ chan[s] = <<>> /\ Carries(chan[Peer(s)], Script(s), Pos(Peer(s)), Pos(s))
        /\ \A i \in Pos(Peer(s)) + 1 .. Pos(s) : Script(s)[i].op \notin Receives
    BY <2>2 DEF Linked
  <2> QED
    BY <2>1, <2>3, <2>4, LinkedNext
<1> QED
  BY <1>2, <1>3, <1>4 DEF Link

-----------------------------------------------------------------------------
(* What the servers agree on. *)

\* Of ALICE's verdicts on their way to BOB only the last can be a refusal, and it
\* is one if she has refused.
Verdicts ==
  \A k \in 1 .. Len(chan[BOB]) :
     chan[BOB][k].kind = "verdict" =>
       (chan[BOB][k].ok <=> ~(status[ALICE] = "refused" /\ k = Len(chan[BOB])))

\* ALICE refused where she decides; BOB, if he came there, refused with her, and he
\* refuses nowhere else.
Refusal ==
  /\ status[ALICE] = "refused" =>
       /\ Pos(ALICE) > 0 /\ Script(ALICE)[Pos(ALICE)].op = "decide"
       /\ Pos(ALICE) <= Pos(BOB) => status[BOB] = "refused"
  /\ status[BOB] = "refused" => status[ALICE] = "refused" /\ Pos(ALICE) = Pos(BOB)

\* The summary on its way to ALICE, the summaries of the case that s has or will
\* have without BOB's doing, and what the demand makes of them.
Pending ==
  IF chan[ALICE] # <<>> /\ Head(chan[ALICE]).kind = "summary"
  THEN <<[exact |-> Head(chan[ALICE]).exact, indices |-> Head(chan[ALICE]).indices]>> ELSE <<>>
Known(s) == IF s = ALICE THEN said[ALICE] \o Pending ELSE said[BOB]
Right(q) == config.valid /\ \A i \in 1 .. Len(q) : q[i].indices /\ (q[i].exact \/ config.pilot)

\* No demand among the operations that s is ahead.
SameCase(s) == \A i \in Pos(Peer(s)) + 1 .. Pos(s) : Script(s)[i].op # "demand"

\* Both have the same summaries; and a server that is past a demand found correct
\* what its peer has still to demand.
Agrees(s) ==
  /\ SameCase(s) => Known(s) = Known(Peer(s))
  /\ ~SameCase(s) =>
       Known(s) = <<>> /\ (status[s] = "incorrect" <=> ~Right(Known(Peer(s))))
Agree == \A s \in Party : Pos(Peer(s)) <= Pos(s) => Agrees(s)

\* A server is incorrect at a demand, which its peer does not pass.
Incorrect ==
  \A s \in Party : status[s] = "incorrect" =>
     /\ Pos(s) > 0 /\ Script(s)[Pos(s)].op = "demand"
     /\ Pos(s) <= Pos(Peer(s)) => Pos(Peer(s)) = Pos(s) /\ status[Peer(s)] = "incorrect"

\* Parameters that do not fit: the first demand is the end.
Invalid ==
  ~config.valid => \A s \in Party : Pos(s) = 0 \/ (Pos(s) = 1 /\ status[s] = "incorrect")

\* The shuffles that s began and the summaries it has, from where it is.
CountedAt(s, p) ==
  /\ config.valid =>
       shuffles[s] = (p \div CaseLen) * config.reps + Done(s, "shuffle", p % CaseLen)
  /\ Len(said[s]) = Done(s, Summing(s), p % CaseLen)
Counted == \A s \in Party : CountedAt(s, Pos(s))

\* Where the servers are.
Base == Types /\ Met /\ Where /\ Link

\* Nobody ends as how in this step.
SameEnds(how) == \A r \in Party : status'[r] = how <=> status[r] = how

\* What the servers agree on.
Upper == Verdicts /\ Refusal /\ Agree /\ Incorrect /\ Invalid /\ Counted

\* The positions are numbers.
LEMMA Numbers ==
  ASSUME Types, Where
  PROVE  /\ Whole \in Nat /\ CaseLen \in Nat \ {0} /\ Pos(ALICE) \in 0 .. Whole /\ Pos(BOB) \in 0 .. Whole
         /\ \A s \in Party : Pos(s) \in 0 .. Whole /\ Pos(s) \in Nat
BY ScriptIs, PeerIs DEF Types, Where

\* The place that an operation takes, and where the peer is.
LEMMA MovesTo ==
  ASSUME Types, Where, NEW s \in Party, Goes(s)
  PROVE  /\ Pos(s)' = Pos(s) + 1 /\ Pos(Peer(s))' = Pos(Peer(s))
         /\ Pos(s) + 1 \in 1 .. Whole /\ At(s) = Script(s)[Pos(s) + 1]
         /\ \A r \in Party : r # s => Pos(r)' = Pos(r)
<1>1. Pos(s)' = Pos(s) + 1 /\ Pos(Peer(s))' = Pos(Peer(s))
  BY Moves
<1>2. Pos(s) \in 0 .. Whole - 1 /\ At(s) = Script(s)[Pos(s) + 1] /\ Whole \in Nat
  BY Stands, Numbers DEF Goes
<1>3. Pos(s) + 1 \in 1 .. Whole
  BY <1>2
<1>4. \A r \in Party : r # s => Pos(r)' = Pos(r)
  BY <1>1, PeerIs
<1> QED
  BY <1>1, <1>2, <1>3, <1>4

\* An operation that refuses nothing and obeys nothing keeps the refusals: BOB does
\* not pass the place where ALICE refused.
LEMMA RefusalGoes ==
  ASSUME Types, Where, Refusal, NEW s \in Party, Goes(s), Running(s), SameEnds("refused"),
         At(s).op # "obey"
  PROVE  Refusal'
<1>1. /\ Pos(s)' = Pos(s) + 1 /\ Pos(s) + 1 \in 1 .. Whole /\ At(s) = Script(s)[Pos(s) + 1]
      /\ \A r \in Party : r # s => Pos(r)' = Pos(r)
  BY MovesTo
<1>2. Script(ALICE)' = Script(ALICE) /\ Script(BOB)' = Script(BOB)
  BY Fixed, PeerIs DEF Goes
<1>3. status[s] # "refused" /\ status'[s] # "refused"
  BY DEF Running, SameEnds
<1>4. CASE s = ALICE
  <2>1. status[BOB] # "refused" /\ status'[BOB] # "refused" /\ status'[ALICE] # "refused"
    BY <1>3, <1>4, PeerIs DEF Refusal, SameEnds
  <2> QED
    BY <2>1 DEF Refusal
<1>5. CASE s = BOB
  <2>1. Pos(ALICE)' = Pos(ALICE) /\ status'[BOB] # "refused" /\ status[BOB] # "refused"
    BY <1>1, <1>3, <1>5, PeerIs
  <2>2. ASSUME status'[ALICE] = "refused"
        PROVE  /\ Pos(ALICE) > 0 /\ Script(ALICE)[Pos(ALICE)].op = "decide"
               /\ ~(Pos(ALICE) <= Pos(BOB) + 1)
    <3>1. status[ALICE] = "refused"
      BY <2>2, PeerIs DEF SameEnds
    <3>2. Pos(ALICE) > 0 /\ Script(ALICE)[Pos(ALICE)].op = "decide" /\ ~(Pos(ALICE) <= Pos(BOB))
      BY <2>1, <3>1 DEF Refusal
    <3>3. Script(ALICE)[Pos(BOB) + 1].op # "decide"
      BY <1>1, <1>5, Places, PeerIs DEF Types
    <3>4. Pos(ALICE) # Pos(BOB) + 1
      BY <3>2, <3>3
    <3> QED
      BY <3>2, <3>4, Numbers
  <2> QED
    BY <1>1, <1>2, <1>5, <2>1, <2>2 DEF Refusal
<1> QED
  BY <1>4, <1>5, PeerIs

\* An operation other than a demand keeps what is said of incorrect servers: nobody
\* passes the demand where the peer ended.
LEMMA IncorrectGoes ==
  ASSUME Types, Where, Incorrect, Invalid, NEW s \in Party, Goes(s), Running(s),
         SameEnds("incorrect"), At(s).op # "demand"
  PROVE  Incorrect' /\ Invalid' /\ config.valid
<1> DEFINE t == Peer(s)
<1>1. /\ Pos(s)' = Pos(s) + 1 /\ Pos(s) + 1 \in 1 .. Whole /\ At(s) = Script(s)[Pos(s) + 1]
      /\ Pos(t)' = Pos(t)
  BY MovesTo
<1>2. \A r \in Party : Script(r)' = Script(r) /\ Peer(r)' = Peer(r)
  BY Fixed, PeerIs DEF Goes, Peer
<1>3. status[s] # "incorrect" /\ status'[s] # "incorrect" /\ t \in Party /\ Peer(t) = s
  BY PeerIs DEF Running, SameEnds
<1>4. config.valid
  <2> SUFFICES ASSUME ~config.valid PROVE FALSE
    OBVIOUS
  <2>1. Pos(s) = 0
    BY <1>3 DEF Invalid
  <2>2. CaseLen = 1
    BY CaseIs DEF CaseFacts, CaseLen, Types
  <2>3. Pos(s) % CaseLen = CaseLen - 1 /\ Pos(s) \in 0 .. Whole - 1
    <3>1. 0 % 1 = 0
      BY Z3
    <3> QED
      BY <1>1, <2>1, <2>2, <3>1, Numbers
  <2>4. Script(s)[Pos(s) + 1].op = "demand"
    BY <2>3, NextPlace DEF Types
  <2> QED
    BY <1>1, <2>4
<1>5. ASSUME status[t] = "incorrect"
      PROVE  /\ Pos(t) > 0 /\ Script(t)[Pos(t)].op = "demand" /\ ~(Pos(t) <= Pos(s) + 1)
  <2>1. Pos(t) > 0 /\ Script(t)[Pos(t)].op = "demand" /\ ~(Pos(t) <= Pos(s))
    BY <1>3, <1>5 DEF Incorrect
  <2>2. Script(t)[Pos(s) + 1].op # "demand"
    BY <1>1, Places DEF Types
  <2>3. Pos(t) # Pos(s) + 1
    BY <2>1, <2>2
  <2> QED
    BY <1>3, <2>1, <2>3, Numbers
<1>6. ASSUME NEW r \in Party, status'[r] = "incorrect"
      PROVE  /\ Pos(r)' > 0 /\ Script(r)'[Pos(r)'].op = "demand"
             /\ Pos(r)' <= Pos(Peer(r))' => Pos(Peer(r))' = Pos(r)' /\ status'[Peer(r)] = "incorrect"
  <2>1. r = t /\ status[t] = "incorrect"
    BY <1>3, <1>6, PeerIs DEF SameEnds
  <2>2. Script(r)' = Script(t) /\ Pos(r)' = Pos(t) /\ Pos(Peer(r))' = Pos(s) + 1
    BY <1>1, <1>2, <1>3, <2>1
  <2> QED
    BY <1>5, <2>1, <2>2
<1>7. Incorrect'
  BY <1>2, <1>6 DEF Incorrect
<1>8. config' = config
  BY DEF Goes
<1> QED
  BY <1>4, <1>7, <1>8 DEF Invalid

\* An operation other than a demand that leaves the summaries known keeps the
\* agreement.
LEMMA AgreeGoes ==
  ASSUME Types, Where, Agree, NEW s \in Party, Goes(s), SameEnds("incorrect"), At(s).op # "demand",
         \A r \in Party : Known(r)' = Known(r)
  PROVE  Agree'
<1> DEFINE t == Peer(s)
<1>1. /\ Pos(s)' = Pos(s) + 1 /\ Pos(s) + 1 \in 1 .. Whole /\ At(s) = Script(s)[Pos(s) + 1]
      /\ Pos(t)' = Pos(t)
  BY MovesTo
<1>2. \A r \in Party : Script(r)' = Script(r) /\ Peer(r)' = Peer(r)
  BY Fixed, PeerIs DEF Goes, Peer
<1>3. t \in Party /\ Peer(t) = s /\ Pos(s) \in Nat /\ Pos(t) \in Nat
  BY PeerIs, Numbers
<1>4. Script(s)[Pos(s) + 1].op # "demand" /\ Script(t)[Pos(s) + 1].op # "demand"
  BY <1>1, Places DEF Types
<1>5. \A r \in Party : Known(r)' = Known(r) /\ Right(Known(r))' = Right(Known(r))
                       /\ (status'[r] = "incorrect" <=> status[r] = "incorrect")
  BY DEF Right, Goes, SameEnds
<1>6. /\ SameCase(s)' <=> \A i \in Pos(t) + 1 .. Pos(s) + 1 : Script(s)[i].op # "demand"
      /\ SameCase(t)' <=> \A i \in Pos(s) + 1 + 1 .. Pos(t) : Script(t)[i].op # "demand"
  BY <1>1, <1>2, <1>3 DEF SameCase
<1>7. ASSUME Pos(t)' <= Pos(s)' PROVE Agrees(s)'
  <2>1. CASE Pos(t) <= Pos(s)
    <3>1. SameCase(s) <=> \A i \in Pos(t) + 1 .. Pos(s) : Script(s)[i].op # "demand"
      BY DEF SameCase
    <3>2. \A i \in Pos(t) + 1 .. Pos(s) + 1 : i = Pos(s) + 1 \/ i \in Pos(t) + 1 .. Pos(s)
      BY <1>3
    <3>3. \A i \in Pos(t) + 1 .. Pos(s) : i \in Pos(t) + 1 .. Pos(s) + 1
      BY <1>3
    <3>4. SameCase(s)' <=> SameCase(s)
      BY <1>4, <1>6, <3>1, <3>2, <3>3
    <3>5. Agrees(s)
      BY <2>1 DEF Agree
    <3> QED
      BY <1>2, <1>3, <1>5, <3>4, <3>5 DEF Agrees
  <2>2. CASE Pos(s) < Pos(t)
    <3>1. Pos(t) = Pos(s) + 1
      BY <1>1, <1>3, <1>7, <2>2
    <3>2. Agrees(t)
      BY <1>3, <2>2 DEF Agree
    <3>3. \A i \in Pos(s) + 1 .. Pos(t) : i = Pos(s) + 1
      BY <1>3, <3>1
    <3>4. SameCase(t)
      BY <1>3, <1>4, <3>3 DEF SameCase
    <3>5. Known(t) = Known(s)
      BY <1>3, <3>2, <3>4 DEF Agrees
    <3>6. \A i \in Pos(t) + 1 .. Pos(s) + 1 : FALSE
      BY <1>3, <3>1
    <3>7. SameCase(s)'
      BY <1>6, <3>6
    <3> QED
      BY <1>2, <1>3, <1>5, <3>5, <3>7 DEF Agrees
  <2> QED
    BY <1>3, <2>1, <2>2
<1>8. ASSUME Pos(s)' <= Pos(t)' PROVE Agrees(t)'
  <2>1. Pos(s) < Pos(t)
    BY <1>1, <1>3, <1>8
  <2>2. Agrees(t)
    BY <1>3, <2>1 DEF Agree
  <2>3. SameCase(t) <=> \A i \in Pos(s) + 1 .. Pos(t) : Script(t)[i].op # "demand"
    BY <1>3 DEF SameCase
  <2>4. \A i \in Pos(s) + 1 .. Pos(t) : i = Pos(s) + 1 \/ i \in Pos(s) + 1 + 1 .. Pos(t)
    BY <1>3
  <2>5. \A i \in Pos(s) + 1 + 1 .. Pos(t) : i \in Pos(s) + 1 .. Pos(t)
    BY <1>3
  <2>6. SameCase(t)' <=> SameCase(t)
    BY <1>4, <1>6, <2>3, <2>4, <2>5
  <2> QED
    BY <1>2, <1>3, <1>5, <2>2, <2>6 DEF Agrees
<1>9. \A r \in Party : r = s \/ r = t
  BY PeerIs
<1> QED
  BY <1>2, <1>3, <1>7, <1>8, <1>9 DEF Agree

\* An operation other than a demand is counted.
LEMMA CountGoes ==
  ASSUME Types, Where, Counted, NEW s \in Party, Goes(s), At(s).op # "demand",
         shuffles'[s] = shuffles[s] + (IF At(s).op = "shuffle" THEN 1 ELSE 0),
         Len(said'[s]) = Len(said[s]) + (IF At(s).op = Summing(s) THEN 1 ELSE 0),
         \A r \in Party : r # s => shuffles'[r] = shuffles[r] /\ said'[r] = said[r]
  PROVE  Counted'
<1> DEFINE p == Pos(s)
           c == p % CaseLen
<1>1. /\ p' = p + 1 /\ p + 1 \in 1 .. Whole /\ At(s) = Script(s)[p + 1]
      /\ \A r \in Party : r # s => Pos(r)' = Pos(r)
  BY MovesTo
<1>2. p \in 0 .. Whole - 1
  BY <1>1, Numbers
<1>3. /\ c \in 0 .. CaseLen - 1 /\ At(s) = Case(s)[c + 1] /\ c # CaseLen - 1
      /\ (p + 1) % CaseLen = c + 1 /\ (p + 1) \div CaseLen = p \div CaseLen
  BY <1>1, <1>2, NextPlace DEF Types
<1>4. c \in Nat
  BY <1>3, Numbers
<1>5. ASSUME NEW o
      PROVE  Done(s, o, c + 1) = Done(s, o, c) + (IF At(s).op = o THEN 1 ELSE 0)
  <2>1. /\ Done(s, o, c) \in Nat
        /\ Case(s)[c + 1].op = o => Done(s, o, c + 1) = Done(s, o, c) + 1
        /\ Case(s)[c + 1].op # o => Done(s, o, c + 1) = Done(s, o, c)
    BY <1>4, DoneNext
  <2> QED
    BY <1>3, <2>1
<1>6. /\ config.valid =>
           shuffles[s] = (p \div CaseLen) * config.reps + Done(s, "shuffle", c)
      /\ Len(said[s]) = Done(s, Summing(s), c)
  BY DEF Counted, CountedAt
<1>7. \A r \in Party : Case(r)' = Case(r) /\ CaseLen' = CaseLen /\ config' = config
  BY Fixed DEF Goes
<1>8. \A r \in Party : \A o, k : Done(r, o, k)' = Done(r, o, k)
  BY <1>7 DEF Done
<1>9. CountedAt(s, Pos(s))'
  <2>1. config.valid => shuffles'[s] = ((p + 1) \div CaseLen) * config.reps
                                         + Done(s, "shuffle", (p + 1) % CaseLen)
    <3>1. /\ Done(s, "shuffle", c) \in Nat
          /\ (p \div CaseLen) * config.reps \in Int
      <4>1. p \div CaseLen \in Int /\ config.reps \in Int
        <5>1. p \in Int /\ CaseLen \in Nat \ {0}
          BY Numbers
        <5>2. config.reps \in Int
          BY SessionAssumption DEF Types
        <5> QED
          BY <5>1, <5>2, ModSplit
      <4> QED
        BY <1>4, <4>1, DoneNext
    <3>2. Done(s, "shuffle", c + 1) = Done(s, "shuffle", c) + (IF At(s).op = "shuffle" THEN 1 ELSE 0)
      BY <1>5
    <3> HIDE DEF p, c
    <3> QED
      BY <1>3, <1>6, <3>1, <3>2
  <2>2. Len(said'[s]) = Done(s, Summing(s), (p + 1) % CaseLen)
    <3>1. Done(s, Summing(s), c + 1) = Done(s, Summing(s), c) + (IF At(s).op = Summing(s) THEN 1 ELSE 0)
      BY <1>5
    <3> HIDE DEF p, c
    <3> QED
      BY <1>3, <1>6, <3>1
  <2>3. Summing(s)' = Summing(s)
    BY DEF Summing
  <2> QED
    BY <1>1, <1>7, <1>8, <2>1, <2>2, <2>3 DEF CountedAt
<1>10. ASSUME NEW r \in Party, r # s
       PROVE  CountedAt(r, Pos(r))'
  <2>1. /\ CountedAt(r, Pos(r)) /\ Pos(r)' = Pos(r) /\ shuffles'[r] = shuffles[r]
        /\ said'[r] = said[r] /\ Summing(r)' = Summing(r)
    BY <1>1, <1>10 DEF Counted, Summing
  <2> QED
    BY <1>7, <1>8, <2>1 DEF CountedAt
<1> QED
  BY <1>9, <1>10 DEF Counted

\* If a summary comes first on the way to ALICE, BOB told it where she is.
LEMMA FirstSummary ==
  ASSUME config \in Configs, NEW ch \in Seq(Message), NEW lo \in Nat, NEW hi \in 0 .. Whole,
         Carries(ch, Script(BOB), lo, hi), ch # <<>>, Head(ch).kind = "summary",
         \A i \in lo + 1 .. hi : Script(BOB)[i].op \notin Receives
  PROVE  lo < hi /\ Script(BOB)[lo + 1].op = "tell"
<1>1. hi \in Nat /\ Whole \in Nat
  BY ScriptIs
<1>2. PICK i \in lo + 1 .. hi :
        Script(BOB)[i].op \in Sends /\ Head(ch).kind = MessageKind(Script(BOB)[i])
  BY <1>1, CarriesFirst
<1>3. i \in 1 .. Whole
  BY <1>1
<1>4. Script(BOB)[i].op = "tell"
  <2>1. Script(BOB)[i].op = "send" => Script(BOB)[i].kind # "summary"
    BY <1>3, Places, PeerIs
  <2> QED
    BY <1>2, <2>1 DEF MessageKind, Sends
<1>5. i > 1 /\ Script(BOB)[i - 1].op \in Receives
  BY <1>3, <1>4, After
<1>6. ~(i - 1 \in lo + 1 .. hi)
  BY <1>5
<1>7. i = lo + 1
  BY <1>1, <1>6
<1> QED
  BY <1>1, <1>4, <1>7

\* A summary on its way to ALICE is what she waits for.
LEMMA SummaryIsNext ==
  ASSUME Types, Where, Link, chan[ALICE] # <<>>, Head(chan[ALICE]).kind = "summary"
  PROVE  Pos(ALICE) < Pos(BOB) /\ Script(ALICE)[Pos(ALICE) + 1].op = "hear"
<1>1. Pos(ALICE) \in Nat /\ Pos(BOB) \in 0 .. Whole /\ Whole \in Nat
  BY Numbers, PeerIs
<1>2. Pos(ALICE) < Pos(BOB)
  BY <1>1, PeerIs DEF Link, Linked
<1>3. Linked(BOB) /\ chan[ALICE] \in Seq(Message)
  BY <1>1, <1>2, PeerIs DEF Link, Types
<1>4. /\ Carries(chan[ALICE], Script(BOB), Pos(ALICE), Pos(BOB))
      /\ \A i \in Pos(ALICE) + 1 .. Pos(BOB) : Script(BOB)[i].op \notin Receives
  BY <1>3, PeerIs DEF Linked
<1>5. Script(BOB)[Pos(ALICE) + 1].op = "tell"
  BY <1>1, <1>3, <1>4, FirstSummary DEF Types
<1>6. Pos(ALICE) + 1 \in 1 .. Whole
  BY <1>1, <1>2
<1> QED
  BY <1>2, <1>5, <1>6, Places, PeerIs DEF Types

\* Nothing behind what ALICE takes is a summary.
LEMMA NoneBehind ==
  ASSUME Types, Where, Link, todo[ALICE] # <<>>, At(ALICE).op \in Receives, chan[ALICE] # <<>>
  PROVE  Tail(chan[ALICE]) = <<>> \/ Head(Tail(chan[ALICE])).kind # "summary"
<1> SUFFICES ASSUME Tail(chan[ALICE]) # <<>>, Head(Tail(chan[ALICE])).kind = "summary"
             PROVE  FALSE
  OBVIOUS
<1>1. /\ Pos(ALICE) < Pos(BOB) /\ Linked(BOB)
      /\ Carries(Tail(chan[ALICE]), Script(BOB), Pos(ALICE) + 1, Pos(BOB))
  BY ReceiverLags, PeerIs
<1>2. \A i \in Pos(ALICE) + 1 .. Pos(BOB) : Script(BOB)[i].op \notin Receives
  BY <1>1, PeerIs DEF Linked
<1>3. Pos(ALICE) \in Nat /\ Pos(BOB) \in 0 .. Whole /\ Whole \in Nat
  BY Numbers, PeerIs
<1>4. Tail(chan[ALICE]) \in Seq(Message)
  BY HeadTailProperties, PeerIs DEF Types
<1>5. \A i \in Pos(ALICE) + 1 + 1 .. Pos(BOB) : Script(BOB)[i].op \notin Receives
  BY <1>2, <1>3
<1>6. Pos(ALICE) + 1 \in Nat
  BY <1>3
<1>7. Pos(ALICE) + 1 < Pos(BOB) /\ Script(BOB)[Pos(ALICE) + 1 + 1].op = "tell"
  BY <1>1, <1>3, <1>4, <1>5, <1>6, FirstSummary DEF Types
<1>8. Pos(ALICE) + 1 + 1 \in 1 .. Whole /\ (Pos(ALICE) + 1 + 1) - 1 = Pos(ALICE) + 1
  BY <1>3, <1>7
<1>9. Script(BOB)[Pos(ALICE) + 1].op \in Receives
  BY <1>7, <1>8, After DEF Types
<1>10. Pos(ALICE) + 1 \in Pos(ALICE) + 1 .. Pos(BOB)
  BY <1>1, <1>3
<1> QED
  BY <1>2, <1>9, <1>10

\* The verdicts, if nothing is sent to BOB.
LEMMA VerdictsStay ==
  ASSUME Verdicts, chan'[BOB] = chan[BOB], SameEnds("refused")
  PROVE  Verdicts'
BY PeerIs DEF Verdicts, SameEnds

\* The verdicts, when BOB takes a message.
LEMMA VerdictsTaken ==
  ASSUME Types, Verdicts, chan[BOB] # <<>>, Take(BOB),
         status'[ALICE] = "refused" <=> status[ALICE] = "refused"
  PROVE  Verdicts'
<1> DEFINE n == Len(chan[BOB])
           d == Tail(chan[BOB])
<1>1. chan[BOB] \in Seq(Message) /\ n \in Nat /\ chan'[BOB] = d
  BY PeerIs, LenProperties DEF Types, Take
<1>2. Len(d) = n - 1 /\ \A k \in 1 .. n - 1 : d[k] = chan[BOB][k + 1]
  BY <1>1, HeadTailProperties
<1> HIDE DEF n, d
<1>4. ASSUME NEW k \in 1 .. Len(d), d[k].kind = "verdict"
      PROVE  d[k].ok <=> ~(status'[ALICE] = "refused" /\ k = Len(d))
  <2>1. k + 1 \in 1 .. n /\ d[k] = chan[BOB][k + 1] /\ (k + 1 = n <=> k = Len(d))
    BY <1>1, <1>2
  <2> QED
    BY <1>4, <2>1 DEF Verdicts, n
<1> QED
  BY <1>1, <1>4 DEF Verdicts

\* The verdicts, when ALICE sends a message.
LEMMA VerdictsPut ==
  ASSUME Types, Verdicts, Running(ALICE), NEW m \in Message, Put(ALICE, m),
         m.kind = "verdict" => (m.ok <=> status'[ALICE] # "refused"),
         m.kind # "verdict" => status'[ALICE] # "refused"
  PROVE  Verdicts'
<1> DEFINE n == Len(chan[BOB])
           d == Append(chan[BOB], m)
<1>1. chan[BOB] \in Seq(Message) /\ n \in Nat /\ chan'[BOB] = d
  BY PeerIs, LenProperties DEF Types, Put
<1>2. Len(d) = n + 1 /\ d[n + 1] = m /\ \A k \in 1 .. n : d[k] = chan[BOB][k]
  BY <1>1, AppendProperties
<1>3. \A k \in 1 .. n : chan[BOB][k].kind = "verdict" => chan[BOB][k].ok
  BY DEF Verdicts, Running
<1> HIDE DEF n, d
<1>4. ASSUME NEW k \in 1 .. Len(d), d[k].kind = "verdict"
      PROVE  d[k].ok <=> ~(status'[ALICE] = "refused" /\ k = Len(d))
  <2>1. CASE k = n + 1
    BY <1>2, <1>4, <2>1
  <2>2. CASE k # n + 1
    <3>1. k \in 1 .. n /\ k # Len(d)
      BY <1>1, <1>2, <2>2
    <3> QED
      BY <1>2, <1>3, <1>4, <3>1
  <2> QED
    BY <2>1, <2>2
<1> QED
  BY <1>1, <1>4 DEF Verdicts

\* A message other than a summary does not change what is on its way of summaries.
LEMMA PendingPut ==
  ASSUME Types, NEW m \in Message, m.kind # "summary", Put(BOB, m)
  PROVE  Pending' = Pending
<1>1. chan'[ALICE] = Append(chan[ALICE], m) /\ chan[ALICE] \in Seq(Message)
  BY PeerIs DEF Put, Types
<1>2. /\ Append(chan[ALICE], m) # <<>>
      /\ Head(Append(chan[ALICE], m)) = IF chan[ALICE] = <<>> THEN m ELSE Head(chan[ALICE])
  BY <1>1, AppendProperties, HeadTailAppend
<1> QED
  BY <1>1, <1>2 DEF Pending

\* What does not touch the scripts, the messages and the results, and refuses
\* nothing, keeps what is said of them.
LEMMA Still ==
  ASSUME Base, Upper, UNCHANGED <<config, todo, chan, said, shuffles>>,
         SameEnds("refused"), SameEnds("incorrect")
  PROVE  Upper'
<1>1. /\ \A s \in Party : Pos(s)' = Pos(s) /\ Peer(s)' = Peer(s) /\ Peer(s) \in Party
      /\ \A s \in Party : Script(s)' = Script(s) /\ Case(s)' = Case(s) /\ CaseLen' = CaseLen
      /\ ALICE \in Party /\ BOB \in Party
  BY StayStill, Fixed, PeerIs DEF Base, Peer
<1>2. Verdicts'
  BY VerdictsStay DEF Upper
<1>3. Refusal'
  BY <1>1 DEF Upper, Refusal, SameEnds
<1>4. Incorrect'
  <2> SUFFICES ASSUME NEW s \in Party, status'[s] = "incorrect"
               PROVE  /\ Pos(s)' > 0 /\ Script(s)'[Pos(s)'].op = "demand"
                      /\ Pos(s)' <= Pos(Peer(s))' =>
                           Pos(Peer(s))' = Pos(s)' /\ status'[Peer(s)] = "incorrect"
    BY <1>1 DEF Incorrect
  <2>1. /\ Pos(s)' = Pos(s) /\ Pos(Peer(s))' = Pos(Peer(s)) /\ Script(s)' = Script(s)
        /\ status[s] = "incorrect" /\ (status'[Peer(s)] = "incorrect" <=> status[Peer(s)] = "incorrect")
    BY <1>1 DEF SameEnds
  <2> QED
    BY <2>1 DEF Upper, Incorrect
<1>5. Invalid'
  BY <1>1 DEF Upper, Invalid, SameEnds
<1>6. Agree'
  <2>1. \A r \in Party : Known(r)' = Known(r) /\ Right(Known(r))' = Right(Known(r))
    BY DEF Known, Pending, Right
  <2>2. \A r \in Party : SameCase(r)' = SameCase(r)
    <3> SUFFICES ASSUME NEW r \in Party PROVE SameCase(r)' = SameCase(r)
      OBVIOUS
    <3>1. Pos(r)' = Pos(r) /\ Pos(Peer(r))' = Pos(Peer(r)) /\ Script(r)' = Script(r)
      BY <1>1
    <3> QED
      BY <3>1 DEF SameCase
  <2> SUFFICES ASSUME NEW s \in Party, Pos(Peer(s))' <= Pos(s)'
               PROVE  Agrees(s)'
    BY <1>1 DEF Agree
  <2>3. Pos(s)' = Pos(s) /\ Pos(Peer(s))' = Pos(Peer(s)) /\ Peer(s) \in Party
    BY <1>1
  <2>4. Agrees(s)
    BY <2>3 DEF Upper, Agree
  <2> QED
    BY <2>1, <2>2, <2>3, <2>4 DEF Agrees, SameEnds
<1>7. Counted'
  <2> SUFFICES ASSUME NEW s \in Party PROVE CountedAt(s, Pos(s))'
    BY DEF Counted
  <2>1. Pos(s)' = Pos(s) /\ CaseLen' = CaseLen /\ Case(s)' = Case(s) /\ Summing(s)' = Summing(s)
    BY <1>1 DEF Summing
  <2>2. \A o, k : Done(s, o, k)' = Done(s, o, k)
    BY <2>1 DEF Done
  <2> QED
    BY <2>1, <2>2 DEF Upper, Counted, CountedAt
<1> QED
  BY <1>2, <1>3, <1>4, <1>5, <1>6, <1>7 DEF Upper

-----------------------------------------------------------------------------
(* Every step keeps it. *)

\* A message sent.
LEMMA PutType ==
  ASSUME Types, NEW s \in Party, NEW m \in Message, Put(s, m)
  PROVE  /\ chan' \in [Party -> Seq(Message)]
         /\ chan'[Peer(s)] = Append(chan[Peer(s)], m) /\ chan'[s] = chan[s]
<1>1. chan \in [Party -> Seq(Message)] /\ Peer(s) \in Party /\ Peer(s) # s
  BY PeerIs DEF Types
<1>2. Append(chan[Peer(s)], m) \in Seq(Message)
  BY <1>1, AppendProperties
<1> QED
  BY <1>1, <1>2 DEF Put

\* A message taken.
LEMMA TakeType ==
  ASSUME Types, NEW s \in Party, chan[s] # <<>>, Take(s)
  PROVE  /\ chan' \in [Party -> Seq(Message)]
         /\ chan'[s] = Tail(chan[s]) /\ \A r \in Party : r # s => chan'[r] = chan[r]
         /\ Head(chan[s]) \in Message
<1>1. chan \in [Party -> Seq(Message)]
  BY DEF Types
<1>2. Tail(chan[s]) \in Seq(Message) /\ Head(chan[s]) \in Message
  BY <1>1, HeadTailProperties
<1> QED
  BY <1>1, <1>2 DEF Take

\* A process that sends.
LEMMA BaseSends ==
  ASSUME Base, NEW s \in Party, Goes(s), At(s).op \in Sends, NEW m \in Message,
         m.kind = MessageKind(At(s)), Put(s, m), status' \in [Party -> Statuses],
         said' \in [Party -> Seq(Summaries)], out' \in [Party -> 0 .. Capacity],
         UNCHANGED <<connected, shuffles, driver, outcome>>
  PROVE  Base'
<1>1. Link'
  BY LinkSends DEF Base
<1>2. todo' \in [Party -> Seq(Step)] /\ Where'
  BY Moves DEF Base
<1>3. chan' \in [Party -> Seq(Message)]
  BY PutType DEF Base
<1>4. Types' /\ Met'
  BY <1>2, <1>3 DEF Base, Types, Met, Goes
<1> QED
  BY <1>1, <1>2, <1>4 DEF Base

\* A process that receives.
LEMMA BaseReceives ==
  ASSUME Base, NEW s \in Party, Goes(s), At(s).op \in Receives, chan[s] # <<>>, Take(s),
         status' \in [Party -> Statuses],
         said' \in [Party -> Seq(Summaries)],
         UNCHANGED <<connected, out, shuffles, driver, outcome>>
  PROVE  Base'
<1>1. Link'
  BY LinkReceives DEF Base
<1>2. todo' \in [Party -> Seq(Step)] /\ Where'
  BY Moves DEF Base
<1>3. chan' \in [Party -> Seq(Message)]
  BY TakeType DEF Base
<1>4. Types' /\ Met'
  BY <1>2, <1>3 DEF Base, Types, Met, Goes
<1> QED
  BY <1>1, <1>2, <1>4 DEF Base

\* A process that neither sends nor receives.
LEMMA BaseGoes ==
  ASSUME Base, NEW s \in Party, Goes(s), At(s).op \notin Sends \cup Receives, UNCHANGED chan,
         status' \in [Party -> Statuses], out' \in [Party -> 0 .. Capacity],
         shuffles' \in [Party -> Nat], said' \in [Party -> Seq(Summaries)],
         UNCHANGED <<connected, driver, outcome>>
  PROVE  Base'
<1>1. Link'
  BY LinkGoes DEF Base
<1>2. todo' \in [Party -> Seq(Step)] /\ Where'
  BY Moves DEF Base
<1>3. Types' /\ Met'
  BY <1>2 DEF Base, Types, Met, Goes
<1> QED
  BY <1>1, <1>2, <1>3 DEF Base

\* What a process is at, by name.
LEMMA IsAt ==
  ASSUME Base, NEW s \in Party, NEW o, Is(s, o), Advance(s), config' = config
  PROVE  /\ Goes(s) /\ Running(s) /\ At(s).op = o /\ At(s) = Script(s)[Pos(s) + 1]
         /\ Pos(s) + 1 \in 1 .. Whole /\ Pos(s)' = Pos(s) + 1
         /\ \A r \in Party : r # s => Pos(r)' = Pos(r)
<1>1. Goes(s) /\ Running(s) /\ At(s).op = o
  BY DEF Is, Goes
<1> QED
  BY <1>1, MovesTo DEF Base

\* A send.
LEMMA SendKeeps ==
  ASSUME Base, Upper, NEW s \in Party, Send(s)
  PROVE  Base' /\ Upper'
<1> DEFINE m == [kind |-> At(s).kind, ok |-> TRUE]
<1>1. /\ Is(s, "send") /\ Advance(s) /\ Put(s, m)
      /\ UNCHANGED <<config, connected, status, out, shuffles, said, driver, outcome>>
  BY DEF Send
<1>2. /\ Goes(s) /\ Running(s) /\ At(s).op = "send" /\ At(s) = Script(s)[Pos(s) + 1]
      /\ Pos(s) + 1 \in 1 .. Whole
  BY <1>1, IsAt
<1>3. At(s).kind \in Kinds /\ At(s).kind \notin {"verdict", "summary"}
  BY <1>2, Places DEF Base, Types
<1>4. m \in Message /\ m.kind = MessageKind(At(s)) /\ m.kind \notin {"verdict", "summary"}
  BY <1>2, <1>3 DEF Message, MessageKind
<1> HIDE DEF m
<1>5. Base'
  <2>1. status' \in [Party -> Statuses] /\ said' \in [Party -> Seq(Summaries)]
    BY <1>1 DEF Base, Types
  <2>2. out' \in [Party -> 0 .. Capacity]
    BY <1>1 DEF Base, Types
  <2> QED
    BY <1>1, <1>2, <1>4, <2>1, <2>2, BaseSends DEF Sends
<1>6. SameEnds("refused") /\ SameEnds("incorrect")
  BY <1>1 DEF SameEnds
<1>7. Refusal'
  BY <1>2, <1>6, RefusalGoes DEF Base, Upper
<1>8. Incorrect' /\ Invalid'
  BY <1>2, <1>6, IncorrectGoes DEF Base, Upper
<1>9. Counted'
  <2>1. At(s).op # "shuffle" /\ At(s).op # Summing(s) /\ At(s).op # "demand"
    BY <1>2 DEF Summing
  <2>2. \A r \in Party : shuffles'[r] = shuffles[r] /\ said'[r] = said[r]
    BY <1>1
  <2>3. shuffles[s] \in Nat /\ Len(said[s]) \in Nat
    BY LenProperties DEF Base, Types
  <2>4. /\ shuffles'[s] = shuffles[s] + (IF At(s).op = "shuffle" THEN 1 ELSE 0)
        /\ Len(said'[s]) = Len(said[s]) + (IF At(s).op = Summing(s) THEN 1 ELSE 0)
    BY <2>1, <2>2, <2>3
  <2> QED
    BY <1>2, <2>1, <2>2, <2>4, CountGoes DEF Base, Upper
<1>10. CASE s = ALICE
  <2>1. Verdicts'
    <3>1. status'[ALICE] # "refused"
      BY <1>1, <1>2, <1>10 DEF Running
    <3> QED
      BY <1>1, <1>2, <1>4, <1>10, <3>1, VerdictsPut DEF Base, Upper
  <2>2. \A r \in Party : Known(r)' = Known(r)
    <3>1. chan'[ALICE] = chan[ALICE]
      BY <1>1, <1>4, <1>10, PutType, PeerIs DEF Base
    <3> QED
      BY <1>1, <3>1 DEF Known, Pending
  <2>3. Agree'
    BY <1>2, <1>6, <2>2, AgreeGoes DEF Base, Upper
  <2> QED
    BY <1>5, <1>7, <1>8, <1>9, <2>1, <2>3 DEF Upper
<1>11. CASE s = BOB
  <2>1. Verdicts'
    <3>1. chan'[BOB] = chan[BOB]
      BY <1>1, <1>4, <1>11, PutType, PeerIs DEF Base
    <3> QED
      BY <1>6, <3>1, VerdictsStay DEF Upper
  <2>2. \A r \in Party : Known(r)' = Known(r)
    <3>1. Pending' = Pending
      BY <1>1, <1>4, <1>11, PendingPut DEF Base
    <3> QED
      BY <1>1, <3>1 DEF Known
  <2>3. Agree'
    BY <1>2, <1>6, <2>2, AgreeGoes DEF Base, Upper
  <2> QED
    BY <1>5, <1>7, <1>8, <1>9, <2>1, <2>3 DEF Upper
<1> QED
  BY <1>10, <1>11, PeerIs

\* A receive.
LEMMA ReceiveKeeps ==
  ASSUME Base, Upper, NEW s \in Party, Receive(s)
  PROVE  Base' /\ Upper'
<1>1. /\ Is(s, "receive") /\ chan[s] # <<>> /\ Advance(s) /\ Take(s)
      /\ UNCHANGED <<config, connected, status, out, shuffles, said, driver, outcome>>
  BY DEF Receive
<1>2. /\ Goes(s) /\ Running(s) /\ At(s).op = "receive" /\ At(s) = Script(s)[Pos(s) + 1]
      /\ Pos(s) + 1 \in 1 .. Whole /\ todo[s] # <<>>
  BY <1>1, IsAt DEF Goes
<1>3. /\ chan'[s] = Tail(chan[s]) /\ \A r \in Party : r # s => chan'[r] = chan[r]
  BY <1>1, TakeType DEF Base
<1>4. Base'
  <2>1. status' \in [Party -> Statuses] /\ said' \in [Party -> Seq(Summaries)]
    BY <1>1 DEF Base, Types
  <2> QED
    BY <1>1, <1>2, <2>1, BaseReceives DEF Receives
<1>5. SameEnds("refused") /\ SameEnds("incorrect")
  BY <1>1 DEF SameEnds
<1>6. Refusal'
  BY <1>2, <1>5, RefusalGoes DEF Base, Upper
<1>7. Incorrect' /\ Invalid'
  BY <1>2, <1>5, IncorrectGoes DEF Base, Upper
<1>8. Counted'
  <2>1. At(s).op # "shuffle" /\ At(s).op # Summing(s) /\ At(s).op # "demand"
    BY <1>2 DEF Summing
  <2>2. \A r \in Party : shuffles'[r] = shuffles[r] /\ said'[r] = said[r]
    BY <1>1
  <2>3. shuffles[s] \in Nat /\ Len(said[s]) \in Nat
    BY LenProperties DEF Base, Types
  <2>4. /\ shuffles'[s] = shuffles[s] + (IF At(s).op = "shuffle" THEN 1 ELSE 0)
        /\ Len(said'[s]) = Len(said[s]) + (IF At(s).op = Summing(s) THEN 1 ELSE 0)
    BY <2>1, <2>2, <2>3
  <2> QED
    BY <1>2, <2>1, <2>2, <2>4, CountGoes DEF Base, Upper
<1>9. Verdicts'
  <2>1. CASE s = BOB
    BY <1>1, <2>1, VerdictsTaken DEF Base, Upper
  <2>2. CASE s = ALICE
    BY <1>3, <1>5, <2>2, VerdictsStay, PeerIs DEF Upper
  <2> QED
    BY <2>1, <2>2, PeerIs
<1>10. Pending' = Pending
  <2>1. CASE s = BOB
    BY <1>3, <2>1, PeerIs DEF Pending
  <2>2. CASE s = ALICE
    <3>1. Head(chan[s]).kind = MessageKind(Script(Peer(s))[Pos(s) + 1])
      BY <1>1, <1>2, ReceiverLags DEF Base, Receives
    <3>2. Head(chan[s]).kind \in Kinds
      BY <1>2, <3>1, Places DEF Base, Types
    <3>3. Head(chan[ALICE]).kind # "summary"
      BY <2>2, <3>2 DEF Kinds
    <3>4. Tail(chan[ALICE]) = <<>> \/ Head(Tail(chan[ALICE])).kind # "summary"
      BY <1>1, <1>2, <2>2, NoneBehind DEF Base, Receives
    <3> QED
      BY <1>3, <2>2, <3>3, <3>4 DEF Pending
  <2> QED
    BY <2>1, <2>2, PeerIs
<1>11. Agree'
  <2>1. \A r \in Party : Known(r)' = Known(r)
    BY <1>1, <1>10 DEF Known
  <2> QED
    BY <1>2, <1>5, <2>1, AgreeGoes DEF Base, Upper
<1> QED
  BY <1>4, <1>6, <1>7, <1>8, <1>9, <1>11 DEF Upper

\* A step that only the process itself sees.
LEMMA AloneKeeps ==
  ASSUME Base, Upper, NEW s \in Party, BeginShuffle(s) \/ PrintLine(s)
  PROVE  Base' /\ Upper'
<1>1. /\ Is(s, "shuffle") \/ Is(s, "print")
      /\ Advance(s) /\ UNCHANGED <<config, connected, chan, status, said, driver, outcome>>
  BY DEF BeginShuffle, PrintLine
<1>2. /\ Goes(s) /\ Running(s) /\ At(s).op \in {"shuffle", "print"}
  BY <1>1, IsAt
<1>3. /\ shuffles'[s] = shuffles[s] + (IF At(s).op = "shuffle" THEN 1 ELSE 0)
      /\ \A r \in Party : r # s => shuffles'[r] = shuffles[r]
      /\ shuffles' \in [Party -> Nat] /\ out' \in [Party -> 0 .. Capacity]
  <2>1. shuffles \in [Party -> Nat] /\ out \in [Party -> 0 .. Capacity] /\ Capacity \in Nat
    BY SessionAssumption DEF Base, Types
  <2>2. CASE BeginShuffle(s)
    <3>1. At(s).op = "shuffle" /\ shuffles' = [shuffles EXCEPT ![s] = @ + 1] /\ out' = out
      BY <2>2 DEF BeginShuffle, Is
    <3> QED
      BY <2>1, <3>1
  <2>3. CASE PrintLine(s)
    <3>1. /\ At(s).op = "print" /\ out' = [out EXCEPT ![s] = @ + Lines(s, At(s).kind)]
          /\ out[s] + Lines(s, At(s).kind) <= Capacity /\ shuffles' = shuffles
      BY <2>3 DEF PrintLine, PipeTakes, Is
    <3>2. Lines(s, At(s).kind) \in Nat
      BY SessionAssumption DEF Base, Types, Lines
    <3> HIDE DEF Lines
    <3>3. out[s] + Lines(s, At(s).kind) \in 0 .. Capacity
      BY <2>1, <3>1, <3>2
    <3> QED
      BY <2>1, <3>1, <3>3
  <2> QED
    BY <2>2, <2>3
<1>4. Base'
  <2>1. status' \in [Party -> Statuses] /\ said' \in [Party -> Seq(Summaries)]
    BY <1>1 DEF Base, Types
  <2> QED
    BY <1>1, <1>2, <1>3, <2>1, BaseGoes DEF Sends, Receives
<1>5. SameEnds("refused") /\ SameEnds("incorrect")
  BY <1>1 DEF SameEnds
<1>6. Refusal'
  BY <1>2, <1>5, RefusalGoes DEF Base, Upper
<1>7. Incorrect' /\ Invalid'
  BY <1>2, <1>5, IncorrectGoes DEF Base, Upper
<1>8. Counted'
  <2>1. At(s).op # Summing(s) /\ At(s).op # "demand"
    BY <1>2 DEF Summing
  <2>2. Len(said[s]) \in Nat
    BY LenProperties DEF Base, Types
  <2>3. Len(said'[s]) = Len(said[s]) + (IF At(s).op = Summing(s) THEN 1 ELSE 0)
    BY <1>1, <2>1, <2>2
  <2>4. \A r \in Party : r # s => shuffles'[r] = shuffles[r] /\ said'[r] = said[r]
    BY <1>1, <1>3
  <2> QED
    BY <1>2, <1>3, <2>1, <2>3, <2>4, CountGoes DEF Base, Upper
<1>9. Verdicts'
  BY <1>1, <1>5, VerdictsStay DEF Upper
<1>10. Agree'
  <2>1. \A r \in Party : Known(r)' = Known(r)
    BY <1>1 DEF Known, Pending
  <2> QED
    BY <1>2, <1>5, <2>1, AgreeGoes DEF Base, Upper
<1> QED
  BY <1>4, <1>6, <1>7, <1>8, <1>9, <1>10 DEF Upper

\* ALICE's verdict.
LEMMA DecideKeeps ==
  ASSUME Base, Upper, NEW ok \in BOOLEAN, Decide(ok)
  PROVE  Base' /\ Upper'
<1> DEFINE m == [kind |-> "verdict", ok |-> ok]
<1>1. /\ Is(ALICE, "decide") /\ Advance(ALICE) /\ Put(ALICE, m)
      /\ IF ok THEN status' = status ELSE End(ALICE, "refused")
      /\ UNCHANGED <<config, connected, out, shuffles, said, driver, outcome>>
  BY DEF Decide
<1>2. /\ Goes(ALICE) /\ Running(ALICE) /\ At(ALICE).op = "decide" /\ At(ALICE) = Script(ALICE)[Pos(ALICE) + 1]
      /\ Pos(ALICE) + 1 \in 1 .. Whole /\ Pos(ALICE)' = Pos(ALICE) + 1 /\ Pos(BOB)' = Pos(BOB)
      /\ todo[ALICE] # <<>> /\ ALICE \in Party /\ BOB \in Party /\ ALICE # BOB
  BY <1>1, IsAt, PeerIs DEF Goes
<1>3. m \in Message /\ m.kind = MessageKind(At(ALICE)) /\ m.kind = "verdict" /\ m.ok = ok
  BY <1>2 DEF Message, MessageKind
<1> HIDE DEF m
<1>4. /\ status[ALICE] = "running" /\ status'[BOB] = status[BOB]
      /\ status'[ALICE] = (IF ok THEN "running" ELSE "refused") /\ status' \in [Party -> Statuses]
  BY <1>1, <1>2 DEF End, Running, Base, Types, Statuses
<1>5. Base'
  <2>1. said' \in [Party -> Seq(Summaries)]
    BY <1>1 DEF Base, Types
  <2>2. out' \in [Party -> 0 .. Capacity]
    BY <1>1 DEF Base, Types
  <2> QED
    BY <1>1, <1>2, <1>3, <1>4, <2>1, <2>2, BaseSends DEF Sends
<1>6. SameEnds("incorrect")
  BY <1>4, PeerIs DEF SameEnds
<1>7. Refusal'
  <2>1. CASE ok
    <3>1. SameEnds("refused")
      BY <1>4, <2>1, PeerIs DEF SameEnds
    <3> QED
      BY <1>2, <3>1, RefusalGoes DEF Base, Upper
  <2>2. CASE ~ok
    <3>1. Pos(BOB) <= Pos(ALICE)
      BY <1>2, SenderLeads, PeerIs DEF Base, Sends
    <3>2. status'[BOB] # "refused"
      BY <1>4 DEF Upper, Refusal
    <3>3. Pos(ALICE)' > 0 /\ ~(Pos(ALICE)' <= Pos(BOB)')
      BY <1>2, <3>1, Numbers DEF Base
    <3>4. Script(ALICE)'[Pos(ALICE)'].op = "decide"
      <4>1. Script(ALICE)' = Script(ALICE)
        BY <1>1, <1>2, Fixed
      <4> QED
        BY <1>2, <4>1
    <3> QED
      BY <3>2, <3>3, <3>4 DEF Refusal
  <2> QED
    BY <2>1, <2>2
<1>8. Incorrect' /\ Invalid'
  BY <1>2, <1>6, IncorrectGoes DEF Base, Upper
<1>9. Counted'
  <2>1. At(ALICE).op # "shuffle" /\ At(ALICE).op # Summing(ALICE) /\ At(ALICE).op # "demand"
    BY <1>2 DEF Summing
  <2>2. \A r \in Party : shuffles'[r] = shuffles[r] /\ said'[r] = said[r]
    BY <1>1
  <2>3. shuffles[ALICE] \in Nat /\ Len(said[ALICE]) \in Nat
    BY <1>2, LenProperties DEF Base, Types
  <2>4. /\ shuffles'[ALICE] = shuffles[ALICE] + (IF At(ALICE).op = "shuffle" THEN 1 ELSE 0)
        /\ Len(said'[ALICE]) = Len(said[ALICE]) + (IF At(ALICE).op = Summing(ALICE) THEN 1 ELSE 0)
    BY <1>2, <2>1, <2>2, <2>3
  <2> QED
    BY <1>2, <2>1, <2>2, <2>4, CountGoes DEF Base, Upper
<1>10. Verdicts'
  BY <1>1, <1>2, <1>3, <1>4, VerdictsPut DEF Base, Upper
<1>11. Agree'
  <2>1. chan'[ALICE] = chan[ALICE]
    BY <1>1, <1>2, <1>3, PutType DEF Base
  <2>2. \A r \in Party : Known(r)' = Known(r)
    BY <1>1, <2>1 DEF Known, Pending
  <2> QED
    BY <1>2, <1>6, <2>2, AgreeGoes DEF Base, Upper
<1> QED
  BY <1>5, <1>7, <1>8, <1>9, <1>10, <1>11 DEF Upper

\* BOB at the verdict: what he takes is a verdict, and it is a refusal exactly if
\* ALICE refused there.
LEMMA ObeyTakes ==
  ASSUME Base, Verdicts, Refusal, todo[BOB] # <<>>, At(BOB).op = "obey", chan[BOB] # <<>>
  PROVE  /\ Pos(BOB) < Pos(ALICE)
         /\ Head(chan[BOB]).ok <=> ~(status[ALICE] = "refused" /\ Pos(ALICE) = Pos(BOB) + 1)
<1> DEFINE c == chan[BOB]
           lo == Pos(BOB)
           hi == Pos(ALICE)
           x == Script(ALICE)
<1>1. /\ ALICE \in Party /\ BOB \in Party /\ Peer(BOB) = ALICE /\ Peer(ALICE) = BOB
      /\ At(BOB) = Script(BOB)[lo + 1] /\ lo + 1 \in 1 .. Whole /\ lo \in Nat /\ hi \in Nat
  <2>1. lo \in 0 .. Whole - 1 /\ At(BOB) = Script(BOB)[lo + 1] /\ hi \in Nat /\ Whole \in Nat
    BY Stands, PeerIs, Numbers DEF Base
  <2> QED
    BY <2>1, PeerIs
<1>2. lo < hi /\ Linked(ALICE) /\ Head(c).kind = MessageKind(x[lo + 1])
  BY <1>1, ReceiverLags DEF Base, Receives
<1>3. x[lo + 1].op = "decide"
  BY <1>1, Places DEF Base, Types
<1>4. Carries(c, x, lo, hi) /\ c \in Seq(Message)
  BY <1>1, <1>2 DEF Linked, Base, Types
<1> HIDE DEF lo, hi, x
<1>5. Head(c).kind = "verdict"
  BY <1>2, <1>3 DEF MessageKind
<1>6. 1 \in 1 .. Len(c) /\ Head(c) = c[1]
  BY <1>1, <1>4, EmptySeq
<1>7. Head(c).ok <=> ~(status[ALICE] = "refused" /\ 1 = Len(c))
  BY <1>5, <1>6 DEF Verdicts
<1>8. ASSUME status[ALICE] = "refused"
      PROVE  Len(c) = 1 <=> lo + 1 = hi
  <2>1. x[hi].op = "decide"
    BY <1>8 DEF Refusal, x, hi
  <2> HIDE DEF c
  <2> QED
    BY <1>1, <1>2, <1>3, <1>4, <2>1, CarriesTwo DEF Sends
<1> QED
  BY <1>1, <1>2, <1>7, <1>8 DEF lo, hi

\* BOB obeys the verdict.
LEMMA ObeyKeeps ==
  ASSUME Base, Upper, Obey
  PROVE  Base' /\ Upper'
<1> DEFINE ok == Head(chan[BOB]).ok
<1>1. /\ Is(BOB, "obey") /\ Advance(BOB) /\ Take(BOB) /\ chan[BOB] # <<>>
      /\ IF ok THEN status' = status ELSE End(BOB, "refused")
      /\ UNCHANGED <<config, connected, out, shuffles, said, driver, outcome>>
  BY DEF Obey, Obeyed
<1> HIDE DEF ok
<1>2. /\ Goes(BOB) /\ Running(BOB) /\ At(BOB).op = "obey" /\ At(BOB) = Script(BOB)[Pos(BOB) + 1]
      /\ Pos(BOB) + 1 \in 1 .. Whole /\ Pos(BOB)' = Pos(BOB) + 1 /\ Pos(ALICE)' = Pos(ALICE)
      /\ todo[BOB] # <<>> /\ ALICE \in Party /\ BOB \in Party /\ ALICE # BOB
  BY <1>1, IsAt, PeerIs DEF Goes
<1>3. /\ status[BOB] = "running" /\ status'[ALICE] = status[ALICE]
      /\ status'[BOB] = (IF ok THEN "running" ELSE "refused") /\ status' \in [Party -> Statuses]
  BY <1>1, <1>2 DEF End, Running, Base, Types, Statuses
<1>4. Base'
  <2>1. said' \in [Party -> Seq(Summaries)]
    BY <1>1 DEF Base, Types
  <2> QED
    BY <1>1, <1>2, <1>3, <2>1, BaseReceives DEF Receives
<1>5. SameEnds("incorrect")
  BY <1>3, PeerIs DEF SameEnds
<1>6. Refusal'
  <2>1. /\ Pos(BOB) < Pos(ALICE)
        /\ ok <=> ~(status[ALICE] = "refused" /\ Pos(ALICE) = Pos(BOB) + 1)
    BY <1>1, <1>2, ObeyTakes DEF Upper, ok
  <2>2. status[ALICE] = "refused" => Pos(ALICE) > 0 /\ Script(ALICE)[Pos(ALICE)].op = "decide"
    BY DEF Upper, Refusal
  <2>3. Script(ALICE)' = Script(ALICE)
    BY <1>1, <1>2, Fixed
  <2>4. Pos(ALICE) \in Nat /\ Pos(BOB) \in Nat
    BY <1>2, Numbers DEF Base
  <2>5. status'[BOB] = "refused" <=> ~ok
    BY <1>3
  <2>6. status'[ALICE] = "refused" /\ Pos(ALICE) <= Pos(BOB) + 1 => ~ok
    BY <1>3, <2>1, <2>4
  <2> QED
    BY <1>2, <1>3, <2>1, <2>2, <2>3, <2>5, <2>6 DEF Refusal
<1>7. Incorrect' /\ Invalid'
  BY <1>2, <1>5, IncorrectGoes DEF Base, Upper
<1>8. Counted'
  <2>1. At(BOB).op # "shuffle" /\ At(BOB).op # Summing(BOB) /\ At(BOB).op # "demand"
    BY <1>2 DEF Summing
  <2>2. \A r \in Party : shuffles'[r] = shuffles[r] /\ said'[r] = said[r]
    BY <1>1
  <2>3. shuffles[BOB] \in Nat /\ Len(said[BOB]) \in Nat
    BY <1>2, LenProperties DEF Base, Types
  <2>4. /\ shuffles'[BOB] = shuffles[BOB] + (IF At(BOB).op = "shuffle" THEN 1 ELSE 0)
        /\ Len(said'[BOB]) = Len(said[BOB]) + (IF At(BOB).op = Summing(BOB) THEN 1 ELSE 0)
    BY <1>2, <2>1, <2>2, <2>3
  <2> QED
    BY <1>2, <2>1, <2>2, <2>4, CountGoes DEF Base, Upper
<1>9. Verdicts'
  BY <1>1, <1>3, VerdictsTaken DEF Base, Upper
<1>10. Agree'
  <2>1. chan'[ALICE] = chan[ALICE]
    BY <1>1, <1>2, TakeType DEF Base
  <2>2. \A r \in Party : Known(r)' = Known(r)
    BY <1>1, <2>1 DEF Known, Pending
  <2> QED
    BY <1>2, <1>5, <2>2, AgreeGoes DEF Base, Upper
<1> QED
  BY <1>4, <1>6, <1>7, <1>8, <1>9, <1>10 DEF Upper

\* ALICE takes BOB's summary, which she has counted on already.
LEMMA HearKeeps ==
  ASSUME Base, Upper, Hear
  PROVE  Base' /\ Upper'
<1> DEFINE m == Head(chan[ALICE])
           sm == [exact |-> m.exact, indices |-> m.indices]
<1>1. /\ Is(ALICE, "hear") /\ Advance(ALICE) /\ Take(ALICE) /\ chan[ALICE] # <<>>
      /\ said' = [said EXCEPT ![ALICE] = Append(@, sm)]
      /\ UNCHANGED <<config, connected, status, out, shuffles, driver, outcome>>
  BY DEF Hear
<1>2. /\ Goes(ALICE) /\ Running(ALICE) /\ At(ALICE).op = "hear" /\ At(ALICE) = Script(ALICE)[Pos(ALICE) + 1]
      /\ Pos(ALICE) + 1 \in 1 .. Whole
      /\ todo[ALICE] # <<>> /\ ALICE \in Party /\ BOB \in Party /\ ALICE # BOB /\ Peer(ALICE) = BOB
  BY <1>1, IsAt, PeerIs DEF Goes
<1>3. m.kind = "summary"
  <2>1. m.kind = MessageKind(Script(BOB)[Pos(ALICE) + 1])
    BY <1>1, <1>2, ReceiverLags DEF Base, Receives
  <2>2. Script(BOB)[Pos(ALICE) + 1].op = "tell"
    BY <1>2, Places DEF Base, Types
  <2> QED
    BY <2>1, <2>2 DEF MessageKind
<1>4. sm \in Summaries
  <2>1. m \in Message
    BY <1>1, <1>2, TakeType DEF Base
  <2> QED
    BY <1>3, <2>1 DEF Message, Summaries, Kinds
<1>5. Pending = <<sm>>
  BY <1>1, <1>3 DEF Pending
<1>6. Pending' = <<>>
  <2>1. chan'[ALICE] = Tail(chan[ALICE])
    BY <1>1, <1>2, TakeType DEF Base
  <2>2. Tail(chan[ALICE]) = <<>> \/ Head(Tail(chan[ALICE])).kind # "summary"
    BY <1>1, <1>2, NoneBehind DEF Base, Receives
  <2> QED
    BY <2>1, <2>2 DEF Pending
<1> HIDE DEF sm, m
<1>7. /\ said[ALICE] \in Seq(Summaries) /\ Append(said[ALICE], sm) \in Seq(Summaries)
      /\ Len(said[ALICE]) \in Nat /\ Len(Append(said[ALICE], sm)) = Len(said[ALICE]) + 1
      /\ said'[ALICE] = Append(said[ALICE], sm) /\ said'[BOB] = said[BOB]
      /\ said' \in [Party -> Seq(Summaries)]
  BY <1>1, <1>2, <1>4, AppendProperties, LenProperties DEF Base, Types
<1>8. Base'
  <2>1. status' \in [Party -> Statuses]
    BY <1>1 DEF Base, Types
  <2> QED
    BY <1>1, <1>2, <1>7, <2>1, BaseReceives DEF Receives
<1>9. SameEnds("refused") /\ SameEnds("incorrect")
  BY <1>1 DEF SameEnds
<1>10. Refusal'
  BY <1>2, <1>9, RefusalGoes DEF Base, Upper
<1>11. Incorrect' /\ Invalid'
  BY <1>2, <1>9, IncorrectGoes DEF Base, Upper
<1>12. Counted'
  <2>1. At(ALICE).op # "shuffle" /\ At(ALICE).op = Summing(ALICE) /\ At(ALICE).op # "demand"
    BY <1>2 DEF Summing
  <2>2. \A r \in Party : r # ALICE => shuffles'[r] = shuffles[r] /\ said'[r] = said[r]
    BY <1>1, <1>7, PeerIs
  <2>3. shuffles[ALICE] \in Nat /\ shuffles'[ALICE] = shuffles[ALICE]
    BY <1>1, <1>2 DEF Base, Types
  <2>4. /\ shuffles'[ALICE] = shuffles[ALICE] + (IF At(ALICE).op = "shuffle" THEN 1 ELSE 0)
        /\ Len(said'[ALICE]) = Len(said[ALICE]) + (IF At(ALICE).op = Summing(ALICE) THEN 1 ELSE 0)
    BY <1>7, <2>1, <2>3
  <2> QED
    BY <1>2, <2>1, <2>2, <2>4, CountGoes DEF Base, Upper
<1>13. Verdicts'
  <2>1. chan'[BOB] = chan[BOB]
    BY <1>1, <1>2, TakeType DEF Base
  <2> QED
    BY <1>9, <2>1, VerdictsStay DEF Upper
<1>14. Agree'
  <2>1. Known(ALICE)' = Known(ALICE)
    <3>1. Append(said[ALICE], sm) \o <<>> = said[ALICE] \o <<sm>>
      BY <1>4, <1>7
    <3> QED
      BY <1>5, <1>6, <1>7, <3>1 DEF Known
  <2>2. Known(BOB)' = Known(BOB)
    BY <1>2, <1>7 DEF Known
  <2>3. \A r \in Party : Known(r)' = Known(r)
    BY <2>1, <2>2, PeerIs
  <2> QED
    BY <1>2, <1>9, <2>3, AgreeGoes DEF Base, Upper
<1> QED
  BY <1>8, <1>10, <1>11, <1>12, <1>13, <1>14 DEF Upper

\* BOB tells when both are equally far, so nothing else is on its way to ALICE.
LEMMA TellKeeps ==
  ASSUME Base, Upper, NEW exact \in BOOLEAN, NEW indices \in BOOLEAN, Tell(exact, indices)
  PROVE  Base' /\ Upper'
<1> DEFINE sm == [exact |-> exact, indices |-> indices]
           m == [kind |-> "summary", exact |-> exact, indices |-> indices]
<1>1. /\ Is(BOB, "tell") /\ Advance(BOB) /\ Put(BOB, m)
      /\ said' = [said EXCEPT ![BOB] = Append(@, sm)]
      /\ PipeTakes(BOB, config.lines) /\ out' = [out EXCEPT ![BOB] = @ + config.lines]
      /\ UNCHANGED <<config, connected, status, shuffles, driver, outcome>>
  BY DEF Tell
<1>2. /\ Goes(BOB) /\ Running(BOB) /\ At(BOB).op = "tell" /\ At(BOB) = Script(BOB)[Pos(BOB) + 1]
      /\ Pos(BOB) + 1 \in 1 .. Whole /\ Pos(BOB)' = Pos(BOB) + 1 /\ Pos(ALICE)' = Pos(ALICE)
      /\ todo[BOB] # <<>> /\ ALICE \in Party /\ BOB \in Party /\ ALICE # BOB
      /\ Peer(ALICE) = BOB /\ Peer(BOB) = ALICE /\ Pos(ALICE) \in Nat /\ Pos(BOB) \in Nat
  <2>1. Pos(ALICE) \in Nat /\ Pos(BOB) \in Nat
    BY Numbers, PeerIs DEF Base
  <2> QED
    BY <1>1, <2>1, IsAt, PeerIs DEF Goes
<1>3. m \in Message /\ m.kind = MessageKind(At(BOB)) /\ m.kind = "summary" /\ sm \in Summaries
      /\ sm = [exact |-> m.exact, indices |-> m.indices]
  BY <1>2 DEF Message, MessageKind, Summaries
<1> HIDE DEF sm, m
<1>4. Pos(ALICE) = Pos(BOB)
  <2>1. Pos(ALICE) <= Pos(BOB) /\ Linked(BOB)
    BY <1>2, SenderLeads DEF Base, Sends
  <2>2. Pos(BOB) + 1 > 1 /\ Script(BOB)[(Pos(BOB) + 1) - 1].op \in Receives
    BY <1>2, After DEF Base, Types
  <2>3. (Pos(BOB) + 1) - 1 = Pos(BOB)
    BY <1>2
  <2>4. ~(Pos(BOB) \in Pos(ALICE) + 1 .. Pos(BOB))
    BY <1>2, <2>1, <2>2, <2>3 DEF Linked
  <2> QED
    BY <1>2, <2>1, <2>4
<1>5. chan[ALICE] = <<>>
  BY <1>2, <1>4, Level DEF Base
<1>6. Pending = <<>> /\ Pending' = <<sm>>
  <2>1. chan'[ALICE] = Append(<<>>, m)
    BY <1>1, <1>2, <1>3, <1>5, PutType DEF Base
  <2>2. chan'[ALICE] # <<>> /\ Head(chan'[ALICE]) = m
    BY <2>1
  <2> QED
    BY <1>3, <1>5, <2>2 DEF Pending
<1>7. /\ said[BOB] \in Seq(Summaries) /\ Append(said[BOB], sm) \in Seq(Summaries)
      /\ Len(said[BOB]) \in Nat /\ Len(Append(said[BOB], sm)) = Len(said[BOB]) + 1
      /\ said'[BOB] = Append(said[BOB], sm) /\ said'[ALICE] = said[ALICE]
      /\ said' \in [Party -> Seq(Summaries)] /\ said[ALICE] \in Seq(Summaries)
  BY <1>1, <1>2, <1>3, AppendProperties, LenProperties DEF Base, Types
<1>8. Base'
  <2>1. status' \in [Party -> Statuses]
    BY <1>1 DEF Base, Types
  <2>2. out' \in [Party -> 0 .. Capacity]
    <3>1. /\ out \in [Party -> 0 .. Capacity] /\ Capacity \in Nat /\ config.lines \in Nat
          /\ out[BOB] + config.lines <= Capacity
      BY <1>1, SessionAssumption DEF Base, Types, PipeTakes
    <3>2. out[BOB] + config.lines \in 0 .. Capacity
      BY <1>2, <3>1
    <3> QED
      BY <1>1, <1>2, <3>1, <3>2
  <2> QED
    BY <1>1, <1>2, <1>3, <1>7, <2>1, <2>2, BaseSends DEF Sends
<1>9. SameEnds("refused") /\ SameEnds("incorrect")
  BY <1>1 DEF SameEnds
<1>10. Refusal'
  BY <1>2, <1>9, RefusalGoes DEF Base, Upper
<1>11. Incorrect' /\ Invalid'
  BY <1>2, <1>9, IncorrectGoes DEF Base, Upper
<1>12. Counted'
  <2>1. At(BOB).op # "shuffle" /\ At(BOB).op = Summing(BOB) /\ At(BOB).op # "demand"
    BY <1>2 DEF Summing
  <2>2. \A r \in Party : r # BOB => shuffles'[r] = shuffles[r] /\ said'[r] = said[r]
    BY <1>1, <1>7, PeerIs
  <2>3. shuffles[BOB] \in Nat /\ shuffles'[BOB] = shuffles[BOB]
    BY <1>1, <1>2 DEF Base, Types
  <2>4. /\ shuffles'[BOB] = shuffles[BOB] + (IF At(BOB).op = "shuffle" THEN 1 ELSE 0)
        /\ Len(said'[BOB]) = Len(said[BOB]) + (IF At(BOB).op = Summing(BOB) THEN 1 ELSE 0)
    BY <1>7, <2>1, <2>3
  <2> QED
    BY <1>2, <2>1, <2>2, <2>4, CountGoes DEF Base, Upper
<1>13. Verdicts'
  <2>1. chan'[BOB] = chan[BOB]
    BY <1>1, <1>2, <1>3, PutType DEF Base
  <2> QED
    BY <1>9, <2>1, VerdictsStay DEF Upper
<1>14. Agree'
  <2>1. Known(BOB) = Known(ALICE)
    <3>1. Agrees(BOB)
      BY <1>2, <1>4 DEF Upper, Agree
    <3>2. SameCase(BOB)
      BY <1>2, <1>4 DEF SameCase
    <3> QED
      BY <1>2, <3>1, <3>2 DEF Agrees
  <2>2. Known(BOB)' = Known(ALICE)'
    <3>1. said[BOB] = said[ALICE] \o <<>>
      BY <1>2, <1>6, <2>1 DEF Known
    <3>2. said[BOB] = said[ALICE]
      BY <1>7, <3>1
    <3>3. Append(said[BOB], sm) = said[ALICE] \o <<sm>>
      BY <1>3, <1>7, <3>2
    <3> QED
      BY <1>2, <1>6, <1>7, <3>3 DEF Known
  <2>3. SameCase(BOB)'
    <3>1. Script(BOB)' = Script(BOB) /\ Peer(BOB)' = Peer(BOB)
      BY <1>1, <1>2, Fixed DEF Peer
    <3>2. \A i \in Pos(ALICE) + 1 .. Pos(BOB) + 1 : i = Pos(BOB) + 1
      BY <1>2, <1>4
    <3>3. \A i \in Pos(ALICE) + 1 .. Pos(BOB) + 1 : Script(BOB)[i].op # "demand"
      BY <1>2, <3>2
    <3>4. (\A i \in Pos(ALICE) + 1 .. Pos(BOB) + 1 : Script(BOB)[i].op # "demand")
             = (\A i \in Pos(Peer(BOB))' + 1 .. Pos(BOB)' : Script(BOB)'[i].op # "demand")
      BY <1>2, <3>1
    <3> QED
      BY <3>1, <3>3, <3>4 DEF SameCase
  <2>4. Agrees(BOB)'
    BY <1>2, <2>2, <2>3 DEF Agrees, Peer
  <2>5. ~(Pos(BOB)' <= Pos(ALICE)')
    BY <1>2, <1>4
  <2> QED
    BY <1>2, <2>4, <2>5, PeerIs DEF Agree, Peer
<1> QED
  BY <1>8, <1>10, <1>11, <1>12, <1>13, <1>14 DEF Upper

-----------------------------------------------------------------------------
(* The demand. *)

\* Among the operations that one server is ahead, and its next, is one demand at most.
LEMMA OneDemand ==
  ASSUME Base, NEW s \in Party, Linked(s), NEW d \in Pos(Peer(s)) + 1 .. Pos(s), NEW e \in 1 .. Whole,
         d < e, e <= Pos(s) + 1, config.valid \/ e <= 1,
         Script(s)[d].op = "demand", Script(s)[e].op = "demand"
  PROVE  FALSE
<1>1. Pos(s) \in 0 .. Whole /\ Pos(Peer(s)) \in Nat /\ Whole \in Nat
  BY Numbers, PeerIs DEF Base
<1>2. d \in 1 .. Whole /\ config.valid
  BY <1>1
<1>3. PICK i \in d + 1 .. e : Script(s)[i].op \in Receives
  BY <1>2, Apart DEF Base, Types
<1>4. i # e
  BY <1>3 DEF Receives
<1>5. i \in Pos(Peer(s)) + 1 .. Pos(s)
  BY <1>1, <1>4
<1> QED
  BY <1>3, <1>5 DEF Linked

\* At its demand a server has every summary that is meant for it, judges them, and
\* forgets them.
LEMMA DemandJudges ==
  ASSUME Base, Upper, NEW s \in Party, Demand(s)
  PROVE  /\ Goes(s) /\ Running(s) /\ At(s).op = "demand" /\ At(s) = Script(s)[Pos(s) + 1]
         /\ Pos(s) + 1 \in 1 .. Whole /\ Pos(s)' = Pos(s) + 1 /\ Pos(Peer(s))' = Pos(Peer(s))
         /\ Known(s)' = <<>> /\ Known(Peer(s))' = Known(Peer(s))
         /\ status'[s] = "incorrect" <=> ~Right(Known(s))
         /\ status' \in [Party -> Statuses] /\ status'[Peer(s)] = status[Peer(s)]
         /\ SameEnds("refused")
<1>1. /\ Is(s, "demand") /\ Advance(s) /\ said' = [said EXCEPT ![s] = <<>>]
      /\ IF Correct(s) THEN status' = status ELSE End(s, "incorrect")
      /\ UNCHANGED <<config, connected, chan, out, shuffles, driver, outcome>>
  BY DEF Demand, Cleared
<1>2. /\ Goes(s) /\ Running(s) /\ At(s).op = "demand" /\ At(s) = Script(s)[Pos(s) + 1]
      /\ Pos(s) + 1 \in 1 .. Whole /\ Pos(s)' = Pos(s) + 1 /\ Pos(Peer(s))' = Pos(Peer(s))
  BY <1>1, IsAt, PeerIs
<1>3. s = ALICE => Pending = <<>>
  <2>1. s = ALICE => Script(ALICE)[Pos(ALICE) + 1].op # "hear"
    BY <1>2
  <2> QED
    BY <2>1, SummaryIsNext DEF Base, Pending
<1>4. Pending' = Pending
  BY <1>1 DEF Pending
<1>5. said[s] \in Seq(Summaries) /\ said'[s] = <<>> /\ said'[Peer(s)] = said[Peer(s)]
  BY <1>1, PeerIs DEF Base, Types
<1>6. Known(s) = said[s] /\ Known(s)' = <<>>
  <2>1. CASE s = BOB
    BY <1>5, <2>1, PeerIs DEF Known
  <2>2. CASE s = ALICE
    <3>1. said[s] \o <<>> = said[s]
      BY <1>5
    <3> QED
      BY <1>3, <1>4, <1>5, <2>2, <3>1, PeerIs DEF Known
  <2> QED
    BY <2>1, <2>2, PeerIs
<1>7. Known(Peer(s))' = Known(Peer(s))
  <2>1. CASE s = BOB
    BY <1>4, <1>5, <2>1, PeerIs DEF Known
  <2>2. CASE s = ALICE
    BY <1>5, <2>2, PeerIs DEF Known
  <2> QED
    BY <2>1, <2>2, PeerIs
<1>8. Correct(s) <=> Right(Known(s))
  BY <1>6 DEF Correct, Right
<1>9. /\ status[s] = "running" /\ status' \in [Party -> Statuses] /\ status'[Peer(s)] = status[Peer(s)]
      /\ status'[s] = (IF Correct(s) THEN "running" ELSE "incorrect")
  BY <1>1, <1>2, PeerIs DEF End, Running, Base, Types, Statuses
<1>10. SameEnds("refused")
  BY <1>9, PeerIs DEF SameEnds
<1> QED
  BY <1>2, <1>6, <1>7, <1>8, <1>9, <1>10

\* After its demand a server counts a case more and starts from none.
LEMMA DemandCounts ==
  ASSUME Base, Upper, NEW s \in Party, Demand(s)
  PROVE  Counted'
<1> DEFINE p == Pos(s)
           n == CaseLen
<1>1. /\ said' = [said EXCEPT ![s] = <<>>] /\ UNCHANGED <<config, shuffles>>
  BY DEF Demand, Cleared
<1>2. /\ p' = p + 1 /\ p + 1 \in 1 .. Whole /\ Script(s)[p + 1].op = "demand"
      /\ Pos(Peer(s))' = Pos(Peer(s)) /\ p \in 0 .. Whole - 1
  BY DemandJudges, Numbers DEF Base
<1>3. p % n = n - 1 /\ (p + 1) % n = 0 /\ (p + 1) \div n = p \div n + 1
  BY <1>2, NextPlace DEF Base, Types
<1>4. \A r \in Party : Case(r)' = Case(r) /\ CaseLen' = CaseLen /\ config' = config
  BY <1>1, Fixed
<1>5. \A r \in Party : \A o, k : Done(r, o, k)' = Done(r, o, k)
  BY <1>4 DEF Done
<1>6. CountedAt(s, Pos(s))'
  <2>1. config.valid => shuffles'[s] = ((p + 1) \div n) * config.reps + Done(s, "shuffle", (p + 1) % n)
    <3> SUFFICES ASSUME config.valid
                 PROVE  shuffles'[s] = ((p + 1) \div n) * config.reps + Done(s, "shuffle", (p + 1) % n)
      OBVIOUS
    <3>1. shuffles[s] = (p \div n) * config.reps + config.reps
      <4>1. shuffles[s] = (p \div n) * config.reps + Done(s, "shuffle", p % n)
        BY DEF Upper, Counted, CountedAt
      <4>2. Done(s, "shuffle", n - 1) = config.reps
        BY DoneAll DEF Base, Types
      <4> HIDE DEF p, n
      <4> QED
        BY <1>3, <4>1, <4>2
    <3>2. Done(s, "shuffle", 0) = 0
      <4>1. 0 \in Nat
        OBVIOUS
      <4> QED
        BY <4>1, DoneNext
    <3>3. p \div n \in Int /\ config.reps \in Int
      <4>1. p \in Int /\ n \in Nat \ {0} /\ config.reps \in Int
        BY <1>2, Numbers, SessionAssumption DEF Base, Types
      <4> QED
        BY <4>1, ModSplit
    <3> HIDE DEF p, n
    <3>4. (p \div n + 1) * config.reps + 0 = (p \div n) * config.reps + config.reps
      BY <3>3, Z3
    <3>5. shuffles'[s] = shuffles[s]
      BY <1>1
    <3> QED
      BY <1>3, <3>1, <3>2, <3>4, <3>5
  <2>2. Len(said'[s]) = Done(s, Summing(s), (p + 1) % n)
    <3>1. Done(s, Summing(s), 0) = 0
      <4>1. 0 \in Nat
        OBVIOUS
      <4> QED
        BY <4>1, DoneNext
    <3>2. said'[s] = <<>>
      BY <1>1 DEF Base, Types
    <3> QED
      BY <1>3, <3>1, <3>2
  <2>3. Summing(s)' = Summing(s)
    BY DEF Summing
  <2> QED
    BY <1>2, <1>4, <1>5, <2>1, <2>2, <2>3 DEF CountedAt
<1>7. ASSUME NEW r \in Party, r # s
      PROVE  CountedAt(r, Pos(r))'
  <2>1. /\ CountedAt(r, Pos(r)) /\ Pos(r)' = Pos(r) /\ shuffles'[r] = shuffles[r]
        /\ said'[r] = said[r] /\ Summing(r)' = Summing(r)
    BY <1>1, <1>2, <1>7, PeerIs DEF Upper, Counted, Summing, Base, Types
  <2> QED
    BY <1>4, <1>5, <2>1 DEF CountedAt
<1> QED
  BY <1>6, <1>7 DEF Counted

\* A server at a demand that its peer is past: the peer has nothing of the next case,
\* and it found correct what the server is about to judge.
LEMMA DemandBehind ==
  ASSUME Base, Upper, NEW s \in Party, Demand(s), Pos(s) < Pos(Peer(s))
  PROVE  /\ Known(Peer(s)) = <<>>
         /\ status[Peer(s)] = "incorrect" <=> ~Right(Known(s))
         /\ \A i \in Pos(s) + 1 + 1 .. Pos(Peer(s)) : Script(Peer(s))[i].op # "demand"
<1> DEFINE t == Peer(s)
<1>1. /\ t \in Party /\ Peer(t) = s /\ Pos(s) \in Nat /\ Pos(t) \in 0 .. Whole /\ Whole \in Nat
      /\ Pos(s) + 1 \in 1 .. Whole /\ Script(s)[Pos(s) + 1].op = "demand"
  BY DemandJudges, PeerIs, Numbers DEF Base
<1>2. Script(t)[Pos(s) + 1].op = "demand" /\ Pos(s) + 1 \in Pos(s) + 1 .. Pos(t)
  BY <1>1, Places DEF Base, Types
<1>3. Agrees(t) /\ Linked(t)
  BY <1>1 DEF Upper, Agree, Base, Link
<1>4. ~SameCase(t)
  BY <1>1, <1>2 DEF SameCase
<1>5. ASSUME NEW i \in Pos(s) + 1 + 1 .. Pos(t), Script(t)[i].op = "demand"
      PROVE  FALSE
  <2>1. i \in 1 .. Whole /\ Pos(s) + 1 < i /\ i <= Pos(t) + 1
    BY <1>1
  <2>2. config.valid \/ i <= 1
    <3>1. ~config.valid => Pos(t) <= 1
      BY <1>1 DEF Upper, Invalid
    <3> QED
      BY <1>1, <3>1
  <2>3. Pos(s) + 1 \in Pos(Peer(t)) + 1 .. Pos(t)
    BY <1>1, <1>2
  <2> HIDE DEF t
  <2> QED
    BY <1>1, <1>2, <1>3, <1>5, <2>1, <2>2, <2>3, OneDemand
<1> QED
  BY <1>1, <1>3, <1>4, <1>5 DEF Agrees

\* A server at a demand that its peer has not passed: the two have the same summaries.
LEMMA DemandAhead ==
  ASSUME Base, Upper, NEW s \in Party, Demand(s), Pos(Peer(s)) <= Pos(s)
  PROVE  Known(s) = Known(Peer(s))
<1>1. /\ Peer(s) \in Party /\ Pos(s) \in 0 .. Whole /\ Pos(Peer(s)) \in Nat /\ Whole \in Nat
      /\ Pos(s) + 1 \in 1 .. Whole /\ Script(s)[Pos(s) + 1].op = "demand" /\ Running(s)
  BY DemandJudges, PeerIs, Numbers DEF Base
<1>2. Agrees(s) /\ Linked(s)
  BY DEF Upper, Agree, Base, Link
<1>3. ASSUME NEW d \in Pos(Peer(s)) + 1 .. Pos(s), Script(s)[d].op = "demand"
      PROVE  FALSE
  <2>1. d < Pos(s) + 1 /\ Pos(s) + 1 <= Pos(s) + 1
    BY <1>1
  <2>2. config.valid \/ Pos(s) + 1 <= 1
    BY <1>1 DEF Upper, Invalid, Running
  <2> QED
    BY <1>1, <1>2, <1>3, <2>1, <2>2, OneDemand
<1>4. SameCase(s)
  BY <1>3 DEF SameCase
<1> QED
  BY <1>2, <1>4 DEF Agrees

\* A server that finds the case incorrect has its peer do so at the same demand.
LEMMA DemandIncorrect ==
  ASSUME Base, Upper, NEW s \in Party, Demand(s)
  PROVE  Incorrect' /\ Invalid'
<1> DEFINE t == Peer(s)
<1>1. /\ Running(s) /\ Script(s)[Pos(s) + 1].op = "demand" /\ Pos(s) + 1 \in 1 .. Whole
      /\ Pos(s)' = Pos(s) + 1 /\ Pos(t)' = Pos(t) /\ t \in Party /\ Peer(t) = s /\ t # s
      /\ status'[s] = "incorrect" <=> ~Right(Known(s))
      /\ status'[t] = status[t] /\ Pos(s) \in Nat /\ Pos(t) \in 0 .. Whole /\ Whole \in Nat
  <2>1. Pos(s) \in Nat /\ Peer(s) \in Party /\ Pos(Peer(s)) \in 0 .. Whole /\ Whole \in Nat
    BY PeerIs, Numbers DEF Base
  <2> QED
    BY <2>1, DemandJudges, PeerIs
<1>2. \A r \in Party : Script(r)' = Script(r) /\ Peer(r)' = Peer(r) /\ (r = s \/ r = t)
  BY Fixed, PeerIs DEF Demand, Peer
<1>3. Invalid'
  <2> SUFFICES ASSUME ~config.valid
               PROVE  \A r \in Party : Pos(r)' = 0 \/ (Pos(r)' = 1 /\ status'[r] = "incorrect")
    BY DEF Invalid, Demand
  <2>1. Pos(s) = 0
    BY <1>1 DEF Upper, Invalid, Running
  <2>2. Pos(s)' = 1 /\ status'[s] = "incorrect"
    BY <1>1, <2>1 DEF Right
  <2>3. Pos(t) = 0 \/ (Pos(t) = 1 /\ status[t] = "incorrect")
    BY <1>1 DEF Upper, Invalid
  <2> QED
    BY <1>1, <1>2, <2>2, <2>3
<1>4. ASSUME status'[s] = "incorrect", Pos(s) + 1 <= Pos(t)
      PROVE  Pos(t) = Pos(s) + 1 /\ status[t] = "incorrect"
  <2>1. Pos(s) < Pos(t)
    BY <1>1, <1>4
  <2>2. status[t] = "incorrect" /\ \A i \in Pos(s) + 1 + 1 .. Pos(t) : Script(t)[i].op # "demand"
    BY <1>1, <1>4, <2>1, DemandBehind
  <2>3. Script(t)[Pos(t)].op = "demand"
    BY <1>1, <2>2 DEF Upper, Incorrect
  <2>4. ~(Pos(t) \in Pos(s) + 1 + 1 .. Pos(t))
    BY <2>2, <2>3
  <2> QED
    BY <1>1, <2>1, <2>2, <2>4
<1>5. ASSUME status[t] = "incorrect"
      PROVE  /\ Pos(t) > 0 /\ Script(t)[Pos(t)].op = "demand"
             /\ Pos(t) <= Pos(s) + 1 => Pos(s) + 1 = Pos(t) /\ status'[s] = "incorrect"
  <2>1. Pos(t) > 0 /\ Script(t)[Pos(t)].op = "demand" /\ ~(Pos(t) <= Pos(s))
    BY <1>1, <1>5 DEF Upper, Incorrect, Running
  <2>2. Pos(s) < Pos(t)
    BY <1>1, <2>1
  <2>3. status'[s] = "incorrect"
    BY <1>1, <1>5, <2>2, DemandBehind
  <2> QED
    BY <1>1, <2>1, <2>2, <2>3
<1>6. ASSUME NEW r \in Party, status'[r] = "incorrect"
      PROVE  /\ Pos(r)' > 0 /\ Script(r)'[Pos(r)'].op = "demand"
             /\ Pos(r)' <= Pos(Peer(r))' => Pos(Peer(r))' = Pos(r)' /\ status'[Peer(r)] = "incorrect"
  <2>1. CASE r = s
    <3>1. Script(r)' = Script(s) /\ Pos(r)' = Pos(s) + 1 /\ Pos(Peer(r))' = Pos(t)
      BY <1>1, <1>2, <2>1
    <3> QED
      BY <1>1, <1>4, <1>6, <2>1, <3>1
  <2>2. CASE r = t
    <3>1. Script(r)' = Script(t) /\ Pos(r)' = Pos(t) /\ Pos(Peer(r))' = Pos(s) + 1 /\ Peer(r) = s
      BY <1>1, <1>2, <2>2
    <3> HIDE DEF t
    <3> QED
      BY <1>1, <1>5, <1>6, <2>2, <3>1
  <2> QED
    BY <1>2, <2>1, <2>2
<1> QED
  BY <1>2, <1>3, <1>6 DEF Incorrect

\* The agreement at a demand: first the one server, then the other, or not.
LEMMA DemandAgree ==
  ASSUME Base, Upper, NEW s \in Party, Demand(s)
  PROVE  Agree'
<1> DEFINE t == Peer(s)
<1>1. /\ Script(s)[Pos(s) + 1].op = "demand" /\ Pos(s) + 1 \in 1 .. Whole
      /\ Pos(s)' = Pos(s) + 1 /\ Pos(t)' = Pos(t) /\ t \in Party /\ Peer(t) = s /\ t # s
      /\ status'[s] = "incorrect" <=> ~Right(Known(s))
      /\ status'[t] = status[t] /\ Pos(s) \in Nat /\ Pos(t) \in Nat
      /\ Known(s)' = <<>> /\ Known(t)' = Known(t)
  <2>1. Pos(s) \in Nat /\ Peer(s) \in Party /\ Pos(Peer(s)) \in Nat
    BY PeerIs, Numbers DEF Base
  <2> QED
    BY <2>1, DemandJudges, PeerIs
<1>2. \A r \in Party : Script(r)' = Script(r) /\ Peer(r)' = Peer(r) /\ (r = s \/ r = t)
  BY Fixed, PeerIs DEF Demand, Peer
<1>3. /\ SameCase(s)' <=> \A i \in Pos(t) + 1 .. Pos(s) + 1 : Script(s)[i].op # "demand"
      /\ SameCase(t)' <=> \A i \in Pos(s) + 1 + 1 .. Pos(t) : Script(t)[i].op # "demand"
  BY <1>1, <1>2 DEF SameCase
<1>4. Right(Known(t))' = Right(Known(t))
  BY <1>1 DEF Right, Demand
<1>5. CASE Pos(s) < Pos(t)
  <2>1. Known(t) = <<>> /\ \A i \in Pos(s) + 1 + 1 .. Pos(t) : Script(t)[i].op # "demand"
    BY <1>5, DemandBehind
  <2>2. Agrees(t)'
    BY <1>1, <1>2, <1>3, <2>1 DEF Agrees
  <2>3. ASSUME Pos(t)' <= Pos(s)' PROVE Agrees(s)'
    <3>1. Pos(t) = Pos(s) + 1
      BY <1>1, <1>5, <2>3
    <3>2. \A i \in Pos(t) + 1 .. Pos(s) + 1 : FALSE
      BY <1>1, <3>1
    <3>3. SameCase(s)'
      BY <1>3, <3>2
    <3> QED
      BY <1>1, <1>2, <2>1, <3>3 DEF Agrees
  <2> QED
    BY <1>1, <1>2, <2>2, <2>3 DEF Agree
<1>6. CASE Pos(t) <= Pos(s)
  <2>1. Known(s) = Known(t)
    BY <1>6, DemandAhead
  <2>2. Pos(s) + 1 \in Pos(t) + 1 .. Pos(s) + 1
    BY <1>1, <1>6
  <2>3. ~SameCase(s)'
    BY <1>1, <1>3, <2>2
  <2>4. Agrees(s)'
    BY <1>1, <1>2, <1>4, <2>1, <2>3 DEF Agrees
  <2>5. ~(Pos(s)' <= Pos(t)')
    BY <1>1, <1>6
  <2> QED
    BY <1>1, <1>2, <2>4, <2>5 DEF Agree
<1> QED
  BY <1>1, <1>5, <1>6

\* The demand.
LEMMA DemandKeeps ==
  ASSUME Base, Upper, NEW s \in Party, Demand(s)
  PROVE  Base' /\ Upper'
<1>1. /\ Goes(s) /\ Running(s) /\ At(s).op = "demand" /\ status' \in [Party -> Statuses]
      /\ SameEnds("refused")
  BY DemandJudges
<1>2. /\ said' = [said EXCEPT ![s] = <<>>] /\ UNCHANGED <<config, connected, chan, out, shuffles, driver, outcome>>
  BY DEF Demand, Cleared
<1>3. said' \in [Party -> Seq(Summaries)]
  <2>1. <<>> \in Seq(Summaries)
    BY EmptySeq
  <2> QED
    BY <1>2, <2>1 DEF Base, Types
<1>4. Base'
  <2>1. out' \in [Party -> 0 .. Capacity] /\ shuffles' \in [Party -> Nat]
    BY <1>2 DEF Base, Types
  <2> QED
    BY <1>1, <1>2, <1>3, <2>1, BaseGoes DEF Sends, Receives
<1>5. Refusal'
  BY <1>1, RefusalGoes DEF Base, Upper
<1>6. Verdicts'
  BY <1>1, <1>2, VerdictsStay DEF Upper
<1> QED
  BY <1>4, <1>5, <1>6, DemandAgree, DemandIncorrect, DemandCounts DEF Upper

-----------------------------------------------------------------------------
(* The inductive invariant. *)

\* Where the servers are and what they agree on.
Safe == Base /\ Upper

\* It holds when both processes start.
LEMMA SafeInit ==
  ASSUME Init
  PROVE  Safe
<1>1. /\ config \in Configs /\ status = [s \in Party |-> "running"] /\ chan = [s \in Party |-> <<>>]
      /\ todo = [s \in Party |-> Script(s)] /\ out = [s \in Party |-> 0]
      /\ shuffles = [s \in Party |-> 0] /\ said = [s \in Party |-> <<>>]
      /\ connected = [s \in Party |-> FALSE] /\ driver = "waiting" /\ outcome = "none"
  BY DEF Init, Script
<1>2. /\ CaseLen \in Nat \ {0} /\ Whole \in Nat
      /\ \A s \in Party : Script(s) \in Seq(Step) /\ Len(Script(s)) = Whole
  BY <1>1, ScriptIs
<1>3. Types
  <2>1. todo \in [Party -> Seq(Step)] /\ chan \in [Party -> Seq(Message)]
        /\ said \in [Party -> Seq(Summaries)] /\ shuffles \in [Party -> Nat]
        /\ status \in [Party -> Statuses]
    BY <1>1, <1>2, EmptySeq DEF Statuses
  <2>2. out \in [Party -> 0 .. Capacity]
    BY <1>1, SessionAssumption
  <2> QED
    BY <1>1, <2>1, <2>2 DEF Types
<1>10. Met
  BY <1>1, PeerIs DEF Met
<1>4. \A s \in Party : Pos(s) = 0 /\ todo[s] = Script(s)
  BY <1>1, <1>2 DEF Pos
<1>5. Where
  <2>1. ASSUME NEW s \in Party PROVE SubSeq(Script(s), 1, Whole) = Script(s)
    BY <1>2, SubSeqFull
  <2> QED
    BY <1>2, <1>4, <2>1 DEF Where
<1>6. Link
  <2> SUFFICES ASSUME NEW s \in Party PROVE Linked(s)
    BY DEF Link
  <2>1. Pos(s) = 0 /\ Pos(Peer(s)) = 0 /\ chan[s] = <<>> /\ chan[Peer(s)] = <<>>
    BY <1>1, <1>4, PeerIs
  <2>2. Carries(<<>>, Script(s), 0, 0)
    BY CarriesEmpty
  <2> QED
    BY <2>1, <2>2 DEF Linked
<1>7. Verdicts /\ Refusal /\ Incorrect /\ Invalid
  <2>1. Verdicts
    BY <1>1, PeerIs DEF Verdicts
  <2>2. Refusal
    BY <1>1, PeerIs DEF Refusal
  <2>3. Incorrect
    BY <1>1 DEF Incorrect
  <2>4. Invalid
    BY <1>4 DEF Invalid
  <2> QED
    BY <2>1, <2>2, <2>3, <2>4
<1>8. Agree
  <2> SUFFICES ASSUME NEW s \in Party PROVE Agrees(s)
    BY DEF Agree
  <2>1. SameCase(s)
    BY <1>4, PeerIs DEF SameCase
  <2>2. Pending = <<>>
    BY <1>1, PeerIs DEF Pending
  <2>3. \A r \in Party : Known(r) = <<>>
    BY <1>1, <2>2, PeerIs DEF Known
  <2> QED
    BY <2>1, <2>3, PeerIs DEF Agrees
<1>9. Counted
  <2> SUFFICES ASSUME NEW s \in Party PROVE CountedAt(s, 0)
    BY <1>4 DEF Counted
  <2>1. 0 % CaseLen = 0 /\ 0 \div CaseLen = 0
    <3>1. 0 \in 0 .. CaseLen - 1 /\ 0 \in Int /\ 0 * CaseLen + 0 = 0
      BY <1>2
    <3>2. (0 * CaseLen + 0) % CaseLen = 0 /\ (0 * CaseLen + 0) \div CaseLen = 0
      BY <1>2, <3>1, ModDigit
    <3> QED
      BY <3>1, <3>2, Zenon
  <2>2. Done(s, "shuffle", 0) = 0 /\ Done(s, Summing(s), 0) = 0
    <3>1. 0 \in Nat
      OBVIOUS
    <3> QED
      BY <3>1, DoneNext
  <2>3. 0 * config.reps + 0 = 0
    BY <1>1, SessionAssumption
  <2> QED
    BY <1>1, <2>1, <2>2, <2>3 DEF CountedAt
<1> QED
  BY <1>3, <1>5, <1>6, <1>7, <1>8, <1>9, <1>10 DEF Safe, Base, Upper

\* What only connects or ends a process, or moves the driver.
LEMMA EndsKeep ==
  ASSUME Base, Upper, connected' \in [Party -> BOOLEAN], Met', UNCHANGED <<config, todo, chan, out, said, shuffles>>,
         status' \in [Party -> Statuses], SameEnds("refused"), SameEnds("incorrect"),
         driver' \in {"waiting", "grace", "ended"}, outcome' \in {"none", "parsed", "error"}
  PROVE  Base' /\ Upper'
<1>1. Types'
  BY DEF Base, Types
<1>2. Where' /\ Link'
  BY StayStill DEF Base
<1> QED
  BY <1>1, <1>2, Still DEF Base

\* Every step keeps it.
LEMMA SafeNext ==
  ASSUME Safe, [Next]_vars
  PROVE  Safe'
<1> SUFFICES Base' /\ Upper'
  BY DEF Safe
<1>1. Base /\ Upper /\ Types
  BY DEF Safe, Base
<1>2. /\ status \in [Party -> Statuses]
      /\ driver \in {"waiting", "grace", "ended"} /\ outcome \in {"none", "parsed", "error"}
  BY <1>1 DEF Types
<1>10. connected' = connected => connected' \in [Party -> BOOLEAN] /\ Met'
  BY <1>1 DEF Base, Types, Met
<1>3. ASSUME NEW s \in Party, NEW how \in {"lost", "undecoded", "done", "crashed"}, Running(s), End(s, how),
             UNCHANGED <<config, connected, todo, chan, out, shuffles, said, driver, outcome>>
      PROVE  Base' /\ Upper'
  <2>1. status' \in [Party -> Statuses] /\ SameEnds("refused") /\ SameEnds("incorrect")
    BY <1>2, <1>3 DEF End, Running, Statuses, SameEnds
  <2> QED
    BY <1>1, <1>2, <1>3, <1>10, <2>1, EndsKeep
<1>4. ASSUME NEW s \in Party, Process(s) \/ Crash(s)
      PROVE  Base' /\ Upper'
  <2>1. CASE Send(s)
    BY <1>1, <2>1, SendKeeps
  <2>2. CASE Receive(s)
    BY <1>1, <2>2, ReceiveKeeps
  <2>3. CASE Lose(s)
    <3>1. Running(s)
      BY <2>3 DEF Lose, Writes, Reads, Is
    <3> QED
      BY <1>3, <2>3, <3>1 DEF Lose
  <2>4. CASE BeginShuffle(s) \/ PrintLine(s)
    BY <1>1, <2>4, AloneKeeps
  <2>5. CASE Demand(s)
    BY <1>1, <2>5, DemandKeeps
  <2>6. CASE Exit(s)
    BY <1>3, <2>6 DEF Exit
  <2>7. CASE Crash(s)
    BY <1>3, <2>7 DEF Crash
  <2> QED
    BY <1>4, <2>1, <2>2, <2>3, <2>4, <2>5, <2>6, <2>7 DEF Process
<1>5. CASE Servers
  <2>1. ASSUME NEW ok \in BOOLEAN, Decide(ok) PROVE Base' /\ Upper'
    BY <1>1, <2>1, DecideKeeps
  <2>2. ASSUME Obey PROVE Base' /\ Upper'
    BY <1>1, <2>2, ObeyKeeps
  <2>3. ASSUME Hear PROVE Base' /\ Upper'
    BY <1>1, <2>3, HearKeeps
  <2>4. ASSUME NEW exact \in BOOLEAN, NEW indices \in BOOLEAN, Tell(exact, indices)
        PROVE  Base' /\ Upper'
    BY <1>1, <2>4, TellKeeps
  <2>5. ASSUME Undecoded PROVE Base' /\ Upper'
    <3>1. Running(BOB)
      BY <2>5 DEF Undecoded, Is
    <3> QED
      BY <1>3, <2>5, <3>1, PeerIs DEF Undecoded
  <2>6. ASSUME Connect \/ AcceptPeer PROVE Base' /\ Upper'
    <3>1. UNCHANGED <<config, todo, chan, status, out, shuffles, said, driver, outcome>>
      BY <2>6 DEF Connect, AcceptPeer
    <3>2. connected \in [Party -> BOOLEAN]
      BY <1>1 DEF Types
    <3>3. connected' \in [Party -> BOOLEAN] /\ Met'
      <4>1. CASE Connect
        <5>1. connected' = [connected EXCEPT ![BOB] = TRUE]
          BY <4>1 DEF Connect
        <5> QED
          BY <3>2, <5>1, PeerIs DEF Met
      <4>2. CASE AcceptPeer
        <5>1. connected' = [connected EXCEPT ![ALICE] = TRUE] /\ connected[BOB]
          BY <4>2 DEF AcceptPeer, CanAccept
        <5> QED
          BY <3>2, <5>1, PeerIs DEF Met
      <4> QED
        BY <2>6, <4>1, <4>2
    <3>4. status' \in [Party -> Statuses] /\ SameEnds("refused") /\ SameEnds("incorrect")
      BY <1>2, <3>1 DEF SameEnds
    <3> QED
      BY <1>1, <1>2, <3>1, <3>3, <3>4, EndsKeep
  <2> QED
    BY <1>4, <1>5, <2>1, <2>2, <2>3, <2>4, <2>5, <2>6 DEF Servers
<1>6. ASSUME NEW S, UNCHANGED <<config, connected, todo, chan, out, shuffles, said>>, status' = Killed(S),
             driver' \in {"waiting", "grace", "ended"}, outcome' \in {"none", "parsed", "error"}
      PROVE  Base' /\ Upper'
  <2>1. status' \in [Party -> Statuses] /\ SameEnds("refused") /\ SameEnds("incorrect")
    BY <1>2, <1>6 DEF Killed, Running, Statuses, SameEnds
  <2> QED
    BY <1>1, <1>6, <1>10, <2>1, EndsKeep
<1>7. ASSUME UNCHANGED <<config, connected, todo, chan, out, shuffles, said, status>>,
             driver' \in {"waiting", "grace", "ended"}, outcome' \in {"none", "parsed", "error"}
      PROVE  Base' /\ Upper'
  <2>1. status' \in [Party -> Statuses] /\ SameEnds("refused") /\ SameEnds("incorrect")
    BY <1>2, <1>7 DEF SameEnds
  <2> QED
    BY <1>1, <1>7, <1>10, <2>1, EndsKeep
<1>8. CASE Driver
  <2>1. CASE Deadline
    BY <1>6, <2>1 DEF Deadline, unread
  <2>2. CASE FirstEnded
    BY <1>2, <1>7, <2>2 DEF FirstEnded, unread
  <2>3. CASE GraceOver
    BY <1>2, <1>6, <2>3 DEF GraceOver, unread
  <2>4. CASE Collect
    BY <1>7, <2>4 DEF Collect, unread
  <2> QED
    BY <1>8, <2>1, <2>2, <2>3, <2>4 DEF Driver
<1>9. CASE UNCHANGED vars
  BY <1>2, <1>7, <1>9 DEF vars, unread
<1> QED
  BY <1>4, <1>5, <1>8, <1>9 DEF Next

-----------------------------------------------------------------------------
(* What follows from it. *)

\* A place of a script is at some place of a case.
LEMMA InCase ==
  ASSUME Types, NEW p \in Nat
  PROVE  p % CaseLen \in 0 .. CaseLen - 1 /\ p \div CaseLen \in Int /\ CaseLen \in Nat \ {0}
<1>1. CaseLen \in Nat \ {0} /\ p \in Int
  BY ScriptIs DEF Types
<1> QED
  BY <1>1, ModSplit

\* A server has no more summaries than the case has repetitions.
LEMMA SaidBounded ==
  ASSUME Safe, NEW s \in Party
  PROVE  Len(said[s]) \in 0 .. config.reps
<1> DEFINE c == Pos(s) % CaseLen
<1>1. /\ Types /\ Len(said[s]) = Done(s, Summing(s), c) /\ Pos(s) \in Nat /\ config.reps \in Nat
  BY Numbers, SessionAssumption DEF Safe, Base, Upper, Counted, CountedAt, Types
<1>2. c \in 0 .. CaseLen - 1 /\ CaseLen \in Nat \ {0}
  BY <1>1, InCase
<1> HIDE DEF c
<1>3. CaseLen - 1 \in Nat /\ c \in Nat
  BY <1>2
<1>4. Done(s, Summing(s), c) \in Nat /\ Done(s, Summing(s), c) <= Done(s, Summing(s), CaseLen - 1)
  BY <1>2, <1>3, DoneNext
<1>5. CASE config.valid
  <2>1. Done(s, Summing(s), CaseLen - 1) = config.reps
    BY <1>1, <1>5, DoneAll DEF Types
  <2> QED
    BY <1>1, <1>4, <2>1
<1>6. CASE ~config.valid
  <2>1. CaseLen - 1 = 0
    BY <1>1, <1>6, CaseIs DEF CaseFacts, CaseLen, Types
  <2>2. Done(s, Summing(s), 0) = 0
    BY <1>3, DoneNext
  <2> QED
    BY <1>1, <1>4, <2>1, <2>2
<1> QED
  BY <1>5, <1>6

\* The types.
LEMMA SafeTypes ==
  ASSUME Safe
  PROVE  TypeOK
BY SaidBounded DEF Safe, Base, Types, Statuses, TypeOK

\* A server takes what its script expects.
LEMMA SafeTyped ==
  ASSUME Safe
  PROVE  TypedReceives
<1> SUFFICES ASSUME NEW s \in Party, chan[s] # <<>>, Is(s, "receive") \/ Is(s, "obey") \/ Is(s, "hear")
             PROVE  Head(chan[s]).kind = Expected(s)
  BY DEF TypedReceives
<1>1. todo[s] # <<>> /\ At(s).op \in Receives /\ Types /\ Where
  BY DEF Is, Receives, Safe, Base
<1>2. /\ Pos(s) + 1 \in 1 .. Whole /\ At(s) = Script(s)[Pos(s) + 1]
  <2>1. Pos(s) \in 0 .. Whole - 1 /\ At(s) = Script(s)[Pos(s) + 1] /\ Whole \in Nat
    BY <1>1, Stands, Numbers
  <2> QED
    BY <2>1
<1>3. Head(chan[s]).kind = MessageKind(Script(Peer(s))[Pos(s) + 1])
  BY <1>1, ReceiverLags DEF Safe, Base
<1>4. CASE At(s).op = "receive"
  <2>1. At(s).kind = MessageKind(Script(Peer(s))[Pos(s) + 1])
    BY <1>1, <1>2, <1>4, Places DEF Types
  <2> QED
    BY <1>3, <1>4, <2>1 DEF Expected
<1>5. CASE At(s).op = "obey"
  <2>1. Script(Peer(s))[Pos(s) + 1].op = "decide"
    BY <1>1, <1>2, <1>5, Places DEF Types
  <2> QED
    BY <1>3, <1>5, <2>1 DEF Expected, MessageKind
<1>6. CASE At(s).op = "hear"
  <2>1. Script(Peer(s))[Pos(s) + 1].op = "tell"
    BY <1>1, <1>2, <1>6, Places DEF Types
  <2> QED
    BY <1>3, <1>6, <2>1 DEF Expected, MessageKind
<1> QED
  BY <1>1, <1>4, <1>5, <1>6 DEF Receives

\* A server that is connected, runs and cannot go on is stopped by its pipe, or waits
\* for its peer, which runs: for a message, or for room on the connection.
LEMMA StuckWaits ==
  ASSUME Safe, NEW s \in Party, Running(s), connected[s], ~Ready(s), ~StoppedByPipe(s)
  PROVE  /\ todo[s] # <<>> /\ Running(Peer(s))
         /\ \/ At(s).op \in Receives /\ Reads(s) /\ chan[s] = <<>>
            \/ At(s).op \in Sends /\ ~Room(s)
<1>1. Types /\ Where /\ Link
  BY DEF Safe, Base
<1>2. todo[s] # <<>>
  BY DEF Ready
<1>3. \A o : At(s).op = o <=> Is(s, o)
  BY <1>2 DEF Is
<1>4. /\ At(s) = Script(s)[Pos(s) + 1] /\ Pos(s) + 1 \in 1 .. Whole /\ config \in Configs
  BY <1>1, <1>2, Stands, ScriptIs DEF Types
<1>5. /\ At(s).op \in Sends \cup Receives \cup {"shuffle", "print", "demand"}
      /\ s = ALICE => At(s).op \notin {"tell", "obey"}
      /\ s = BOB => At(s).op \notin {"decide", "hear"}
  BY <1>4, Places, PeerIs
<1>6. ~(At(s).op = "print")
  BY <1>3 DEF Ready, StoppedByPipe
<1>7. At(s).op \notin {"shuffle", "demand"}
  BY <1>3 DEF Ready
<1>8. CASE At(s).op \in Receives
  <2>1. Is(s, "receive") \/ Is(s, IF s = ALICE THEN "hear" ELSE "obey")
    BY <1>3, <1>5, <1>8, PeerIs DEF Receives
  <2>2. Reads(s)
    BY <2>1 DEF Reads
  <2> QED
    BY <1>2, <1>8, <2>2 DEF Ready
<1>9. CASE At(s).op \in Sends
  <2>1. Writes(s)
    <3>1. CASE s = ALICE
      BY <1>3, <1>5, <1>9, <3>1 DEF Writes, Sends
    <3>2. CASE s = BOB
      <4>1. Is(s, "tell") => PipeTakes(s, config.lines)
        BY DEF StoppedByPipe
      <4> QED
        BY <1>3, <1>5, <1>9, <3>2, <4>1, PeerIs DEF Writes, Sends
    <3> QED
      BY <3>1, <3>2, PeerIs
  <2> QED
    BY <1>2, <1>9, <2>1 DEF Ready
<1> QED
  BY <1>5, <1>6, <1>7, <1>8, <1>9

\* The servers never both stand at a send: whoever is to send is not behind, so both
\* would be at one place, where one of them receives.
LEMMA SenderFinds ==
  ASSUME Safe, NEW s \in Party, todo[s] # <<>>, todo[Peer(s)] # <<>>,
         At(s).op \in Sends, At(Peer(s)).op \in Sends
  PROVE  FALSE
<1> DEFINE t == Peer(s)
<1>1. Types /\ Where /\ Link /\ t \in Party /\ Peer(t) = s
  BY PeerIs DEF Safe, Base
<1>2. Pos(t) <= Pos(s)
  BY <1>1, SenderLeads
<1>3. Pos(s) <= Pos(t)
  <2> HIDE DEF t
  <2>1. At(t).op \in Sends /\ todo[t] # <<>>
    BY DEF t
  <2> QED
    BY <1>1, <2>1, SenderLeads
<1>4. /\ Pos(s) \in 0 .. Whole - 1 /\ At(s) = Script(s)[Pos(s) + 1] /\ Whole \in Nat
      /\ Pos(t) \in 0 .. Whole - 1 /\ At(t) = Script(t)[Pos(t) + 1]
  BY <1>1, Stands, Numbers
<1>5. Pos(s) = Pos(t) /\ Pos(s) + 1 \in 1 .. Whole
  BY <1>2, <1>3, <1>4
<1>6. Script(s)[Pos(s) + 1].op \in Sends /\ Script(Peer(s))[Pos(s) + 1].op \in Sends
  BY <1>4, <1>5
<1>7. Script(Peer(s))[Pos(s) + 1].op \in Receives
  BY <1>1, <1>5, <1>6, Places DEF Types
<1> QED
  BY <1>6, <1>7 DEF Sends, Receives

\* Two servers that both wait for a message do not wait for each other: where one
\* that is not ahead receives, the other has sent.
LEMMA NotBothRead ==
  ASSUME Safe, \A s \in Party : todo[s] # <<>> /\ At(s).op \in Receives /\ chan[s] = <<>>
  PROVE  FALSE
<1>3. Types /\ Where /\ Link
  BY DEF Safe, Base
<1>4. PICK s \in Party : Pos(Peer(s)) <= Pos(s)
  <2>1. Pos(ALICE) \in Int /\ Pos(BOB) \in Int
    BY <1>3, ScriptIs, PeerIs DEF Where, Types
  <2> QED
    BY <2>1, PeerIs
<1> DEFINE t == Peer(s)
<1>5. t \in Party /\ Peer(t) = s
  BY PeerIs
<1>6. /\ Pos(s) \in 0 .. Whole - 1 /\ Pos(t) \in 0 .. Whole - 1 /\ Whole \in Nat
      /\ At(s) = Script(s)[Pos(s) + 1] /\ At(t) = Script(t)[Pos(t) + 1]
  BY <1>3, <1>5, Stands, ScriptIs DEF Types
<1>7. /\ Script(t)[Pos(t) + 1].op \in Receives /\ Script(s)[Pos(s) + 1].op \in Receives
  BY <1>5, <1>6
<1>8. Script(s)[Pos(t) + 1].op \in Sends
  <2>1. Pos(t) + 1 \in 1 .. Whole /\ config \in Configs
    BY <1>3, <1>6 DEF Types
  <2> HIDE DEF t
  <2>2. Script(t)[Pos(t) + 1].op \in Receives <=> Script(Peer(t))[Pos(t) + 1].op \in Sends
    BY <1>5, <2>1, Places
  <2> QED
    BY <1>5, <1>7, <2>2
<1>9. Pos(t) < Pos(s)
  <2>1. Pos(t) # Pos(s)
    BY <1>7, <1>8 DEF Sends, Receives
  <2> QED
    BY <1>4, <1>6, <2>1
<1>10. Carries(chan[t], Script(s), Pos(t), Pos(s)) /\ chan[t] \in Seq(Message)
  BY <1>3, <1>4, <1>5 DEF Link, Linked, Types
<1> HIDE DEF t
<1>11. chan[t] # <<>>
  BY <1>6, <1>8, <1>9, <1>10, CarriesTake
<1> QED
  BY <1>5, <1>11

\* Two servers that are connected never wait for each other, however little the
\* connection holds: where one sends and the other reads, the message goes through.
LEMMA SafeMoves ==
  ASSUME Safe
  PROVE  HangsOnPipeOrDesertedOnly
<1>1. SUFFICES ASSUME NEW a \in Party, Running(a), \A s \in Party : ~Ready(s),
                      \A s \in Party : ~StoppedByPipe(s) /\ ~Deserted(s)
               PROVE  FALSE
  BY DEF HangsOnPipeOrDesertedOnly
<1>2. Peer(a) \in Party /\ Running(Peer(a))
  <2>1. CASE connected[a]
    BY <1>1, <2>1, StuckWaits, PeerIs
  <2>2. CASE ~connected[a]
    BY <1>1, <2>2, PeerIs DEF Deserted
  <2> QED
    BY <2>1, <2>2
<1>3. \A s \in Party : Running(s)
  BY <1>1, <1>2, PeerIs
<1>4. \A s \in Party : connected[s]
  <2>1. connected[ALICE] \in BOOLEAN /\ connected[BOB] \in BOOLEAN /\ (connected[ALICE] => connected[BOB])
    BY PeerIs DEF Safe, Base, Types, Met
  <2>2. ~CanAccept /\ ~CanConnect
    BY <1>1, PeerIs DEF Ready
  <2>3. connected[BOB]
    BY <1>3, <2>1, <2>2, PeerIs DEF CanConnect
  <2>4. connected[ALICE]
    BY <1>3, <2>2, <2>3, PeerIs DEF CanAccept
  <2> QED
    BY <2>3, <2>4, PeerIs
<1>5. \A s \in Party :
        /\ todo[s] # <<>>
        /\ \/ At(s).op \in Receives /\ Reads(s) /\ chan[s] = <<>>
           \/ At(s).op \in Sends /\ ~Room(s)
  BY <1>1, <1>3, <1>4, StuckWaits
<1>6. ASSUME NEW s \in Party, At(s).op \in Sends PROVE FALSE
  <2>1. Peer(s) \in Party /\ At(Peer(s)).op \notin Sends
    BY <1>5, <1>6, PeerIs, SenderFinds
  <2>2. Reads(Peer(s)) /\ chan[Peer(s)] = <<>>
    BY <1>5, <2>1
  <2>3. Room(s)
    BY <2>2 DEF Room
  <2>4. At(s).op \notin Receives
    BY <1>6 DEF Sends, Receives
  <2> QED
    BY <1>5, <2>3, <2>4
<1> QED
  BY <1>5, <1>6, NotBothRead

\* ALICE refuses right after she received, so BOB is at most that decision behind.
LEMMA RefusedNear ==
  ASSUME Safe, status[ALICE] = "refused"
  PROVE  /\ config.valid
         /\ Pos(BOB) = Pos(ALICE) \/ (Pos(BOB) = Pos(ALICE) - 1 /\ Pos(ALICE) \in 1 .. Whole)
         /\ Script(ALICE)[Pos(ALICE)].op = "decide"
<1>1. /\ Types /\ Where /\ Pos(ALICE) \in 0 .. Whole /\ Pos(BOB) \in Nat /\ Whole \in Nat /\ ALICE \in Party
      /\ BOB \in Party /\ Peer(ALICE) = BOB
  BY Numbers, PeerIs DEF Safe, Base
<1>2. Pos(ALICE) > 0 /\ Script(ALICE)[Pos(ALICE)].op = "decide" /\ Pos(ALICE) \in 1 .. Whole
  BY <1>1 DEF Safe, Upper, Refusal
<1>3. config.valid
  BY <1>1, <1>2 DEF Safe, Upper, Invalid
<1>4. CASE Pos(ALICE) <= Pos(BOB)
  <2>1. status[BOB] = "refused"
    BY <1>4 DEF Safe, Upper, Refusal
  <2> QED
    BY <1>2, <1>3, <2>1 DEF Safe, Upper, Refusal
<1>5. CASE Pos(BOB) < Pos(ALICE)
  <2>1. Linked(ALICE)
    BY <1>1, <1>5 DEF Safe, Base, Link
  <2>2. Script(ALICE)[Pos(ALICE) - 1].op \in Receives /\ Pos(ALICE) > 1
    BY <1>1, <1>2, After DEF Types
  <2>3. ~(Pos(ALICE) - 1 \in Pos(BOB) + 1 .. Pos(ALICE))
    BY <1>1, <2>1, <2>2 DEF Linked
  <2> QED
    BY <1>1, <1>2, <1>3, <1>5, <2>3
<1> QED
  BY <1>1, <1>4, <1>5

\* After a refusal both have begun as many shuffles.
LEMMA SafeRefused ==
  ASSUME Safe
  PROVE  RefusedTogether
<1> DEFINE a == Pos(ALICE)
           b == Pos(BOB)
<1> SUFFICES ASSUME status[ALICE] = "refused"
             PROVE  shuffles[ALICE] = shuffles[BOB]
  <2>1. \A s \in Party : status[s] = "refused" => status[ALICE] = "refused"
    BY PeerIs DEF Safe, Upper, Refusal
  <2> QED
    BY <2>1 DEF RefusedTogether
<1>1. /\ Types /\ b \in Nat /\ ALICE \in Party
      /\ shuffles[ALICE] = (a \div CaseLen) * config.reps + Done(ALICE, "shuffle", a % CaseLen)
      /\ shuffles[BOB] = (b \div CaseLen) * config.reps + Done(BOB, "shuffle", b % CaseLen)
  BY RefusedNear, Numbers, PeerIs DEF Safe, Base, Upper, Counted, CountedAt
<1>2. b % CaseLen \in 0 .. CaseLen - 1 /\ CaseLen \in Nat \ {0}
  BY <1>1, InCase
<1>3. Done(ALICE, "shuffle", b % CaseLen) = Done(BOB, "shuffle", b % CaseLen)
  <2>1. b % CaseLen \in 0 .. CaseLen
    BY <1>2
  <2> QED
    BY <1>1, <2>1, DoneBoth DEF Types
<1>4. CASE b = a
  BY <1>1, <1>3, <1>4
<1>5. CASE b = a - 1 /\ a \in 1 .. Whole
  <2>1. b \in 0 .. Whole - 1 /\ b + 1 = a /\ Whole \in Nat
    <3>1. Whole \in Nat
      BY ScriptIs, <1>1 DEF Types
    <3> QED
      BY <1>5, <3>1
  <2>2. Script(ALICE)[b + 1].op = "decide"
    BY <2>1, RefusedNear
  <2>3. /\ Case(ALICE)[(b % CaseLen) + 1].op # "shuffle"
        /\ a % CaseLen = (b % CaseLen) + 1 /\ a \div CaseLen = b \div CaseLen
    BY <1>1, <2>1, <2>2, NextPlace DEF Types
  <2>4. Done(ALICE, "shuffle", (b % CaseLen) + 1) = Done(ALICE, "shuffle", b % CaseLen)
    BY <1>2, <2>3, DoneNext
  <2> QED
    BY <1>1, <1>3, <2>3, <2>4
<1> QED
  BY <1>4, <1>5, RefusedNear

\* A server without script is at its end.
LEMMA DoneIsWhole ==
  ASSUME Safe, NEW s \in Party, todo[s] = <<>>
  PROVE  Pos(s) = Whole /\ \A r \in Party : Pos(r) <= Pos(s)
<1>1. Len(Script(s)) = Whole /\ Whole \in Nat
  BY ScriptIs DEF Safe, Base, Types
<1>2. Pos(s) = Whole
  BY <1>1 DEF Pos
<1> QED
  BY <1>1, <1>2, Numbers DEF Safe, Base

\* Servers that end by themselves end alike.
LEMMA SafeAlike ==
  ASSUME Safe, \A s \in Party : status[s] = "done" => todo[s] = <<>>
  PROVE  EndAlike
<1>1. ASSUME NEW s \in Party, status[s] = "incorrect",
             status[Peer(s)] \in {"done", "refused", "incorrect"}, status[Peer(s)] # "refused"
      PROVE  status[Peer(s)] = "incorrect"
  <2>1. CASE status[Peer(s)] = "done"
    <3>1. Pos(s) <= Pos(Peer(s))
      BY <2>1, DoneIsWhole, PeerIs
    <3> QED
      BY <1>1, <3>1 DEF Safe, Upper, Incorrect
  <2> QED
    BY <1>1, <2>1
<1>2. ASSUME status[ALICE] = "refused", status[BOB] \in {"done", "refused", "incorrect"}
      PROVE  status[BOB] = "refused"
  <2> SUFFICES ASSUME status[BOB] # "refused" PROVE FALSE
    OBVIOUS
  <2>1. ~(Pos(ALICE) <= Pos(BOB)) /\ Pos(ALICE) \in Nat /\ Pos(BOB) \in Nat
    BY <1>2, Numbers, PeerIs DEF Safe, Base, Upper, Refusal
  <2>2. status[BOB] # "done"
    BY <2>1, DoneIsWhole, PeerIs
  <2>3. status[BOB] # "incorrect"
    BY <1>2, <2>1, PeerIs DEF Safe, Upper, Incorrect
  <2> QED
    BY <1>2, <2>2, <2>3
<1>3. status[BOB] = "refused" => status[ALICE] = "refused"
  BY DEF Safe, Upper, Refusal
<1> SUFFICES ASSUME NEW s \in Party, status[s] \in {"done", "refused", "incorrect"},
                    status[Peer(s)] \in {"done", "refused", "incorrect"}
             PROVE  status[s] = status[Peer(s)]
  BY DEF EndAlike
<1>4. CASE status[s] = "refused" \/ status[Peer(s)] = "refused"
  BY <1>2, <1>3, <1>4, PeerIs
<1>5. CASE status[s] # "refused" /\ status[Peer(s)] # "refused"
  <2>1. status[s] = "incorrect" => status[Peer(s)] = "incorrect"
    BY <1>1, <1>5
  <2>2. status[Peer(s)] = "incorrect" => status[s] = "incorrect"
    BY <1>1, <1>5, PeerIs
  <2> QED
    BY <1>5, <2>1, <2>2
<1> QED
  BY <1>4, <1>5

\* Where both scripts are done every repetition of every case was run.
LEMMA SafeWhole ==
  ASSUME Safe, \A s \in Party : status[s] = "done" /\ todo[s] = <<>>
  PROVE  config.valid /\ \A s \in Party : todo[s] = <<>> /\ shuffles[s] = config.cases * config.reps
<1>1. /\ Types /\ CaseLen \in Nat \ {0} /\ Whole = config.cases * CaseLen
      /\ config.cases \in Nat \ {0} /\ config.reps \in Nat
  BY ScriptIs, SessionAssumption DEF Safe, Base, Types, Whole
<1>2. \A s \in Party : Pos(s) = Whole
  BY DoneIsWhole
<1>3. config.valid
  <2>1. Whole # 0
    BY <1>1, Z3
  <2> QED
    BY <1>2, <2>1, PeerIs DEF Safe, Upper, Invalid
<1>4. Whole % CaseLen = 0 /\ Whole \div CaseLen = config.cases
  <2>1. 0 \in 0 .. CaseLen - 1 /\ config.cases \in Int /\ Whole = config.cases * CaseLen + 0
    <3>1. config.cases * CaseLen \in Int
      BY <1>1, Z3
    <3> QED
      BY <1>1, <3>1
  <2>2. /\ (config.cases * CaseLen + 0) % CaseLen = 0
        /\ (config.cases * CaseLen + 0) \div CaseLen = config.cases
    BY <1>1, <2>1, ModDigit
  <2> QED
    BY <2>1, <2>2, Zenon
<1>5. ASSUME NEW s \in Party
      PROVE  shuffles[s] = config.cases * config.reps
  <2>1. shuffles[s] = config.cases * config.reps + Done(s, "shuffle", 0)
    BY <1>2, <1>3, <1>4 DEF Safe, Upper, Counted, CountedAt
  <2>2. Done(s, "shuffle", 0) = 0
    <3>1. 0 \in Nat
      OBVIOUS
    <3> QED
      BY <3>1, DoneNext
  <2>3. config.cases * config.reps + 0 = config.cases * config.reps
    BY <1>1, Z3
  <2> QED
    BY <2>1, <2>2, <2>3
<1> QED
  BY <1>3, <1>5

-----------------------------------------------------------------------------
(* The driver. *)

\* A process that ended stays as it ended, so the driver, which ends when both
\* have, leaves none; a process that is done has no script left; and a parsed
\* outcome stands for two that are done.
Inv ==
  /\ status \in [Party -> Statuses] /\ todo = [s \in Party |-> todo[s]]
  /\ driver \in {"waiting", "grace", "ended"}
  /\ Ended => \A s \in Party : ~Running(s)
  /\ \A s \in Party : status[s] = "done" => todo[s] = <<>>
  /\ outcome = "parsed" => Succeeded /\ Ended

\* What a step of process s may do: it runs, it may move in its own script and
\* end, and it is done only at the end of the script.
Own(s) ==
  /\ Running(s)
  /\ \/ status' = status /\ (todo' = todo \/ Advance(s))
     \/ \E how \in Statuses \ {"running", "done"} : End(s, how) /\ (todo' = todo \/ Advance(s))
     \/ todo[s] = <<>> /\ End(s, "done") /\ todo' = todo
  /\ UNCHANGED <<driver, outcome>>

\* The steps of the servers, and a crash, are of that kind.
LEMMA OwnSteps ==
  ASSUME Servers \/ \E s \in Party : Crash(s)
  PROVE  \E s \in Party : Own(s)
<1>1. ASSUME NEW s \in Party, Process(s) \/ Crash(s)
      PROVE  Own(s)
  <2>1. CASE Send(s)
    BY <2>1 DEF Send, Is, Own
  <2>2. CASE Receive(s)
    BY <2>2 DEF Receive, Is, Own
  <2>3. CASE Lose(s)
    BY <2>3 DEF Lose, Writes, Reads, Is, Own, Statuses
  <2>4. CASE BeginShuffle(s)
    BY <2>4 DEF BeginShuffle, Is, Own
  <2>5. CASE PrintLine(s)
    BY <2>5 DEF PrintLine, Is, Own
  <2>6. CASE Demand(s)
    <3>1. Running(s) /\ Advance(s) /\ UNCHANGED <<driver, outcome>>
      BY <2>6 DEF Demand, Is
    <3>2. status' = status \/ End(s, "incorrect")
      BY <2>6 DEF Demand
    <3> QED
      BY <3>1, <3>2 DEF Own, Statuses
  <2>7. CASE Exit(s)
    BY <2>7 DEF Exit, Own
  <2>8. CASE Crash(s)
    BY <2>8 DEF Crash, Own, Statuses
  <2> QED
    BY <1>1, <2>1, <2>2, <2>3, <2>4, <2>5, <2>6, <2>7, <2>8 DEF Process
<1>2. ALICE \in Party /\ BOB \in Party
  BY DEF Party
<1>3. ASSUME NEW ok \in BOOLEAN, Decide(ok)
      PROVE  Own(ALICE)
  <2>1. Running(ALICE) /\ Advance(ALICE) /\ UNCHANGED <<driver, outcome>>
    BY <1>3 DEF Decide, Is
  <2>2. status' = status \/ End(ALICE, "refused")
    BY <1>3 DEF Decide
  <2> QED
    BY <2>1, <2>2 DEF Own, Statuses
<1>4. CASE Obey
  <2>1. Running(BOB) /\ Advance(BOB) /\ UNCHANGED <<driver, outcome>>
    BY <1>4 DEF Obey, Is
  <2>2. status' = status \/ End(BOB, "refused")
    BY <1>4 DEF Obey
  <2>3. Own(BOB)
    BY <2>1, <2>2 DEF Own, Statuses
  <2> QED
    BY <1>2, <2>3
<1>5. CASE Hear
  <2>1. Own(ALICE)
    BY <1>5 DEF Hear, Is, Own
  <2> QED
    BY <1>2, <2>1
<1>6. ASSUME NEW exact \in BOOLEAN, NEW indices \in BOOLEAN, Tell(exact, indices)
      PROVE  Own(BOB)
  BY <1>6 DEF Tell, Is, Own
<1>7. CASE Undecoded
  <2>1. Own(BOB)
    BY <1>7 DEF Undecoded, Is, Own, Statuses
  <2> QED
    BY <1>2, <2>1
<1>8. CASE Connect \/ AcceptPeer
  <2>1. Own(BOB) \/ Own(ALICE)
    BY <1>8 DEF Connect, CanConnect, AcceptPeer, CanAccept, Own
  <2> QED
    BY <1>2, <2>1
<1> QED
  BY <1>1, <1>2, <1>3, <1>4, <1>5, <1>6, <1>7, <1>8 DEF Servers

\* Such a step keeps the invariant: it is over once the driver has ended.
LEMMA OwnKeeps ==
  ASSUME Inv, NEW s \in Party, Own(s)
  PROVE  Inv'
<1>1. ~Ended /\ outcome # "parsed" /\ driver' = driver /\ outcome' = outcome
  BY DEF Inv, Own
<1>2. status' \in [Party -> Statuses]
  BY DEF Inv, Own, End, Statuses
<1>3. todo' = [q \in Party |-> todo'[q]]
  BY DEF Inv, Own, Advance
<1>4. ASSUME NEW q \in Party, status'[q] = "done"
      PROVE  todo'[q] = <<>>
  <2>1. CASE q # s
    <3>1. status'[q] = status[q]
      BY <2>1 DEF Inv, Own, End
    <3>2. todo'[q] = todo[q]
      BY <2>1 DEF Inv, Own, Advance
    <3> QED
      BY <1>4, <3>1, <3>2 DEF Inv
  <2>2. CASE q = s
    <3>1. status[s] # "done"
      BY DEF Own, Running
    <3>2. \A how : End(s, how) => status'[s] = how
      BY DEF Inv, End
    <3>3. todo[s] = <<>> /\ todo' = todo
      BY <1>4, <2>2, <3>1, <3>2 DEF Own
    <3> QED
      BY <2>2, <3>3
  <2> QED
    BY <2>1, <2>2
<1> QED
  BY <1>1, <1>2, <1>3, <1>4 DEF Inv, Ended

\* The driver ends only when nothing runs.
LEMMA DriverKeeps ==
  ASSUME Inv, Driver
  PROVE  Inv'
<1> USE DEF Inv
<1>1. CASE Deadline \/ GraceOver
  <2>1. todo' = todo /\ outcome' \in {outcome, "error"} /\ driver' \in {driver, "ended"}
    BY <1>1 DEF Deadline, GraceOver, unread
  <2>2. status' = [s \in Party |-> IF Running(s) THEN "killed" ELSE status[s]]
    BY <1>1 DEF Deadline, GraceOver, Killed, Stopped
  <2>3. status' \in [Party -> Statuses]
    BY <2>2 DEF Statuses
  <2>4. \A s \in Party : status'[s] # "running" /\ (status'[s] = "done" => status[s] = "done")
    BY <2>2 DEF Running
  <2>5. outcome' # "parsed"
    BY <1>1 DEF Deadline, GraceOver, Ended
  <2> QED
    BY <2>1, <2>3, <2>4, <2>5 DEF Running, Ended
<1>2. CASE FirstEnded
  <2>1. UNCHANGED <<todo, status, outcome>> /\ driver' = "grace" /\ outcome # "parsed"
    BY <1>2 DEF FirstEnded, unread, Ended
  <2> QED
    BY <2>1 DEF Ended
<1>3. CASE Collect
  <2>1. UNCHANGED <<todo, status>> /\ driver' = "ended" /\ (outcome' = "parsed" => Succeeded)
    BY <1>3 DEF Collect, unread
  <2>2. \A s \in Party : ~Running(s)
    BY <1>3 DEF Collect
  <2> QED
    BY <2>1, <2>2 DEF Ended, Succeeded, Running
<1> QED
  BY <1>1, <1>2, <1>3 DEF Driver

\* The driver's invariant is inductive.
THEOREM DriverInductive == Spec => []Inv
<1>1. Init => Inv
  BY DEF Init, Inv, Statuses, Ended, Succeeded
<1>2. Inv /\ [Next]_vars => Inv'
  <2> SUFFICES ASSUME Inv, [Next]_vars
               PROVE  Inv'
    OBVIOUS
  <2>1. CASE Servers \/ \E s \in Party : Crash(s)
    BY <2>1, OwnSteps, OwnKeeps
  <2>2. CASE Driver
    BY <2>2, DriverKeeps
  <2>3. CASE UNCHANGED vars
    BY <2>3 DEF vars, Inv, Ended, Succeeded, Running
  <2> QED
    BY <2>1, <2>2, <2>3 DEF Next
<1> QED
  BY <1>1, <1>2, PTL DEF Spec

\* When the driver has ended no process is left, for any script: they may hang,
\* crash, lose each other or fill their pipes.
THEOREM NoneLeft == Spec => []NothingLeft
<1>1. Inv => NothingLeft
  BY DEF Inv, NothingLeft
<1> QED
  BY <1>1, DriverInductive, PTL

\* A run is parsed only if both processes came to the ends of their scripts.
THEOREM ParsedWasFinished ==
  Spec => [](outcome = "parsed" => \A s \in Party : status[s] = "done" /\ todo[s] = <<>>)
<1>1. Inv => (outcome = "parsed" => \A s \in Party : status[s] = "done" /\ todo[s] = <<>>)
  BY DEF Inv, Succeeded
<1> QED
  BY <1>1, DriverInductive, PTL

-----------------------------------------------------------------------------
(* The theorems about the servers. *)

\* The invariant of the servers is inductive.
THEOREM ServersInductive == Spec => []Safe
<1>1. Init => Safe
  BY SafeInit
<1>2. Safe /\ [Next]_vars => Safe'
  BY SafeNext
<1> QED
  BY <1>1, <1>2, PTL DEF Spec

\* The types of Session; in particular a server never has more summaries of a case
\* than the case has repetitions.
THEOREM TypeCorrect == Spec => []TypeOK
<1>1. Safe => TypeOK
  BY SafeTypes
<1> QED
  BY <1>1, ServersInductive, PTL

\* On a connection of fixed sizes and no types, a server takes only messages of the
\* kind that its script expects, in every mode and however the two interleave.
THEOREM ReceivesAreTyped == Spec => []TypedReceives
<1>1. Safe => TypedReceives
  BY SafeTyped
<1> QED
  BY <1>1, ServersInductive, PTL

\* Once one server has refused, both have begun equally many shuffles, for any
\* command line and however the two interleave.
THEOREM RefusalsAreShared == Spec => []RefusedTogether
<1>1. Safe => RefusedTogether
  BY SafeRefused
<1> QED
  BY <1>1, ServersInductive, PTL

\* The messages of the two servers never hang, in any mode, whatever fails and however
\* little the connection holds: if one runs and neither can go on, one is in a write to
\* a full pipe or waits for a connection with a peer that has ended.
THEOREM HangsExplained == Spec => []HangsOnPipeOrDesertedOnly
<1>1. Safe => HangsOnPipeOrDesertedOnly
  BY SafeMoves
<1> QED
  BY <1>1, ServersInductive, PTL

\* Two servers that end by themselves end alike: done, refused or incorrect, by what
\* each computes alone from the messages it got.
THEOREM EndsAreAlike == Spec => []EndAlike
<1>1. Safe /\ Inv => EndAlike
  BY SafeAlike DEF Inv
<1> QED
  BY <1>1, ServersInductive, DriverInductive, PTL

\* Return codes are enough for the driver: if both are zero, the parameters fitted and
\* both servers shuffled in every repetition of every case.
THEOREM ParsedRunsAreWhole == Spec => []ParsedIsWholeRun
<1>1. ASSUME Safe, Inv, outcome = "parsed"
      PROVE  /\ config.valid
             /\ \A s \in Party : todo[s] = <<>> /\ shuffles[s] = config.cases * config.reps
  <2>1. \A s \in Party : status[s] = "done" /\ todo[s] = <<>>
    BY <1>1 DEF Inv, Succeeded
  <2> QED
    BY <1>1, <2>1, SafeWhole
<1>2. Safe /\ Inv => ParsedIsWholeRun
  BY <1>1 DEF ParsedIsWholeRun
<1> QED
  BY <1>2, ServersInductive, DriverInductive, PTL

-----------------------------------------------------------------------------
(* The order of a retrieval. *)

\* A piece that neither decides nor shuffles.
Plain(x) == x \in Seq(Step) /\ \A i \in 1 .. Len(x) : x[i].op \notin {"decide", "shuffle"}

\* Before place i, since the last shuffle or demand, ALICE received and decided.
Before(x, i) ==
  \E w \in 1 .. i - 1 :
     /\ \A k \in w .. i - 1 : x[k].op \notin {"shuffle", "demand"}
     /\ \E k \in w .. i - 1 : x[k].op = "receive"
     /\ \E k \in w .. i - 1 : x[k].op = "decide"

\* ALICE shuffles after she received and decided, and then sends and receives; and
\* after she decided she shuffles.
Ordered(x) ==
  /\ x \in Seq(Step)
  /\ \A i \in 1 .. Len(x) :
       x[i].op = "shuffle" =>
         /\ Before(x, i) /\ i + 2 <= Len(x)
         /\ x[i + 1].op = "send" /\ x[i + 2].op = "receive"
  /\ \A i \in 1 .. Len(x) :
       x[i].op = "decide" => \E k \in i + 1 .. Len(x) : x[k].op = "shuffle"

\* What comes before a shuffle, and how it begins.
Enters(x) == x \in Seq(Step) /\ Never(x, "shuffle") /\ Before(x, Len(x) + 1)
Begins(x) ==
  /\ x \in Seq(Step) /\ Len(x) > 2
  /\ x[1].op = "shuffle" /\ x[2].op = "send" /\ x[3].op = "receive"
  /\ \A i \in 2 .. Len(x) : x[i].op \notin {"decide", "shuffle"}

\* What was before a place was so in a longer piece.
LEMMA BeforeShift ==
  ASSUME NEW x, NEW a, NEW i \in Nat, NEW n \in Nat, Before(x, i),
         \A j \in 1 .. i - 1 : a[n + j] = x[j]
  PROVE  Before(a, n + i)
<1>1. PICK w \in 1 .. i - 1 :
        /\ \A k \in w .. i - 1 : x[k].op \notin {"shuffle", "demand"}
        /\ \E k \in w .. i - 1 : x[k].op = "receive"
        /\ \E k \in w .. i - 1 : x[k].op = "decide"
  BY DEF Before
<1>2. PICK p \in w .. i - 1, q \in w .. i - 1 : x[p].op = "receive" /\ x[q].op = "decide"
  BY <1>1
<1>3. ASSUME NEW k \in n + w .. (n + i) - 1 PROVE a[k].op \notin {"shuffle", "demand"}
  <2>1. k - n \in w .. i - 1 /\ k - n \in 1 .. i - 1 /\ n + (k - n) = k
    OBVIOUS
  <2>2. a[n + (k - n)] = x[k - n]
    BY <2>1
  <2> QED
    BY <1>1, <2>1, <2>2
<1>4. n + p \in n + w .. (n + i) - 1 /\ n + q \in n + w .. (n + i) - 1 /\ n + w \in 1 .. (n + i) - 1
  OBVIOUS
<1>5. a[n + p].op = "receive" /\ a[n + q].op = "decide"
  <2>1. p \in 1 .. i - 1 /\ q \in 1 .. i - 1
    OBVIOUS
  <2> QED
    BY <1>2, <2>1
<1> QED
  BY <1>3, <1>4, <1>5 DEF Before

\* Two plain pieces in a row are plain.
LEMMA PlainConcat ==
  ASSUME NEW x, NEW u, Plain(x), Plain(u)
  PROVE  Plain(x \o u)
<1> DEFINE n == Len(x)
           m == Len(u)
           a == x \o u
<1>1. /\ x \in Seq(Step) /\ u \in Seq(Step)
      /\ \A i \in 1 .. n : x[i].op \notin {"decide", "shuffle"}
      /\ \A i \in 1 .. m : u[i].op \notin {"decide", "shuffle"}
  BY DEF Plain
<1>2. /\ n \in Nat /\ m \in Nat /\ a \in Seq(Step) /\ Len(a) = n + m
      /\ \A i \in 1 .. n + m : a[i] = IF i <= n THEN x[i] ELSE u[i - n]
  BY <1>1, Glue
<1> HIDE DEF a, n, m
<1>3. ASSUME NEW i \in 1 .. n + m PROVE a[i].op \notin {"decide", "shuffle"}
  <2>1. CASE i <= n
    BY <1>1, <1>2, <2>1
  <2>2. CASE i > n
    <3>1. i - n \in 1 .. m /\ a[i] = u[i - n]
      BY <1>2, <2>2
    <3> QED
      BY <1>1, <3>1
  <2> QED
    BY <1>2, <2>1, <2>2
<1> QED
  BY <1>2, <1>3 DEF Plain, a

\* A plain piece is in order.
LEMMA PlainOrdered ==
  ASSUME NEW x, Plain(x)
  PROVE  Ordered(x)
BY DEF Plain, Ordered

\* Two pieces in order, in a row, are in order.
LEMMA OrderedConcat ==
  ASSUME NEW x, NEW u, Ordered(x), Ordered(u)
  PROVE  Ordered(x \o u)
<1> DEFINE n == Len(x)
           m == Len(u)
           a == x \o u
<1>1. x \in Seq(Step) /\ u \in Seq(Step)
  BY DEF Ordered
<1>2. /\ n \in Nat /\ m \in Nat /\ a \in Seq(Step) /\ Len(a) = n + m
      /\ \A i \in 1 .. n + m : a[i] = IF i <= n THEN x[i] ELSE u[i - n]
  BY <1>1, Glue
<1>3. \A i \in 1 .. n : a[i] = x[i]
  BY <1>2
<1>4. \A j \in 1 .. m : a[n + j] = u[j] /\ n + j \in 1 .. n + m
  <2> HIDE DEF a, n, m
  <2>1. ASSUME NEW j \in 1 .. m PROVE n + j \in 1 .. n + m /\ ~(n + j <= n) /\ (n + j) - n = j
    BY <1>2
  <2> QED
    BY <1>2, <2>1
<1>5. /\ \A i \in 1 .. n :
           x[i].op = "shuffle" =>
             /\ Before(x, i) /\ i + 2 <= n
             /\ x[i + 1].op = "send" /\ x[i + 2].op = "receive"
      /\ \A i \in 1 .. n : x[i].op = "decide" => \E k \in i + 1 .. n : x[k].op = "shuffle"
  BY DEF Ordered
<1>6. /\ \A i \in 1 .. m :
           u[i].op = "shuffle" =>
             /\ Before(u, i) /\ i + 2 <= m
             /\ u[i + 1].op = "send" /\ u[i + 2].op = "receive"
      /\ \A i \in 1 .. m : u[i].op = "decide" => \E k \in i + 1 .. m : u[k].op = "shuffle"
  BY DEF Ordered
<1> HIDE DEF a, n, m
<1>7. ASSUME NEW i \in 1 .. n + m
      PROVE  i \in 1 .. n \/ \E j \in 1 .. m : i = n + j
  <2>1. i <= n \/ (i - n \in 1 .. m /\ i = n + (i - n))
    BY <1>2
  <2> QED
    BY <1>2, <2>1
<1>8. ASSUME NEW i \in 1 .. n + m, a[i].op = "shuffle"
      PROVE  /\ Before(a, i) /\ i + 2 <= n + m
             /\ a[i + 1].op = "send" /\ a[i + 2].op = "receive"
  <2>1. CASE i \in 1 .. n
    <3>1. x[i].op = "shuffle"
      BY <1>3, <1>8, <2>1
    <3>2. Before(x, i) /\ i + 2 <= n /\ x[i + 1].op = "send" /\ x[i + 2].op = "receive"
      BY <1>5, <2>1, <3>1
    <3>3. i + 1 \in 1 .. n /\ i + 2 \in 1 .. n /\ i + 2 <= n + m
      BY <1>2, <3>2
    <3>4. Before(a, 0 + i)
      <4>1. \A j \in 1 .. i - 1 : a[0 + j] = x[j]
        BY <1>2, <1>3, <2>1
      <4>2. i \in Nat /\ 0 \in Nat
        BY <2>1
      <4> QED
        BY <3>2, <4>1, <4>2, BeforeShift
    <3>5. 0 + i = i
      BY <2>1
    <3> QED
      BY <1>3, <3>2, <3>3, <3>4, <3>5
  <2>2. CASE \E j \in 1 .. m : i = n + j
    <3>1. PICK j \in 1 .. m : i = n + j
      BY <2>2
    <3>2. u[j].op = "shuffle"
      BY <1>4, <1>8, <3>1
    <3>3. Before(u, j) /\ j + 2 <= m /\ u[j + 1].op = "send" /\ u[j + 2].op = "receive"
      BY <1>6, <3>2
    <3>4. /\ j + 1 \in 1 .. m /\ j + 2 \in 1 .. m
          /\ i + 1 = n + (j + 1) /\ i + 2 = n + (j + 2) /\ i + 2 <= n + m
      BY <1>2, <3>1, <3>3
    <3>5. a[i + 1] = u[j + 1] /\ a[i + 2] = u[j + 2]
      BY <1>4, <3>4
    <3>6. Before(a, n + j)
      <4>1. \A k \in 1 .. j - 1 : a[n + k] = u[k]
        BY <1>2, <1>4
      <4>2. j \in Nat
        BY <1>2
      <4> QED
        BY <1>2, <3>3, <4>1, <4>2, BeforeShift
    <3> QED
      BY <3>1, <3>3, <3>4, <3>5, <3>6
  <2> QED
    BY <1>7, <2>1, <2>2
<1>9. ASSUME NEW i \in 1 .. n + m, a[i].op = "decide"
      PROVE  \E k \in i + 1 .. n + m : a[k].op = "shuffle"
  <2>1. CASE i \in 1 .. n
    <3>1. PICK k \in i + 1 .. n : x[k].op = "shuffle"
      BY <1>3, <1>5, <1>9, <2>1
    <3>2. k \in 1 .. n /\ k \in i + 1 .. n + m
      BY <1>2, <2>1
    <3> QED
      BY <1>3, <3>1, <3>2
  <2>2. CASE \E j \in 1 .. m : i = n + j
    <3>1. PICK j \in 1 .. m : i = n + j
      BY <2>2
    <3>2. PICK k \in j + 1 .. m : u[k].op = "shuffle"
      BY <1>4, <1>6, <1>9, <3>1
    <3>3. k \in 1 .. m /\ n + k \in i + 1 .. n + m
      BY <1>2, <3>1
    <3> QED
      BY <1>4, <3>2, <3>3
  <2> QED
    BY <1>7, <2>1, <2>2
<1>10. Ordered(a)
  BY <1>2, <1>8, <1>9 DEF Ordered
<1> QED
  BY <1>10 DEF a

\* A piece in order stays so when it is repeated.
LEMMA OrderedRepeat ==
  ASSUME NEW x, Ordered(x), Len(x) > 0, NEW m \in Nat
  PROVE  Ordered(Repeat(x, m))
<1> DEFINE n == Len(x)
           a == Repeat(x, m)
<1>1. /\ n \in Nat \ {0} /\ m * n \in Nat /\ a \in Seq(Step) /\ Len(a) = m * n
      /\ \A q \in 0 .. m - 1, j \in 1 .. n : a[q * n + j] = x[j] /\ q * n + j \in 1 .. m * n
  <2>1. x \in Seq(Step)
    BY DEF Ordered
  <2> QED
    BY <2>1, RepeatAt
<1>2. /\ \A i \in 1 .. n :
           x[i].op = "shuffle" =>
             /\ Before(x, i) /\ i + 2 <= n
             /\ x[i + 1].op = "send" /\ x[i + 2].op = "receive"
      /\ \A i \in 1 .. n : x[i].op = "decide" => \E k \in i + 1 .. n : x[k].op = "shuffle"
  BY DEF Ordered
<1> HIDE DEF n, a
<1>3. \A q \in 0 .. m - 1 : q * n \in Nat
  BY <1>1, Z3
<1>4. ASSUME NEW i \in 1 .. m * n, a[i].op = "shuffle"
      PROVE  /\ Before(a, i) /\ i + 2 <= m * n
             /\ a[i + 1].op = "send" /\ a[i + 2].op = "receive"
  <2>1. PICK q \in 0 .. m - 1, j \in 1 .. n : i = q * n + j
    BY <1>1, TurnOf
  <2>2. x[j].op = "shuffle"
    BY <1>1, <1>4, <2>1
  <2>3. Before(x, j) /\ j + 2 <= n /\ x[j + 1].op = "send" /\ x[j + 2].op = "receive"
    BY <1>2, <2>2
  <2>4. /\ j + 1 \in 1 .. n /\ j + 2 \in 1 .. n
        /\ i + 1 = q * n + (j + 1) /\ i + 2 = q * n + (j + 2)
    <3>1. n \in Nat /\ q * n \in Nat
      BY <1>1, <1>3
    <3> QED
      BY <2>1, <2>3, <3>1
  <2>5. a[i + 1] = x[j + 1] /\ a[i + 2] = x[j + 2] /\ i + 2 \in 1 .. m * n
    <3>1. a[q * n + (j + 1)] = x[j + 1]
      BY <1>1, <2>1, <2>4
    <3>2. a[q * n + (j + 2)] = x[j + 2] /\ q * n + (j + 2) \in 1 .. m * n
      BY <1>1, <2>1, <2>4
    <3> QED
      BY <2>4, <3>1, <3>2
  <2>6. i + 2 <= m * n
    BY <1>1, <2>5
  <2>7. Before(a, q * n + j)
    <3>1. \A k \in 1 .. j - 1 : k \in 1 .. n
      BY <1>1
    <3>2. \A k \in 1 .. j - 1 : a[q * n + k] = x[k]
      BY <1>1, <3>1
    <3>3. j \in Nat /\ q * n \in Nat
      BY <1>1, <1>3
    <3> QED
      BY <2>3, <3>2, <3>3, BeforeShift
  <2> QED
    BY <2>1, <2>3, <2>5, <2>6, <2>7
<1>5. ASSUME NEW i \in 1 .. m * n, a[i].op = "decide"
      PROVE  \E k \in i + 1 .. m * n : a[k].op = "shuffle"
  <2>1. PICK q \in 0 .. m - 1, j \in 1 .. n : i = q * n + j
    BY <1>1, TurnOf
  <2>2. PICK k \in j + 1 .. n : x[k].op = "shuffle"
    BY <1>1, <1>2, <1>5, <2>1
  <2>3. k \in 1 .. n
    BY <1>1
  <2>4. a[q * n + k].op = "shuffle" /\ q * n + k \in 1 .. m * n
    BY <1>1, <2>2, <2>3
  <2>5. q * n + k \in i + 1 .. m * n
    BY <1>1, <1>3, <2>1, <2>4
  <2> QED
    BY <2>4, <2>5
<1>6. Ordered(a)
  BY <1>1, <1>4, <1>5 DEF Ordered
<1> QED
  BY <1>6 DEF a

\* A shuffle that is entered in order and begins in order is in order.
LEMMA EntersOrdered ==
  ASSUME NEW x, NEW u, Enters(x), Begins(u)
  PROVE  Ordered(x \o u)
<1> DEFINE n == Len(x)
           m == Len(u)
           a == x \o u
<1>1. x \in Seq(Step) /\ Before(x, n + 1) /\ \A i \in 1 .. n : x[i].op # "shuffle"
  BY DEF Enters, Never
<1>2. /\ u \in Seq(Step) /\ m > 2
      /\ u[1].op = "shuffle" /\ u[2].op = "send" /\ u[3].op = "receive"
      /\ \A i \in 2 .. m : u[i].op \notin {"decide", "shuffle"}
  BY DEF Begins
<1>3. /\ n \in Nat /\ m \in Nat /\ a \in Seq(Step) /\ Len(a) = n + m
      /\ \A i \in 1 .. n + m : a[i] = IF i <= n THEN x[i] ELSE u[i - n]
  BY <1>1, <1>2, Glue
<1> HIDE DEF a, n, m
<1>4. \A i \in 1 .. n : a[i] = x[i]
  BY <1>3
<1>5. ASSUME NEW j \in 1 .. m PROVE n + j \in 1 .. n + m /\ a[n + j] = u[j]
  <2>1. n + j \in 1 .. n + m /\ ~(n + j <= n) /\ (n + j) - n = j
    BY <1>3
  <2> QED
    BY <1>3, <2>1
<1>6. ASSUME NEW i \in 1 .. n + m
      PROVE  i \in 1 .. n \/ i = n + 1 \/ \E j \in 2 .. m : i = n + j
  <2>1. i <= n \/ i = n + 1 \/ (i - n \in 2 .. m /\ i = n + (i - n))
    BY <1>3
  <2> QED
    BY <1>3, <2>1
<1>7. a[n + 1] = u[1] /\ a[n + 2] = u[2] /\ a[n + 3] = u[3]
  <2>1. 1 \in 1 .. m /\ 2 \in 1 .. m /\ 3 \in 1 .. m
    BY <1>2, <1>3
  <2> QED
    BY <1>5, <2>1
<1>11. Before(a, n + 1)
  <2>1. \A j \in 1 .. (n + 1) - 1 : a[0 + j] = x[j]
    BY <1>3, <1>4
  <2>2. n + 1 \in Nat /\ 0 \in Nat /\ 0 + (n + 1) = n + 1
    BY <1>3
  <2>3. Before(a, 0 + (n + 1))
    BY <1>1, <2>1, <2>2, BeforeShift
  <2> QED
    BY <2>2, <2>3
<1>8. ASSUME NEW i \in 1 .. n + m, a[i].op = "shuffle"
      PROVE  /\ Before(a, i) /\ i + 2 <= n + m
             /\ a[i + 1].op = "send" /\ a[i + 2].op = "receive"
  <2>1. i \notin 1 .. n
    BY <1>1, <1>4, <1>8
  <2>2. ~\E j \in 2 .. m : i = n + j
    <3> SUFFICES ASSUME NEW j \in 2 .. m, i = n + j PROVE FALSE
      OBVIOUS
    <3>1. j \in 1 .. m
      BY <1>3
    <3> QED
      BY <1>2, <1>5, <1>8, <3>1
  <2>3. i = n + 1
    BY <1>6, <2>1, <2>2
  <2>4. i + 1 = n + 2 /\ i + 2 = n + 3 /\ i + 2 <= n + m
    BY <1>2, <1>3, <2>3
  <2> QED
    BY <1>2, <1>7, <1>11, <2>3, <2>4
<1>9. ASSUME NEW i \in 1 .. n + m, a[i].op = "decide"
      PROVE  \E k \in i + 1 .. n + m : a[k].op = "shuffle"
  <2>1. i \in 1 .. n
    <3>1. i # n + 1
      BY <1>2, <1>7, <1>9
    <3>2. ~\E j \in 2 .. m : i = n + j
      <4> SUFFICES ASSUME NEW j \in 2 .. m, i = n + j PROVE FALSE
        OBVIOUS
      <4>1. j \in 1 .. m
        BY <1>3
      <4> QED
        BY <1>2, <1>5, <1>9, <4>1
    <3> QED
      BY <1>6, <3>1, <3>2
  <2>2. n + 1 \in i + 1 .. n + m
    BY <1>2, <1>3, <2>1
  <2> QED
    BY <1>2, <1>7, <2>2
<1>10. Ordered(a)
  BY <1>3, <1>8, <1>9 DEF Ordered
<1> QED
  BY <1>10 DEF a

\* Single operations, what is said, and nothing.
LEMMA PlainOne ==
  /\ Plain(<<>>)
  /\ \A e \in Step : e.op \notin {"decide", "shuffle"} => Plain(<<e>>)
  /\ \A s, t \in Party : \A k \in Kinds : Plain(Says(s, t, k))
  /\ \A k \in Spots : Plain(<<Prints(k)>>)
<1>1. Plain(<<>>)
  BY DEF Plain
<1>2. ASSUME NEW e \in Step, e.op \notin {"decide", "shuffle"} PROVE Plain(<<e>>)
  <2> DEFINE x == <<e>>
  <2>1. x \in Seq(Step) /\ Len(x) = 1 /\ x[1] = e
    OBVIOUS
  <2> HIDE DEF x
  <2>2. Plain(x)
    BY <1>2, <2>1 DEF Plain
  <2> QED
    BY <2>2 DEF x
<1>3. ASSUME NEW s \in Party, NEW t \in Party, NEW k \in Kinds PROVE Plain(Says(s, t, k))
  <2>1. Plain(<<Tx(k)>>) /\ Plain(<<Rx(k)>>)
    BY <1>2, SpokenAre
  <2> QED
    BY <2>1 DEF Says
<1>4. \A k \in Spots : Plain(<<Prints(k)>>)
  BY <1>2, PrintsAre
<1> QED
  BY <1>1, <1>2, <1>3, <1>4

\* The parts that are not near a shuffle are plain.
LEMMA PlainParts ==
  /\ Plain(Front(ALICE)) /\ Plain(Keys(ALICE)) /\ Plain(Compress(ALICE))
  /\ Plain(Respond(ALICE)) /\ Plain(Summary(ALICE)) /\ Plain(<<Prints("done")>>)
<1>1. \A s, t \in Party : \A k \in Kinds : Plain(Says(s, t, k))
  BY PlainOne
<1>10. \A k \in Spots : Plain(<<Prints(k)>>)
  BY PlainOne
<1>2. ALICE \in Party /\ BOB \in Party
  BY PeerIs
<1>3. Plain(Keys(ALICE)) /\ Plain(Respond(ALICE))
  <2> DEFINE a == Says(ALICE, ALICE, "context") \o <<Prints("generated")>>
             b == a \o Says(ALICE, ALICE, "signals")
  <2>1. Plain(a)
    BY <1>1, <1>2, <1>10, PlainConcat, KindsAre, SpotsAre
  <2>2. Plain(b)
    BY <1>1, <1>2, <2>1, PlainConcat, KindsAre
  <2>3. Plain(b \o <<Prints("keys")>>)
    BY <1>10, <2>2, PlainConcat, SpotsAre
  <2>4. Plain(Respond(ALICE))
    BY <1>1, <1>2, PlainConcat, KindsAre DEF Respond
  <2> QED
    BY <2>3, <2>4 DEF Keys
<1>4. Plain(Compress(ALICE))
  <2> DEFINE a == Says(ALICE, ALICE, "open") \o Says(ALICE, BOB, "open")
             b == a \o Says(ALICE, ALICE, "sum")
             c == b \o Says(ALICE, BOB, "sum")
             d == c \o Says(ALICE, ALICE, "product")
             e == d \o Says(ALICE, BOB, "product")
  <2>1. Plain(a)
    BY <1>1, <1>2, PlainConcat, KindsAre
  <2>2. Plain(b)
    BY <1>1, <1>2, <2>1, PlainConcat, KindsAre
  <2>3. Plain(c)
    BY <1>1, <1>2, <2>2, PlainConcat, KindsAre
  <2>4. Plain(d)
    BY <1>1, <1>2, <2>3, PlainConcat, KindsAre
  <2>5. Plain(e)
    BY <1>1, <1>2, <2>4, PlainConcat, KindsAre
  <2>6. Plain(e \o <<Prints("compressed")>>)
    BY <1>10, <2>5, PlainConcat, SpotsAre
  <2> QED
    BY <2>6 DEF Compress
<1>5. Plain(Triple(ALICE))
  <2> DEFINE a == Says(ALICE, ALICE, "keys") \o Says(ALICE, BOB, "cross")
             b == a \o Says(ALICE, ALICE, "clear")
             c == b \o Says(ALICE, ALICE, "barrier")
  <2>1. Plain(a)
    BY <1>1, <1>2, PlainConcat, KindsAre
  <2>2. Plain(b)
    BY <1>1, <1>2, <2>1, PlainConcat, KindsAre
  <2>3. Plain(c)
    BY <1>1, <1>2, <2>2, PlainConcat, KindsAre
  <2>4. Plain(c \o Says(ALICE, BOB, "barrier"))
    BY <1>1, <1>2, <2>3, PlainConcat, KindsAre
  <2> QED
    BY <2>4 DEF Triple
<1>6. \A b \in BOOLEAN : Plain(Translation(b))
  <2>1. /\ Tx("extension") \in Step /\ Rx("strings") \in Step
        /\ Rx("extension") \in Step /\ Tx("strings") \in Step
    BY SpokenAre, KindsAre
  <2>2. /\ Plain(<<Tx("extension")>> \o <<Rx("strings")>>)
        /\ Plain(<<Rx("extension")>> \o <<Tx("strings")>>)
    BY <2>1, PlainOne, PlainConcat, SpokenAre, KindsAre
  <2>3. Plain(<<Tx("extension"), Rx("strings")>>) /\ Plain(<<Rx("extension"), Tx("strings")>>)
    BY <2>1, <2>2, PairIs
  <2> QED
    BY <2>3 DEF Translation
<1>7. Plain(Offline(ALICE))
  <2> DEFINE a == IF ALICE = ALICE THEN Translation(FALSE) \o Translation(TRUE)
                                   ELSE Translation(TRUE) \o Translation(FALSE)
             b == a \o <<Prints("translated")>>
  <2>1. Plain(a)
    BY <1>6, PlainConcat
  <2>2. Plain(b)
    <3> HIDE DEF a
    <3> QED
      BY <1>10, <2>1, PlainConcat, SpotsAre
  <2>3. Plain(Offset(ALICE))
    BY <1>1, <1>2, PlainOne, PlainConcat, KindsAre DEF Offset
  <2>4. Plain(b \o Offset(ALICE))
    <3> HIDE DEF b
    <3> QED
      BY <2>2, <2>3, PlainConcat
  <2> QED
    BY <2>4 DEF Offline
<1>8. Plain(Front(ALICE))
  <2> DEFINE w == IF config.trusted THEN <<>> ELSE Triple(ALICE) \o Offline(ALICE)
             a == <<Prints("start")>> \o Ran(ALICE)
             b == a \o w
  <2>1. Plain(w)
    BY <1>5, <1>7, PlainOne, PlainConcat
  <2>2. Plain(a)
    BY <1>1, <1>2, <1>10, PlainConcat, KindsAre, SpotsAre DEF Ran
  <2>3. Plain(b)
    <3> HIDE DEF a, w
    <3> QED
      BY <2>1, <2>2, PlainConcat
  <2>4. Plain(b \o <<Prints("offline")>>)
    <3> HIDE DEF b
    <3> QED
      BY <1>10, <2>3, PlainConcat, SpotsAre
  <2> QED
    BY <2>4 DEF Front
<1>9. Plain(Summary(ALICE))
  <2>1. Summary(ALICE) = <<Do("hear")>>
    BY PeerIs DEF Summary
  <2> QED
    BY <2>1, PlainOne, DeedsAre DEF Deeds
<1> QED
  BY <1>3, <1>4, <1>8, <1>9, <1>10, SpotsAre

\* ALICE's shuffle begins in order: she sends first.
LEMMA ShuffleBegins ==
  Begins(Shuffle(ALICE))
<1> DEFINE h == <<Do("shuffle")>>
           p == PermuteShare(TRUE)
           r == IF config.flat THEN <<>> ELSE PermuteShare(FALSE)
           q == r \o <<Prints("shuffled")>>
<1>1. Shuffle(ALICE) = ((h \o p) \o r) \o <<Prints("shuffled")>>
  <2>1. (ALICE = ALICE) = TRUE /\ (ALICE = BOB) = FALSE
    BY DEF ALICE, BOB
  <2>2. PermuteShare(ALICE = ALICE) = p /\ PermuteShare(ALICE = BOB) = PermuteShare(FALSE)
    BY <2>1
  <2> QED
    BY <2>2 DEF Shuffle
<1>2. Plain(PermuteShare(TRUE)) /\ Plain(PermuteShare(FALSE))
  <2>1. /\ Tx("masked") \in Step /\ Rx("blinded") \in Step
        /\ Rx("masked") \in Step /\ Tx("blinded") \in Step
    BY SpokenAre, KindsAre
  <2>2. /\ Plain(<<Tx("masked")>> \o <<Rx("blinded")>>)
        /\ Plain(<<Rx("masked")>> \o <<Tx("blinded")>>)
    BY <2>1, PlainOne, PlainConcat, SpokenAre, KindsAre
  <2>3. Plain(<<Tx("masked"), Rx("blinded")>>) /\ Plain(<<Rx("masked"), Tx("blinded")>>)
    BY <2>1, <2>2, PairIs
  <2> QED
    BY <2>3 DEF PermuteShare
<1>3. Plain(q) /\ Plain(r) /\ <<Prints("shuffled")>> \in Seq(Step)
  <2>1. Plain(r) /\ Plain(<<Prints("shuffled")>>)
    BY <1>2, PlainOne, SpotsAre
  <2> HIDE DEF r
  <2> QED
    BY <2>1, PlainConcat DEF Plain
<1>4. p = <<Tx("masked"), Rx("blinded")>>
  BY DEF PermuteShare
<1>5. Len(p) = 2 /\ p[1].op = "send" /\ p[2].op = "receive" /\ p \in Seq(Step)
  <2>1. ASSUME NEW e \in Step, NEW f \in Step
        PROVE  /\ <<e, f>> \in Seq(Step) /\ Len(<<e, f>>) = 2
               /\ <<e, f>>[1] = e /\ <<e, f>>[2] = f
    OBVIOUS
  <2>2. Tx("masked") \in Step /\ Rx("blinded") \in Step
    BY SpokenAre, KindsAre
  <2>3. Tx("masked").op = "send" /\ Rx("blinded").op = "receive"
    BY SpokenAre, KindsAre
  <2> HIDE DEF p
  <2>4. p \in Seq(Step) /\ Len(p) = 2 /\ p[1] = Tx("masked") /\ p[2] = Rx("blinded")
    BY <1>4, <2>1, <2>2
  <2> QED
    BY <2>3, <2>4
<1>6. h \in Seq(Step) /\ Len(h) = 1 /\ h[1].op = "shuffle"
  BY DeedsAre DEF Deeds
<1>14. ((h \o p) \o r) \o <<Prints("shuffled")>> = (h \o p) \o q
  <2>1. h \o p \in Seq(Step) /\ r \in Seq(Step)
    <3>1. h \in Seq(Step) /\ p \in Seq(Step) /\ r \in Seq(Step)
      BY <1>3, <1>5, <1>6 DEF Plain
    <3> HIDE DEF h, p, r
    <3> QED
      BY <3>1, ConcatProperties
  <2> DEFINE hp == h \o p
             pr == <<Prints("shuffled")>>
  <2>2. hp \in Seq(Step) /\ pr \in Seq(Step)
    BY <1>3, <2>1
  <2> HIDE DEF hp, pr, r
  <2>3. (hp \o r) \o pr = hp \o (r \o pr)
    BY <2>1, <2>2, ConcatAssociative
  <2> QED
    BY <2>3 DEF hp, pr
<1> HIDE DEF h, p, q, r
<1>7. Plain(p \o q)
  BY <1>2, <1>3, PlainConcat DEF p
<1> DEFINE v == p \o q
           m == Len(q)
           a == h \o v
<1>8. /\ m \in Nat /\ v \in Seq(Step) /\ Len(v) = 2 + m
      /\ \A i \in 1 .. 2 + m : v[i] = IF i <= 2 THEN p[i] ELSE q[i - 2]
  <2>1. q \in Seq(Step)
    BY <1>3 DEF Plain
  <2>2. p \in Seq(Step) /\ Len(p) = 2
    BY <1>5
  <2>3. /\ m \in Nat /\ v \in Seq(Step) /\ Len(v) = Len(p) + m
        /\ \A i \in 1 .. Len(p) + m : v[i] = IF i <= Len(p) THEN p[i] ELSE q[i - Len(p)]
    <3>1. m \in Nat
      BY <2>1, LenProperties
    <3>2. /\ v \in Seq(Step) /\ Len(v) = Len(p) + Len(q)
          /\ \A i \in 1 .. Len(p) + Len(q) : v[i] = IF i <= Len(p) THEN p[i] ELSE q[i - Len(p)]
      BY <2>1, <2>2, ConcatProperties
    <3> QED
      BY <3>1, <3>2
  <2> HIDE DEF v, m
  <2> QED
    BY <2>2, <2>3
<1>9. v[1].op = "send" /\ v[2].op = "receive"
  BY <1>5, <1>8
<1>10. \A i \in 1 .. 2 + m : v[i].op \notin {"decide", "shuffle"}
  BY <1>7, <1>8 DEF Plain
<1>11. /\ a \in Seq(Step) /\ Len(a) = 1 + (2 + m)
       /\ \A i \in 1 .. 1 + (2 + m) : a[i] = IF i <= 1 THEN h[i] ELSE v[i - 1]
  <2>1. h \in Seq(Step) /\ Len(h) = 1 /\ v \in Seq(Step) /\ Len(v) = 2 + m
    BY <1>6, <1>8
  <2> HIDE DEF v, m
  <2>2. /\ a \in Seq(Step) /\ Len(a) = Len(h) + Len(v)
        /\ \A i \in 1 .. Len(h) + Len(v) : a[i] = IF i <= Len(h) THEN h[i] ELSE v[i - Len(h)]
    BY <2>1, ConcatProperties
  <2> HIDE DEF a
  <2> QED
    BY <2>1, <2>2
<1>12. (h \o p) \o q = a
  <2>1. q \in Seq(Step)
    BY <1>3 DEF Plain
  <2> QED
    BY <1>5, <1>6, <2>1, ConcatAssociative
<1> HIDE DEF v, m, a
<1>13. Begins(a)
  <2>1. Len(a) > 2 /\ a[1].op = "shuffle" /\ a[2].op = "send" /\ a[3].op = "receive"
    BY <1>6, <1>8, <1>9, <1>11
  <2>2. ASSUME NEW i \in 2 .. Len(a) PROVE a[i].op \notin {"decide", "shuffle"}
    <3>1. i - 1 \in 1 .. 2 + m /\ i \in 1 .. 1 + (2 + m) /\ ~(i <= 1)
      BY <1>8, <1>11
    <3> QED
      BY <1>10, <1>11, <3>1
  <2> QED
    BY <1>11, <2>1, <2>2 DEF Begins
<1> QED
  BY <1>1, <1>12, <1>13, <1>14

\* A piece that enters a shuffle still does so with one more operation.
LEMMA EntersOne ==
  ASSUME NEW x, Enters(x), NEW e \in Step, e.op \notin {"shuffle", "demand"}
  PROVE  Enters(x \o <<e>>)
<1> DEFINE n == Len(x)
           u == <<e>>
           a == x \o u
<1>1. u \in Seq(Step) /\ Len(u) = 1 /\ u[1] = e
  OBVIOUS
<1> HIDE DEF u
<1>2. x \in Seq(Step) /\ (\A i \in 1 .. n : x[i].op # "shuffle") /\ Before(x, n + 1)
  BY DEF Enters, Never
<1>3. /\ n \in Nat /\ a \in Seq(Step) /\ Len(a) = n + 1
      /\ \A i \in 1 .. n + 1 : a[i] = IF i <= n THEN x[i] ELSE u[i - n]
  <2>1. n \in Nat
    BY <1>2
  <2>2. /\ a \in Seq(Step) /\ Len(a) = n + Len(u)
        /\ \A i \in 1 .. n + Len(u) : a[i] = IF i <= n THEN x[i] ELSE u[i - n]
    BY <1>1, <1>2, ConcatProperties
  <2> HIDE DEF a, n
  <2> QED
    BY <1>1, <2>1, <2>2
<1> HIDE DEF a, n
<1>4. (\A i \in 1 .. n : a[i] = x[i]) /\ a[n + 1] = e
  <2>1. n + 1 \in 1 .. n + 1 /\ ~(n + 1 <= n) /\ (n + 1) - n = 1
    BY <1>3
  <2> QED
    BY <1>1, <1>3, <2>1
<1>5. \A i \in 1 .. n + 1 : i \in 1 .. n \/ i = n + 1
  BY <1>3
<1>6. Never(a, "shuffle")
  BY <1>2, <1>3, <1>4, <1>5 DEF Never
<1>7. PICK w \in 1 .. (n + 1) - 1 :
        /\ \A k \in w .. (n + 1) - 1 : x[k].op \notin {"shuffle", "demand"}
        /\ \E k \in w .. (n + 1) - 1 : x[k].op = "receive"
        /\ \E k \in w .. (n + 1) - 1 : x[k].op = "decide"
  BY <1>2 DEF Before
<1>8. \A k \in w .. (n + 1) - 1 : a[k] = x[k] /\ k \in w .. (n + 2) - 1
  BY <1>3, <1>4
<1>9. \A k \in w .. (n + 2) - 1 : k \in w .. (n + 1) - 1 \/ k = n + 1
  BY <1>3
<1>10. \A k \in w .. (n + 2) - 1 : a[k].op \notin {"shuffle", "demand"}
  BY <1>4, <1>7, <1>8, <1>9
<1>11. /\ \E k \in w .. (n + 2) - 1 : a[k].op = "receive"
       /\ \E k \in w .. (n + 2) - 1 : a[k].op = "decide"
  BY <1>7, <1>8
<1>12. Before(a, n + 2)
  <2>1. w \in 1 .. (n + 2) - 1
    BY <1>3
  <2> QED
    BY <1>10, <1>11, <2>1 DEF Before
<1>13. Len(a) + 1 = n + 2
  BY <1>3
<1>14. Enters(a)
  BY <1>3, <1>6, <1>12, <1>13 DEF Enters
<1> QED
  BY <1>14 DEF a, u

\* ALICE's script up to a shuffle ends with the proofs and her verdict on them, and, but in
\* a component pilot, the opened shares.
LEMMA CheckEnters ==
  ASSUME NEW b \in Seq(Step), Never(b, "shuffle")
  PROVE  Enters(((b \o Check(ALICE)) \o <<Prints("checked")>>) \o Bridge(ALICE))
<1> DEFINE k == Check(ALICE)
           x == b \o k
           y == x \o <<Prints("checked")>>
           n == Len(b)
<1>1. k \in Seq(Step) /\ Len(k) = 2 /\ k[1].op = "receive" /\ k[2].op = "decide"
  <2>1. ASSUME NEW e \in Step, NEW f \in Step
        PROVE  /\ <<e, f>> \in Seq(Step) /\ Len(<<e, f>>) = 2
               /\ <<e, f>>[1] = e /\ <<e, f>>[2] = f
    OBVIOUS
  <2>2. k = <<Rx("proofs"), Do("decide")>>
    BY DEF Check, ALICE
  <2>3. /\ Rx("proofs") \in Step /\ Do("decide") \in Step
        /\ Rx("proofs").op = "receive" /\ Do("decide").op = "decide"
    BY SpokenAre, KindsAre, DeedsAre DEF Deeds
  <2> HIDE DEF k
  <2>4. k \in Seq(Step) /\ Len(k) = 2 /\ k[1] = Rx("proofs") /\ k[2] = Do("decide")
    BY <2>1, <2>2, <2>3
  <2> QED
    BY <2>3, <2>4
<1> HIDE DEF k
<1>2. n \in Nat
  BY LenProperties
<1>3. /\ x \in Seq(Step) /\ Len(x) = n + 2
      /\ \A i \in 1 .. n + 2 : x[i] = IF i <= n THEN b[i] ELSE k[i - n]
  <2>1. /\ x \in Seq(Step) /\ Len(x) = n + Len(k)
        /\ \A i \in 1 .. n + Len(k) : x[i] = IF i <= n THEN b[i] ELSE k[i - n]
    BY <1>1, ConcatProperties
  <2> HIDE DEF x, n
  <2> QED
    BY <1>1, <2>1
<1>4. \A i \in 1 .. n : b[i].op # "shuffle"
  BY DEF Never
<1> HIDE DEF x, n
<1>5. x[n + 1] = k[1] /\ x[n + 2] = k[2]
  <2>1. /\ n + 1 \in 1 .. n + 2 /\ ~(n + 1 <= n) /\ (n + 1) - n = 1
        /\ n + 2 \in 1 .. n + 2 /\ ~(n + 2 <= n) /\ (n + 2) - n = 2
    BY <1>2
  <2> QED
    BY <1>3, <2>1
<1>6. Never(x, "shuffle")
  <2>1. ASSUME NEW i \in 1 .. n + 2 PROVE x[i].op # "shuffle"
    <3>1. i <= n \/ i = n + 1 \/ i = n + 2
      BY <1>2
    <3>2. CASE i <= n
      BY <1>2, <1>3, <1>4, <3>2
    <3> QED
      BY <1>1, <1>5, <3>1, <3>2
  <2> QED
    BY <1>3, <2>1 DEF Never
<1>7. Before(x, n + 3)
  <2>1. /\ n + 1 \in 1 .. (n + 3) - 1 /\ n + 1 \in n + 1 .. (n + 3) - 1
        /\ n + 2 \in n + 1 .. (n + 3) - 1
    BY <1>2
  <2>2. \A i \in n + 1 .. (n + 3) - 1 : i = n + 1 \/ i = n + 2
    BY <1>2
  <2>3. \A i \in n + 1 .. (n + 3) - 1 : x[i].op \notin {"shuffle", "demand"}
    BY <1>1, <1>5, <2>2
  <2> QED
    BY <1>1, <1>5, <2>1, <2>3 DEF Before
<1>8. Enters(x)
  <2>1. Len(x) + 1 = n + 3
    BY <1>2, <1>3
  <2> QED
    BY <1>3, <1>6, <1>7, <2>1 DEF Enters
<1>9. Enters(y)
  <2>1. Prints("checked") \in Step /\ Prints("checked").op = "print"
    BY PrintsAre, SpotsAre
  <2> QED
    BY <1>8, <2>1, EntersOne
<1> HIDE DEF y
<1>10. CASE config.pilot
  <2>1. Bridge(ALICE) = <<>> /\ y \in Seq(Step)
    BY <1>9, <1>10 DEF Bridge, Enters
  <2>2. y \o <<>> = y
    BY <2>1, ConcatSimplifications
  <2> QED
    BY <1>9, <2>1, <2>2 DEF x, y, k
<1>11. CASE ~config.pilot
  <2>1. Bridge(ALICE) = <<Rx("shares")>> \o <<Prints("bridge")>>
    BY <1>11 DEF Bridge, Says, ALICE, BOB
  <2>2. /\ Rx("shares") \in Step /\ Rx("shares").op = "receive"
        /\ Prints("bridge") \in Step /\ Prints("bridge").op = "print"
    BY SpokenAre, KindsAre, PrintsAre, SpotsAre
  <2>3. Enters(y \o <<Rx("shares")>>)
    BY <1>9, <2>2, EntersOne
  <2>4. Enters((y \o <<Rx("shares")>>) \o <<Prints("bridge")>>)
    <3> DEFINE u == y \o <<Rx("shares")>>
    <3>1. Enters(u)
      BY <2>3
    <3> HIDE DEF u
    <3>2. Enters(u \o <<Prints("bridge")>>)
      BY <2>2, <3>1, EntersOne
    <3> QED
      BY <3>2 DEF u
  <2>5. (y \o <<Rx("shares")>>) \o <<Prints("bridge")>> = y \o Bridge(ALICE)
    <3> DEFINE u == <<Rx("shares")>>
               v == <<Prints("bridge")>>
    <3>1. y \in Seq(Step) /\ u \in Seq(Step) /\ v \in Seq(Step)
      BY <1>9, <2>2 DEF Enters
    <3> HIDE DEF u, v
    <3>2. (y \o u) \o v = y \o (u \o v)
      BY <3>1, ConcatAssociative
    <3> QED
      BY <2>1, <3>2 DEF u, v
  <2> QED
    BY <2>4, <2>5 DEF x, y, k
<1> QED
  BY <1>10, <1>11

\* A repetition is in order.
LEMMA RepetitionOrdered ==
  ASSUME config \in Configs
  PROVE  Ordered(Repetition(ALICE))
<1> DEFINE w == IF config.pilot THEN Check(ALICE) ELSE <<>>
           b == Keys(ALICE) \o w
           c == ((b \o Check(ALICE)) \o <<Prints("checked")>>) \o Bridge(ALICE)
           d == c \o Shuffle(ALICE)
           e == d \o Compress(ALICE)
           f == e \o Respond(ALICE)
           g == f \o Summary(ALICE)
<1>1. b \in Seq(Step) /\ Never(b, "shuffle")
  <2>1. Piece(w, IF config.pilot THEN Check(BOB) ELSE <<>>, 0, 0)
    BY CheckFits, None
  <2> HIDE DEF w
  <2>2. Piece(b, Keys(BOB) \o (IF config.pilot THEN Check(BOB) ELSE <<>>), 0, 0)
    BY <2>1, KeysFit, Join
  <2> QED
    BY <2>2 DEF Piece, Fits, Tally
<1> HIDE DEF b
<1>2. Enters(c)
  BY <1>1, CheckEnters
<1> HIDE DEF c
<1>3. Ordered(d)
  BY <1>2, ShuffleBegins, EntersOrdered
<1> HIDE DEF d
<1>4. Ordered(e)
  BY <1>3, PlainParts, PlainOrdered, OrderedConcat
<1> HIDE DEF e
<1>5. Ordered(f)
  BY <1>4, PlainParts, PlainOrdered, OrderedConcat
<1> HIDE DEF f
<1>6. Ordered(g)
  BY <1>5, PlainParts, PlainOrdered, OrderedConcat
<1> HIDE DEF g
<1>7. Ordered(g \o <<Prints("done")>>)
  BY <1>6, PlainParts, PlainOrdered, OrderedConcat
<1> QED
  BY <1>7 DEF Repetition, b, c, d, e, f, g

\* So are a case and a script.
LEMMA ScriptOrdered ==
  ASSUME config \in Configs
  PROVE  Ordered(Case(ALICE)) /\ Ordered(Script(ALICE))
<1> DEFINE r == IF config.valid THEN RunBenchmarkCase(ALICE) ELSE <<>>
<1>1. config.reps \in Nat /\ config.cases \in Nat
  BY SessionAssumption
<1>2. Ordered(r)
  <2>1. Ordered(Repetition(ALICE)) /\ Len(Repetition(ALICE)) > 0
    <3>1. Listens(Repetition(ALICE)) /\ Repetition(ALICE) \in Seq(Step)
      BY RepetitionFits DEF Piece, Fits
    <3>2. Len(Repetition(ALICE)) > 0
      BY <3>1, LenProperties DEF Listens
    <3> QED
      BY <3>2, RepetitionOrdered
  <2>2. Ordered(Repeat(Repetition(ALICE), config.reps))
    BY <1>1, <2>1, OrderedRepeat
  <2>3. Ordered(Front(ALICE) \o Repeat(Repetition(ALICE), config.reps))
    BY <2>2, PlainParts, PlainOrdered, OrderedConcat
  <2>4. Ordered((Front(ALICE) \o Repeat(Repetition(ALICE), config.reps)) \o <<Prints("report")>>)
    BY <2>3, PlainOne, SpotsAre, PlainOrdered, OrderedConcat
  <2>5. RunBenchmarkCase(ALICE)
          = (Front(ALICE) \o Repeat(Repetition(ALICE), config.reps)) \o <<Prints("report")>>
    BY DEF RunBenchmarkCase, Front
  <2> QED
    BY <2>4, <2>5, PlainOne, PlainOrdered
<1> HIDE DEF r
<1>3. Ordered(r \o <<Do("demand")>>)
  <2>1. Do("demand") \in Step /\ Do("demand").op = "demand"
    BY DeedsAre DEF Deeds
  <2>2. Plain(<<Do("demand")>>)
    BY <2>1, PlainOne
  <2> QED
    BY <1>2, <2>2, PlainOrdered, OrderedConcat
<1>4. Case(ALICE) = r \o <<Do("demand")>>
  BY DEF Case, r
<1>5. Ordered(Case(ALICE))
  BY <1>3, <1>4
<1>6. Script(ALICE) = Repeat(Case(ALICE), config.cases)
  BY DEF Script, ServerTest0, Case
<1>7. Len(Case(ALICE)) > 0
  BY CaseIs DEF CaseFacts
<1> QED
  BY <1>1, <1>5, <1>6, <1>7, OrderedRepeat

\* Around a shuffle both servers wait for each other, before another shuffle or the demand
\* of a case.
LEMMA Waits ==
  ASSUME config \in Configs, NEW s \in Party, NEW i \in 1 .. Whole, NEW j \in 1 .. Whole, i < j,
         NEW o \in {"shuffle", "demand"},
         \/ Script(s)[i].op = "shuffle" /\ Script(s)[j].op = o
         \/ Script(s)[i].op = o /\ Script(s)[j].op = "shuffle"
  PROVE  \E k \in i + 1 .. j : Script(s)[k].op \in Receives
<1> DEFINE x == Script(ALICE)
<1>1. /\ Whole \in Nat /\ Len(x) = Whole /\ Ordered(x) /\ ALICE \in Party /\ BOB \in Party
      /\ Peer(ALICE) = BOB
  BY ScriptIs, ScriptOrdered, PeerIs
<1>2. \A k \in 1 .. Whole :
        x[k].op = "shuffle" =>
          /\ Before(x, k) /\ k + 2 <= Whole
          /\ x[k + 1].op = "send" /\ x[k + 2].op = "receive"
  BY <1>1 DEF Ordered
<1>3. ASSUME NEW k \in 1 .. Whole
      PROVE  /\ Script(BOB)[k].op \in Receives <=> x[k].op \in Sends
             /\ \A d \in {"shuffle", "demand"} : Script(BOB)[k].op = d <=> x[k].op = d
  BY <1>1, <1>3, Places
<1> HIDE DEF x
<1>4. \A k \in 1 .. Whole : \A d \in {"shuffle", "demand"} : Script(s)[k].op = d <=> x[k].op = d
  BY <1>3, PeerIs DEF x
<1>5. CASE Script(s)[i].op = "shuffle" /\ Script(s)[j].op = o
  <2>1. x[i].op = "shuffle" /\ x[j].op = o
    BY <1>4, <1>5
  <2>2. i + 2 <= Whole /\ x[i + 1].op = "send" /\ x[i + 2].op = "receive"
    BY <1>2, <2>1
  <2>3. j # i + 1 /\ j # i + 2
    BY <2>1, <2>2
  <2>4. /\ i + 1 \in i + 1 .. j /\ i + 2 \in i + 1 .. j
        /\ i + 1 \in 1 .. Whole /\ i + 2 \in 1 .. Whole
    BY <1>1, <2>2, <2>3
  <2>5. CASE s = ALICE
    BY <2>2, <2>4, <2>5 DEF Receives, x
  <2>6. CASE s = BOB
    <3>1. Script(BOB)[i + 1].op \in Receives
      BY <1>3, <2>2, <2>4 DEF Sends
    <3> QED
      BY <2>4, <2>6, <3>1
  <2> QED
    BY <2>5, <2>6, PeerIs
<1>6. CASE Script(s)[i].op = o /\ Script(s)[j].op = "shuffle"
  <2>1. x[j].op = "shuffle" /\ x[i].op = o
    BY <1>4, <1>6
  <2>2. Before(x, j)
    BY <1>2, <2>1
  <2>3. PICK w \in 1 .. j - 1 :
          /\ \A k \in w .. j - 1 : x[k].op \notin {"shuffle", "demand"}
          /\ \E k \in w .. j - 1 : x[k].op = "receive"
          /\ \E k \in w .. j - 1 : x[k].op = "decide"
    BY <2>2 DEF Before
  <2>4. ~(i \in w .. j - 1)
    BY <2>1, <2>3
  <2>5. i < w
    BY <2>4
  <2>6. \A k \in w .. j - 1 : k \in i + 1 .. j /\ k \in 1 .. Whole
    BY <1>1, <2>5
  <2>7. CASE s = ALICE
    BY <2>3, <2>6, <2>7 DEF Receives, x
  <2>8. CASE s = BOB
    <3>1. PICK k \in w .. j - 1 : x[k].op = "decide"
      BY <2>3
    <3>2. Script(BOB)[k].op \in Receives /\ k \in i + 1 .. j
      BY <1>3, <2>6, <3>1 DEF Sends
    <3> QED
      BY <2>8, <3>2
  <2> QED
    BY <2>7, <2>8, PeerIs
<1> QED
  BY <1>5, <1>6

-----------------------------------------------------------------------------
(* The promise of a run. *)

\* Shuffles among the first p operations of a script.
Begun(s, p) == Cardinality({i \in 1 .. p : Script(s)[i].op = "shuffle"})

\* Each server has begun the shuffles that it is past; and the driver has no outcome
\* before it ends, and gives grace only when a process has ended.
Past ==
  /\ \A s \in Party : shuffles[s] = Begun(s, Pos(s))
  /\ ~Ended => outcome = "none"
  /\ driver = "grace" => \E s \in Party : ~Running(s)

\* Counting shuffles: one more, and those of a longer stretch.
LEMMA BegunIs ==
  ASSUME NEW s, NEW p \in Nat
  PROVE  /\ Begun(s, p) \in Nat /\ Begun(s, 0) = 0
         /\ Script(s)[p + 1].op = "shuffle" => Begun(s, p + 1) = Begun(s, p) + 1
         /\ Script(s)[p + 1].op # "shuffle" => Begun(s, p + 1) = Begun(s, p)
         /\ \A q \in 0 .. p :
              /\ Begun(s, q) <= Begun(s, p)
              /\ (\A i \in q + 1 .. p : Script(s)[i].op # "shuffle") => Begun(s, q) = Begun(s, p)
<1> DEFINE S(k) == {i \in 1 .. k : Script(s)[i].op = "shuffle"}
<1>1. ASSUME NEW k \in Nat PROVE IsFiniteSet(S(k)) /\ Cardinality(S(k)) \in Nat
  <2>1. IsFiniteSet(1 .. k) /\ S(k) \in SUBSET (1 .. k)
    BY FS_Interval
  <2> QED
    BY <2>1, FS_Subset, FS_CardinalityType
<1>2. S(0) = {}
  OBVIOUS
<1>3. Cardinality(S(0)) = 0
  BY <1>2, FS_EmptySet
<1>4. p + 1 \notin S(p) /\ p + 1 \in 1 .. p + 1
  OBVIOUS
<1>5. Script(s)[p + 1].op = "shuffle" => S(p + 1) = S(p) \cup {p + 1}
  BY <1>4
<1>6. Script(s)[p + 1].op # "shuffle" => S(p + 1) = S(p)
  OBVIOUS
<1>7. ASSUME NEW q \in 0 .. p PROVE S(q) \in SUBSET S(p)
  OBVIOUS
<1>8. ASSUME NEW q \in 0 .. p, \A i \in q + 1 .. p : Script(s)[i].op # "shuffle"
      PROVE  S(q) = S(p)
  <2>1. \A i \in 1 .. p : i \in 1 .. q \/ i \in q + 1 .. p
    OBVIOUS
  <2> QED
    BY <1>7, <1>8, <2>1
<1> HIDE DEF S
<1>9. Cardinality(S(p) \cup {p + 1}) = Cardinality(S(p)) + 1
  BY <1>1, <1>4, FS_AddElement
<1>10. \A q \in 0 .. p : Cardinality(S(q)) <= Cardinality(S(p))
  BY <1>1, <1>7, FS_Subset
<1>11. \A k : Begun(s, k) = Cardinality(S(k))
  BY DEF Begun, S
<1>12. Begun(s, p) \in Nat /\ Begun(s, 0) = 0
  BY <1>1, <1>3, <1>11
<1>13. Script(s)[p + 1].op = "shuffle" => Begun(s, p + 1) = Begun(s, p) + 1
  BY <1>5, <1>9, <1>11
<1>14. Script(s)[p + 1].op # "shuffle" => Begun(s, p + 1) = Begun(s, p)
  BY <1>6, <1>11
<1>15. ASSUME NEW q \in 0 .. p
       PROVE  /\ Begun(s, q) <= Begun(s, p)
              /\ (\A i \in q + 1 .. p : Script(s)[i].op # "shuffle") => Begun(s, q) = Begun(s, p)
  BY <1>8, <1>10, <1>11
<1> QED
  BY <1>12, <1>13, <1>14, <1>15

\* Both scripts have as many shuffles up to a place.
LEMMA BegunBoth ==
  ASSUME config \in Configs, NEW s \in Party, NEW p \in 0 .. Whole
  PROVE  Begun(Peer(s), p) = Begun(s, p)
<1>1. \A i \in 1 .. p : Script(s)[i].op = "shuffle" <=> Script(Peer(s))[i].op = "shuffle"
  <2>1. \A i \in 1 .. p : i \in 1 .. Whole
    BY ScriptIs
  <2> QED
    BY <2>1, Places
<1>2. {i \in 1 .. p : Script(s)[i].op = "shuffle"} = {i \in 1 .. p : Script(Peer(s))[i].op = "shuffle"}
  BY <1>1
<1> QED
  BY <1>2 DEF Begun

\* How a step moves the servers: one of them takes an operation, and counts it if it
\* is a shuffle; or nothing moves.
Advances(s) ==
  /\ Goes(s)
  /\ shuffles' = [shuffles EXCEPT ![s] = @ + (IF At(s).op = "shuffle" THEN 1 ELSE 0)]

\* So every step moves.
LEMMA Advancing ==
  ASSUME Types, [Next]_vars
  PROVE  (\E s \in Party : Advances(s)) \/ UNCHANGED <<config, todo, shuffles>>
<1>1. ASSUME NEW s \in Party, todo[s] # <<>>, Advance(s), UNCHANGED <<config, shuffles>>,
             At(s).op # "shuffle"
      PROVE  Advances(s)
  BY <1>1 DEF Types, Goes, Advances
<1>2. ASSUME NEW s \in Party, Process(s) \/ Crash(s)
      PROVE  Advances(s) \/ UNCHANGED <<config, todo, shuffles>>
  <2>1. CASE Send(s)
    BY <1>1, <2>1 DEF Send, Is
  <2>2. CASE Receive(s)
    BY <1>1, <2>2 DEF Receive, Is
  <2>3. CASE Lose(s)
    BY <2>3 DEF Lose
  <2>4. CASE BeginShuffle(s)
    BY <2>4 DEF BeginShuffle, Is, Types, Advances, Goes
  <2>5. CASE PrintLine(s)
    BY <1>1, <2>5 DEF PrintLine, Is
  <2>6. CASE Demand(s)
    BY <1>1, <2>6 DEF Demand, Is
  <2>7. CASE Exit(s)
    BY <2>7 DEF Exit
  <2>8. CASE Crash(s)
    BY <2>8 DEF Crash
  <2> QED
    BY <1>2, <2>1, <2>2, <2>3, <2>4, <2>5, <2>6, <2>7, <2>8 DEF Process
<1>3. ALICE \in Party /\ BOB \in Party
  BY PeerIs
<1>4. ASSUME NEW ok \in BOOLEAN, Decide(ok) PROVE Advances(ALICE)
  BY <1>1, <1>3, <1>4 DEF Decide, Is
<1>5. ASSUME Obey PROVE Advances(BOB)
  BY <1>1, <1>3, <1>5 DEF Obey, Is
<1>6. ASSUME Hear PROVE Advances(ALICE)
  BY <1>1, <1>3, <1>6 DEF Hear, Is
<1>7. ASSUME NEW exact \in BOOLEAN, NEW indices \in BOOLEAN, Tell(exact, indices)
      PROVE  Advances(BOB)
  BY <1>1, <1>3, <1>7 DEF Tell, Is
<1>8. ASSUME Driver PROVE UNCHANGED <<config, todo, shuffles>>
  BY <1>8 DEF Driver, Deadline, FirstEnded, GraceOver, Collect, unread
<1>9. ASSUME Connect \/ AcceptPeer \/ Undecoded PROVE UNCHANGED <<config, todo, shuffles>>
  BY <1>9 DEF Connect, AcceptPeer, Undecoded
<1> QED
  BY <1>2, <1>3, <1>4, <1>5, <1>6, <1>7, <1>8, <1>9 DEF Next, Servers, vars

\* The shuffles stay those that a server is past.
LEMMA PastShuffles ==
  ASSUME Safe, Past, [Next]_vars, NEW r \in Party
  PROVE  shuffles'[r] = Begun(r, Pos(r))'
<1>1. Types /\ Where /\ \A q \in Party : Pos(q) \in Nat /\ shuffles[q] = Begun(q, Pos(q))
  BY Numbers DEF Safe, Base, Past
<1>2. ASSUME config' = config PROVE \A p : Begun(r, p)' = Begun(r, p)
  BY <1>2, Fixed DEF Begun
<1>3. ASSUME NEW s \in Party, Advances(s) PROVE shuffles'[r] = Begun(r, Pos(r))'
  <2>1. Goes(s) /\ config' = config /\ shuffles \in [Party -> Nat]
    BY <1>1, <1>3 DEF Advances, Goes, Types
  <2>2. /\ Pos(s)' = Pos(s) + 1 /\ At(s) = Script(s)[Pos(s) + 1]
        /\ \A q \in Party : q # s => Pos(q)' = Pos(q)
    BY <1>1, <2>1, MovesTo
  <2>3. CASE r = s
    <3>1. shuffles'[r] = shuffles[r] + (IF At(s).op = "shuffle" THEN 1 ELSE 0)
      BY <1>3, <2>1, <2>3 DEF Advances
    <3>2. Begun(r, Pos(r) + 1) = Begun(r, Pos(r)) + (IF At(s).op = "shuffle" THEN 1 ELSE 0)
      BY <1>1, <2>2, <2>3, BegunIs
    <3>3. Begun(r, Pos(r))' = Begun(r, Pos(r) + 1)
      BY <1>2, <2>1, <2>2, <2>3 DEF Begun
    <3> QED
      BY <1>1, <3>1, <3>2, <3>3
  <2>4. CASE r # s
    <3>1. shuffles'[r] = shuffles[r]
      BY <1>3, <2>1, <2>4 DEF Advances
    <3>2. Begun(r, Pos(r))' = Begun(r, Pos(r))
      BY <1>2, <2>1, <2>2, <2>4 DEF Begun
    <3> QED
      BY <1>1, <3>1, <3>2
  <2> QED
    BY <2>3, <2>4
<1>4. CASE UNCHANGED <<config, todo, shuffles>>
  <2>1. Pos(r)' = Pos(r)
    BY <1>4, Fixed DEF Pos
  <2>2. Begun(r, Pos(r))' = Begun(r, Pos(r))
    BY <1>2, <1>4, <2>1 DEF Begun
  <2> QED
    BY <1>1, <1>4, <2>2
<1> QED
  BY <1>1, <1>3, <1>4, Advancing

\* So does the rest.
LEMMA PastNext ==
  ASSUME Safe, Inv, Past, [Next]_vars
  PROVE  Past'
<1>1. \A s \in Party : shuffles'[s] = Begun(s, Pos(s))'
  BY PastShuffles
<1>2. CASE Servers \/ \E s \in Party : Crash(s)
  <2>1. PICK s \in Party : Own(s)
    BY <1>2, OwnSteps
  <2>2. UNCHANGED <<driver, outcome>> /\ \A r \in Party : r # s => status'[r] = status[r]
    BY <2>1 DEF Own, End, Inv
  <2>3. ASSUME NEW r \in Party, ~Running(r) PROVE ~Running(r)'
    BY <2>1, <2>2, <2>3 DEF Own, Running
  <2> QED
    BY <1>1, <2>2, <2>3 DEF Past, Ended
<1>3. CASE Driver
  <2>1. CASE Deadline
    BY <1>1, <2>1 DEF Deadline, Past, Ended
  <2>2. CASE FirstEnded
    BY <1>1, <2>2 DEF FirstEnded, Past, Ended, Running
  <2>3. CASE GraceOver
    <3>1. \A r \in Party : status'[r] # "running"
      BY <2>3 DEF GraceOver, Killed, Running
    <3> QED
      BY <1>1, <2>3, <3>1, PeerIs DEF GraceOver, Past, Ended, Running
  <2>4. CASE Collect
    BY <1>1, <2>4 DEF Collect, Past, Ended
  <2> QED
    BY <1>3, <2>1, <2>2, <2>3, <2>4 DEF Driver
<1>4. CASE UNCHANGED vars
  BY <1>1, <1>4 DEF Past, vars, Ended, Running
<1> QED
  BY <1>2, <1>3, <1>4 DEF Next

\* It holds when both processes start.
LEMMA PastInit ==
  ASSUME Init
  PROVE  Past
<1>1. \A s \in Party : Pos(s) = 0
  <2>1. config \in Configs /\ \A s \in Party : todo[s] = Script(s)
    BY DEF Init, Script
  <2> QED
    BY <2>1, ScriptIs DEF Pos
<1>2. 0 \in Nat
  OBVIOUS
<1>3. \A s \in Party : Begun(s, 0) = 0 /\ shuffles[s] = 0
  BY <1>2, BegunIs DEF Init
<1> QED
  BY <1>1, <1>3 DEF Init, Past

\* A place of a script is in one of its cases, and the demands are at the ends of these.
LEMMA CaseOf ==
  ASSUME config \in Configs, NEW s \in Party
  PROVE  /\ \A p \in 0 .. Whole - 1 : p \div CaseLen \in 0 .. config.cases - 1
         /\ Whole \div CaseLen = config.cases
         /\ \A i \in 1 .. Whole :
              Script(s)[i].op = "demand" <=> \E k \in 1 .. config.cases : i = k * CaseLen
         /\ \A k \in 1 .. config.cases : k * CaseLen \in 1 .. Whole
<1> DEFINE n == CaseLen
           m == config.cases
<1>1. /\ n \in Nat \ {0} /\ m \in Nat \ {0} /\ Whole = m * n
      /\ \A q \in 0 .. m - 1, j \in 1 .. n : Script(s)[q * n + j] = Case(s)[j]
  BY ScriptIs, SessionAssumption DEF Whole
<1>2. \A i \in 1 .. n : Case(s)[i].op = "demand" <=> i = n
  BY DemandLast
<1> HIDE DEF n, m
<1>3. ASSUME NEW p \in 0 .. m * n - 1 PROVE p \div n \in 0 .. m - 1
  <2>1. m * n \in Nat
    BY <1>1, Z3
  <2>2. p + 1 \in 1 .. m * n
    BY <2>1
  <2>3. PICK q \in 0 .. m - 1, j \in 1 .. n : p + 1 = q * n + j
    BY <1>1, <2>2, TurnOf
  <2>4. q * n \in Nat
    BY <1>1, Z3
  <2>5. p = q * n + (j - 1) /\ j - 1 \in 0 .. n - 1 /\ q \in Int
    BY <1>1, <2>3, <2>4
  <2>6. p \div n = q
    BY <1>1, <2>5, ModDigit
  <2> QED
    BY <2>6
<1>4. (m * n) \div n = m
  <2>1. 0 \in 0 .. n - 1 /\ m \in Int /\ m * n + 0 = m * n
    BY <1>1, Z3
  <2>2. (m * n + 0) \div n = m
    BY <1>1, <2>1, ModDigit
  <2> QED
    BY <2>1, <2>2
<1>5. ASSUME NEW k \in 1 .. m
      PROVE  /\ k * n = (k - 1) * n + n /\ k - 1 \in 0 .. m - 1 /\ n \in 1 .. n
             /\ k * n \in 1 .. m * n
  <2>1. k * n = (k - 1) * n + n /\ k - 1 \in 0 .. m - 1 /\ n \in 1 .. n
    BY <1>1, Z3
  <2>2. (k - 1) * n + n \in 1 .. m * n
    BY <1>1, <2>1, TurnIn
  <2> QED
    BY <2>1, <2>2
<1>6. ASSUME NEW i \in 1 .. m * n
      PROVE  Script(s)[i].op = "demand" <=> \E k \in 1 .. m : i = k * n
  <2>1. ASSUME Script(s)[i].op = "demand" PROVE \E k \in 1 .. m : i = k * n
    <3>1. PICK q \in 0 .. m - 1, j \in 1 .. n : i = q * n + j
      BY <1>1, TurnOf
    <3>2. j = n
      BY <1>1, <1>2, <2>1, <3>1
    <3>3. q + 1 \in 1 .. m /\ (q + 1) - 1 = q
      BY <1>1
    <3>4. i = (q + 1) * n
      BY <1>5, <3>1, <3>2, <3>3
    <3> QED
      BY <3>3, <3>4
  <2>2. ASSUME NEW k \in 1 .. m, i = k * n PROVE Script(s)[i].op = "demand"
    BY <1>1, <1>2, <1>5, <2>2
  <2> QED
    BY <2>1, <2>2
<1> QED
  BY <1>1, <1>3, <1>4, <1>5, <1>6 DEF n, m

\* How many cases are behind a place, and which.
LEMMA CasesBehind ==
  ASSUME NEW n \in Nat \ {0}, NEW p \in Nat, NEW k \in Nat
  PROVE  k * n > p <=> k > p \div n
<1> DEFINE q == p \div n
           r == p % n
<1>1. q \in Int /\ r \in 0 .. n - 1 /\ p = q * n + r
  BY ModSplit
<1> HIDE DEF q, r
<1>2. q * n \in Int /\ k * n \in Int /\ (q + 1) * n = q * n + n
  BY <1>1, Z3
<1>3. k <= q => k * n <= q * n
  BY <1>1, Z3
<1>4. k >= q + 1 => k * n >= (q + 1) * n
  BY <1>1, Z3
<1>5. k * n > p <=> k > q
  BY <1>1, <1>2, <1>3, <1>4
<1> QED
  BY <1>5 DEF q

\* The cases that a server has found correct are those that it is past, but for one
\* that it found incorrect.
AcceptedAt(s) == (Pos(s) \div CaseLen) - (IF status[s] = "incorrect" THEN 1 ELSE 0)

\* By the demands that are left: as many as cases that a server is not past.
LEMMA DemandsLeft ==
  ASSUME Types, Where, NEW s \in Party
  PROVE  Cardinality({i \in DOMAIN todo[s] : todo[s][i].op = "demand"})
           = config.cases - Pos(s) \div CaseLen
<1> DEFINE n == CaseLen
           m == config.cases
           p == Pos(s)
           k0 == p \div n
           S == {i \in DOMAIN todo[s] : todo[s][i].op = "demand"}
           at(k) == k * n - p
           f == [k \in k0 + 1 .. m |-> at(k)]
<1>1. /\ n \in Nat \ {0} /\ m \in Nat \ {0} /\ Whole = m * n /\ Whole \in Nat
      /\ p \in 0 .. Whole /\ todo[s] = SubSeq(Script(s), p + 1, Whole)
      /\ Script(s) \in Seq(Step) /\ Len(Script(s)) = Whole /\ config \in Configs
  BY ScriptIs, SessionAssumption DEF Types, Where, Whole
<1>2. /\ \A i \in 1 .. Whole : Script(s)[i].op = "demand" <=> \E k \in 1 .. m : i = k * n
      /\ \A k \in 1 .. m : k * n \in 1 .. Whole
      /\ k0 \in 0 .. m
  <2>1. /\ \A i \in 1 .. Whole : Script(s)[i].op = "demand" <=> \E k \in 1 .. m : i = k * n
        /\ \A k \in 1 .. m : k * n \in 1 .. Whole
        /\ \A q \in 0 .. Whole - 1 : q \div n \in 0 .. m - 1
        /\ Whole \div n = m
    BY <1>1, CaseOf
  <2>2. p = Whole \/ p \in 0 .. Whole - 1
    BY <1>1
  <2> HIDE DEF p, n, m
  <2>3. k0 \in 0 .. m
    <3>1. CASE p = Whole
      <4>1. k0 = m
        BY <2>1, <3>1, Zenon
      <4> QED
        BY <1>1, <4>1
    <3>2. CASE p \in 0 .. Whole - 1
      <4>1. k0 \in 0 .. m - 1
        BY <2>1, <3>2, Zenon
      <4> QED
        BY <1>1, <4>1
    <3> QED
      BY <2>2, <3>1, <3>2
  <2> QED
    BY <2>1, <2>3
<1> HIDE DEF n, m, p
<1>3. /\ DOMAIN todo[s] = 1 .. Whole - p
      /\ \A i \in 1 .. Whole - p : todo[s][i] = Script(s)[p + i]
  <2>1. /\ Len(todo[s]) = Whole - p
        /\ \A i \in 1 .. Whole - p : todo[s][i] = Script(s)[p + i]
    <3>1. CASE p = Whole
      <4>1. Whole < p + 1 /\ Whole \in Int /\ p + 1 \in Int
        BY <1>1, <3>1
      <4>2. todo[s] = <<>>
        BY <1>1, <4>1, SubSeqEmpty
      <4> QED
        BY <1>1, <3>1, <4>2
    <3>2. CASE p # Whole
      <4>1. p + 1 \in 1 .. Len(Script(s)) /\ Whole \in p + 1 - 1 .. Len(Script(s))
        BY <1>1, <3>2
      <4>2. /\ Len(SubSeq(Script(s), p + 1, Whole)) = (IF p + 1 <= Whole THEN Whole - (p + 1) + 1 ELSE 0)
            /\ \A i \in 1 .. Whole - (p + 1) + 1 :
                 SubSeq(Script(s), p + 1, Whole)[i] = Script(s)[p + 1 + i - 1]
        BY <1>1, <4>1, SubSeqProperties
      <4>3. Whole - (p + 1) + 1 = Whole - p /\ p + 1 <= Whole
        BY <1>1, <3>2
      <4>4. \A i \in 1 .. Whole - p : p + 1 + i - 1 = p + i
        BY <1>1
      <4> QED
        BY <1>1, <4>2, <4>3, <4>4
    <3> QED
      BY <3>1, <3>2
  <2>2. todo[s] \in Seq(Step)
    BY DEF Types
  <2> QED
    BY <2>1, <2>2, LenProperties
<1>4. ASSUME NEW k \in k0 + 1 .. m
      PROVE  at(k) \in S
  <2>1. k \in 1 .. m /\ k > k0 /\ k \in Nat
    BY <1>1, <1>2
  <2>2. k * n > p /\ k * n \in 1 .. Whole
    <3>1. p \in Nat
      BY <1>1
    <3> QED
      BY <1>1, <1>2, <2>1, <3>1, CasesBehind
  <2>3. at(k) \in 1 .. Whole - p /\ p + at(k) = k * n
    BY <1>1, <2>2
  <2>4. Script(s)[k * n].op = "demand"
    BY <1>2, <2>1, <2>2
  <2> HIDE DEF at
  <2> QED
    BY <1>3, <2>3, <2>4
<1>5. ASSUME NEW i \in S
      PROVE  \E k \in k0 + 1 .. m : i = at(k)
  <2>1. i \in 1 .. Whole - p /\ Script(s)[p + i].op = "demand"
    BY <1>3
  <2>2. p + i \in 1 .. Whole
    BY <1>1, <2>1
  <2>3. PICK k \in 1 .. m : p + i = k * n
    BY <1>2, <2>1, <2>2
  <2>4. k > k0
    <3>1. k * n > p /\ p \in Nat /\ k \in Nat
      BY <1>1, <2>1, <2>3
    <3> QED
      BY <1>1, <3>1, CasesBehind
  <2>5. k \in k0 + 1 .. m /\ i = at(k)
    <3>1. k * n \in Int
      BY <1>1, <2>1, <2>2, <2>3
    <3>2. i = k * n - p
      BY <1>1, <2>1, <2>3
    <3>3. k \in k0 + 1 .. m
      BY <1>1, <1>2, <2>4
    <3> QED
      BY <3>2, <3>3
  <2> QED
    BY <2>5
<1>6. ASSUME NEW k \in k0 + 1 .. m, NEW j \in k0 + 1 .. m, at(k) = at(j)
      PROVE  k = j
  <2>1. k \in Int /\ j \in Int /\ n \in Nat \ {0} /\ p \in Int
    BY <1>1, <1>2
  <2>2. k * n \in Int /\ j * n \in Int
    BY <2>1, Z3
  <2>3. k * n = j * n
    BY <1>6, <2>1, <2>2
  <2> QED
    BY <2>1, <2>3, Z3
<1> HIDE DEF at, k0
<1>7. f \in [k0 + 1 .. m -> S]
  BY <1>4
<1>8. \A k, j \in k0 + 1 .. m : f[k] = f[j] => k = j
  BY <1>6
<1>9. \A i \in S : \E k \in k0 + 1 .. m : f[k] = i
  BY <1>5
<1> HIDE DEF f, S
<1>10. f \in Bijection(k0 + 1 .. m, S)
  BY <1>7, <1>8, <1>9 DEF Bijection, Injection, Surjection, IsInjective
<1>11. ExistsBijection(k0 + 1 .. m, S)
  BY <1>10 DEF ExistsBijection
<1>12. IsFiniteSet(k0 + 1 .. m) /\ Cardinality(k0 + 1 .. m) = m - k0
  <2>1. IsFiniteSet(k0 + 1 .. m)
        /\ Cardinality(k0 + 1 .. m) = (IF k0 + 1 > m THEN 0 ELSE m - (k0 + 1) + 1)
    <3>1. k0 + 1 \in Int /\ m \in Int
      BY <1>1, <1>2
    <3> QED
      BY <3>1, FS_Interval
  <2> QED
    BY <1>1, <1>2, <2>1
<1>13. Cardinality(S) = m - k0
  BY <1>11, <1>12, FS_Bijection
<1> QED
  BY <1>13 DEF S, m, n, p, k0

\* The mapping of the accepted cases, by the place of a server.
Booked == Accepted = [s \in Party |-> AcceptedAt(s)]

\* That is what the mapping says.
LEMMA AcceptedIs ==
  ASSUME Safe
  PROVE  Booked
<1> SUFFICES ASSUME NEW s \in Party PROVE Accepted[s] = AcceptedAt(s)
  BY DEF Accepted, Booked
<1>1. config.cases \in Nat /\ Pos(s) \div CaseLen \in Int
  <2>1. Types /\ Pos(s) \in Nat
    BY Numbers DEF Safe, Base
  <2> QED
    BY <2>1, SessionAssumption, InCase DEF Types
<1>2. Cardinality({i \in DOMAIN todo[s] : todo[s][i].op = "demand"})
        = config.cases - Pos(s) \div CaseLen
  BY DemandsLeft DEF Safe, Base
<1>3. \A a, b, c \in Int : a - (a - b) - c = b - c
  OBVIOUS
<1> DEFINE q == Pos(s) \div CaseLen
           d == IF status[s] = "incorrect" THEN 1 ELSE 0
<1>4. config.cases - (config.cases - q) - d = q - d
  <2>1. q \in Int /\ d \in Int /\ config.cases \in Int
    BY <1>1
  <2> HIDE DEF q, d
  <2> QED
    BY <1>3, <2>1
<1>5. Accepted[s] = config.cases - (config.cases - q) - d
  BY <1>2 DEF Accepted
<1> QED
  BY <1>4, <1>5 DEF AcceptedAt

\* The servers of the promise, and how they end there.
LEMMA PromiseServers ==
  /\ Promise!Server = Party /\ \A s \in Party : Promise!Other(s) = Peer(s)
  /\ \A s : Promise!Running(s) <=> HowEnded[s] = "running"
BY DEF Promise!Server, Promise!Other, Promise!Running, Party, Peer, ALICE, BOB

\* How a process ended, with and without the reasons of a failure.
LEMMA HowIs ==
  ASSUME Types
  PROVE  \A s \in Party :
           /\ HowEnded[s] \in {"running", "refused", "incorrect", "done", "failed"}
           /\ HowEnded[s] = "running" <=> Running(s)
           /\ \A how \in {"refused", "incorrect", "done"} : HowEnded[s] = how <=> status[s] = how
BY DEF Types, HowEnded, Statuses, Running

\* How a process ends is how it ends there, and failed for what is not its own doing.
LEMMA HowEnds ==
  ASSUME Types, NEW s \in Party,
         NEW how \in {"refused", "incorrect", "done", "lost", "undecoded", "crashed"}, End(s, how)
  PROVE  HowEnded' = [HowEnded EXCEPT ![s] = IF how \in {"lost", "undecoded", "crashed"}
                                             THEN "failed" ELSE how]
BY DEF Types, HowEnded, End

\* A step that moves only one server leaves the cases that the other has accepted.
LEMMA BookedGoes ==
  ASSUME Safe, Booked, Booked', NEW s \in Party, Goes(s), status'[Peer(s)] = status[Peer(s)]
  PROVE  Accepted' = [Accepted EXCEPT ![s] =
                        (Pos(s) \div CaseLen + (IF At(s).op = "demand" THEN 1 ELSE 0))
                          - (IF status'[s] = "incorrect" THEN 1 ELSE 0)]
<1> DEFINE t == Peer(s)
           d == IF At(s).op = "demand" THEN 1 ELSE 0
           e == IF status'[s] = "incorrect" THEN 1 ELSE 0
<1>1. Types /\ Where /\ config \in Configs /\ config' = config
  BY DEF Safe, Base, Types, Goes
<1>2. /\ Pos(s)' = Pos(s) + 1 /\ Pos(t)' = Pos(t) /\ Pos(s) + 1 \in 1 .. Whole
      /\ At(s) = Script(s)[Pos(s) + 1] /\ CaseLen' = CaseLen /\ Pos(s) \in 0 .. Whole - 1
  BY <1>1, MovesTo, Fixed, Numbers
<1>3. (Pos(s) + 1) \div CaseLen = Pos(s) \div CaseLen + d
  <2>1. CASE At(s).op = "demand"
    BY <1>1, <1>2, <2>1, NextPlace
  <2>2. CASE At(s).op # "demand"
    <3>1. (Pos(s) + 1) \div CaseLen = Pos(s) \div CaseLen
      BY <1>1, <1>2, <2>2, NextPlace
    <3>2. Pos(s) \div CaseLen \in Int
      BY <1>1, <1>2, Numbers, InCase
    <3> QED
      BY <2>2, <3>1, <3>2
  <2> QED
    BY <2>1, <2>2
<1> DEFINE x == Pos(s)' \div CaseLen'
           y == Pos(s) \div CaseLen + d
<1>4. Accepted'[s] = y - e
  <2>1. Accepted'[s] = x - e
    BY DEF Booked, AcceptedAt
  <2>2. x = y
    <3>1. Pos(s)' \div CaseLen' = (Pos(s) + 1) \div CaseLen
      BY <1>2
    <3> HIDE DEF d
    <3> QED
      BY <1>3, <3>1, Zenon
  <2> HIDE DEF x, y, e
  <2> QED
    BY <2>1, <2>2
<1>5. Accepted'[t] = Accepted[t] /\ t \in Party
  BY <1>2, PeerIs DEF Booked, AcceptedAt
<1>6. Accepted' = [r \in Party |-> Accepted'[r]] /\ Accepted = [r \in Party |-> Accepted[r]]
  BY DEF Booked
<1> HIDE DEF e, t, x, y
<1>7. Accepted' = [Accepted EXCEPT ![s] = y - e]
  BY <1>4, <1>5, <1>6, PeerIs DEF t
<1> QED
  BY <1>7 DEF e, y

\* A step that moves none leaves them if nobody turns out incorrect.
LEMMA BookedStays ==
  ASSUME Booked, Booked', UNCHANGED <<config, todo>>, SameEnds("incorrect")
  PROVE  Accepted' = Accepted
<1>1. \A r \in Party : Pos(r)' = Pos(r) /\ CaseLen' = CaseLen
  BY Fixed DEF Pos
<1>2. ASSUME NEW r \in Party PROVE AcceptedAt(r)' = AcceptedAt(r)
  BY <1>1 DEF AcceptedAt, SameEnds
<1> QED
  BY <1>2 DEF Booked

\* A server that runs has accepted the cases that it is past, and still does when it is
\* past an operation that is no demand.
LEMMA BookedSame ==
  ASSUME Safe, Booked, NEW s \in Party, Running(s)
  PROVE  /\ Accepted[s] = Pos(s) \div CaseLen /\ Accepted[s] \in Int
         /\ Booked' /\ Goes(s) /\ At(s).op # "demand" /\ status'[s] # "incorrect"
              /\ status'[Peer(s)] = status[Peer(s)]
            => Accepted' = Accepted
<1>1. Pos(s) \div CaseLen \in Int /\ Types
  <2>1. Types /\ Where
    BY DEF Safe, Base
  <2>2. Pos(s) \in Nat
    BY <2>1, Numbers
  <2> QED
    BY <2>1, <2>2, InCase
<1>2. /\ status[s] # "incorrect"
      /\ Accepted[s] = Pos(s) \div CaseLen - 0 /\ Accepted = [r \in Party |-> Accepted[r]]
  BY DEF Booked, AcceptedAt, Running
<1>3. Pos(s) \div CaseLen + 0 = Accepted[s] /\ Accepted[s] = Pos(s) \div CaseLen
  BY <1>1, <1>2
<1>4. ASSUME Booked', Goes(s), At(s).op # "demand", status'[s] # "incorrect",
             status'[Peer(s)] = status[Peer(s)]
      PROVE  Accepted' = Accepted
  <2>1. Accepted' = [Accepted EXCEPT ![s] = (Pos(s) \div CaseLen + 0) - 0]
    BY <1>4, BookedGoes
  <2>2. (Pos(s) \div CaseLen + 0) - 0 = Accepted[s]
    BY <1>1, <1>3
  <2> QED
    BY <1>2, <2>1, <2>2
<1> QED
  BY <1>1, <1>3, <1>4

\* Steps that the promise does not see.
LEMMA Silent ==
  ASSUME Safe, Booked, Booked', NEW s \in Party, Goes(s), Running(s), At(s).op # "demand",
         UNCHANGED <<status, shuffles, outcome>>
  PROVE  UNCHANGED Promise!vars
<1>1. Accepted' = Accepted
  BY BookedSame DEF Running
<1> QED
  BY <1>1 DEF Promise!vars, HowEnded, Goes

\* A process that is lost, cannot decode or crashes fails.
LEMMA PromiseFails ==
  ASSUME Safe, Booked, Booked', NEW s \in Party, NEW how \in {"lost", "undecoded", "crashed"},
         Running(s), End(s, how), UNCHANGED <<config, todo, shuffles, outcome>>
  PROVE  Promise!Fail(s)
<1>1. Types
  BY DEF Safe, Base
<1>2. HowEnded' = [HowEnded EXCEPT ![s] = "failed"] /\ HowEnded[s] = "running"
  BY <1>1, HowEnds, HowIs
<1>3. SameEnds("incorrect")
  BY <1>1 DEF Types, End, Running, SameEnds
<1>4. Accepted' = Accepted
  BY <1>3, BookedStays
<1> QED
  BY <1>2, <1>4 DEF Promise!Fail, Promise!Running, Promise!End

\* Whoever refused is not beside a server that shuffles or demands, or is through.
LEMMA NotRefused ==
  ASSUME Safe, NEW s \in Party, Running(s),
         todo[s] # <<>> => At(s).op \in {"shuffle", "demand"}
  PROVE  status[Peer(s)] # "refused"
<1> SUFFICES ASSUME status[Peer(s)] = "refused" PROVE FALSE
  OBVIOUS
<1>1. status[ALICE] = "refused" /\ s = BOB
  BY PeerIs DEF Safe, Upper, Refusal, Running
<1>2. /\ Types /\ Where /\ Pos(ALICE) \in Nat /\ Pos(BOB) \in 0 .. Whole /\ Whole \in Nat
      /\ BOB \in Party /\ ALICE \in Party /\ Peer(ALICE) = BOB
  BY Numbers, PeerIs DEF Safe, Base
<1>3. Pos(ALICE) <= Pos(BOB) => status[BOB] = "refused"
  BY <1>1 DEF Safe, Upper, Refusal
<1>4. Pos(BOB) = Pos(ALICE) - 1 /\ Pos(ALICE) \in 1 .. Whole /\ Script(ALICE)[Pos(ALICE)].op = "decide"
  BY <1>1, <1>2, <1>3, RefusedNear DEF Running
<1>5. Pos(BOB) + 1 = Pos(ALICE) /\ Pos(BOB) # Whole
  BY <1>2, <1>4
<1>6. todo[BOB] # <<>>
  BY <1>2, <1>5, DoneIsWhole
<1>7. At(BOB) = Script(BOB)[Pos(ALICE)]
  BY <1>2, <1>5, <1>6, Stands
<1>8. Script(BOB)[Pos(ALICE)].op = "obey"
  <2>1. Script(BOB)[Pos(ALICE)].op = "obey" <=> Script(ALICE)[Pos(ALICE)].op = "decide"
    BY <1>2, <1>4, Places, PeerIs DEF Types
  <2> QED
    BY <1>4, <2>1
<1> QED
  BY <1>1, <1>6, <1>7, <1>8

\* A server that is not ahead of one that has still to go did not end by itself.
LEMMA NotEnded ==
  ASSUME Safe, Inv, NEW s \in Party, Running(s), Pos(Peer(s)) <= Pos(s)
  PROVE  /\ status[Peer(s)] # "incorrect"
         /\ todo[s] # <<>> => status[Peer(s)] # "done"
<1>1. status[Peer(s)] # "incorrect"
  BY PeerIs DEF Safe, Upper, Incorrect, Running
<1>2. ASSUME todo[s] # <<>>, status[Peer(s)] = "done" PROVE FALSE
  <2>1. Pos(Peer(s)) = Whole /\ Peer(s) \in Party
    BY <1>2, DoneIsWhole, PeerIs DEF Inv
  <2>2. Pos(s) \in 0 .. Whole - 1 /\ Whole \in Nat
    BY <1>2, Stands, Numbers DEF Safe, Base
  <2> QED
    BY <2>1, <2>2
<1> QED
  BY <1>1, <1>2

\* Only parameters that fit lead to an operation that is no demand.
LEMMA ValidAt ==
  ASSUME Safe, NEW s \in Party, Running(s), todo[s] = <<>> \/ At(s).op # "demand"
  PROVE  config.valid
<1> SUFFICES ASSUME ~config.valid PROVE FALSE
  OBVIOUS
<1>1. Types /\ Where /\ config \in Configs /\ config.cases \in Nat \ {0}
  BY SessionAssumption DEF Safe, Base, Types
<1>2. Pos(s) = 0 /\ CaseLen = 1
  BY <1>1, CaseIs DEF Safe, Upper, Invalid, Running, CaseFacts, CaseLen
<1>3. Whole = config.cases
  BY <1>1, <1>2 DEF Whole
<1>4. CASE todo[s] = <<>>
  BY <1>1, <1>2, <1>3, <1>4, DoneIsWhole
<1>5. CASE todo[s] # <<>>
  <2>1. At(s) = Script(s)[0 + 1] /\ 0 \in 0 .. Whole - 1
    BY <1>1, <1>2, <1>5, Stands
  <2>2. 0 % CaseLen \in 0 .. CaseLen - 1
    BY <1>1, <2>1, NextPlace
  <2>3. 0 % CaseLen = CaseLen - 1
    BY <1>2, <2>2
  <2>4. Script(s)[0 + 1].op = "demand"
    BY <1>1, <2>1, <2>3, NextPlace
  <2> QED
    BY <1>5, <2>1, <2>4
<1> QED
  BY <1>4, <1>5

\* What a case leaves to begin: all is begun at its demand, and something is left where a
\* shuffle or a verdict is.
LEMMA RoomLeft ==
  ASSUME Safe, NEW s \in Party, todo[s] # <<>>, config.valid
  PROVE  /\ At(s).op = "demand" => shuffles[s] = (Pos(s) \div CaseLen + 1) * config.reps
         /\ At(s).op \in {"shuffle", "decide", "obey"} =>
              shuffles[s] < (Pos(s) \div CaseLen + 1) * config.reps
<1> DEFINE n == CaseLen
           p == Pos(s)
           c == p % n
           q == p \div n
           m == config.reps
           D(k) == Done(s, "shuffle", k)
<1>1. /\ Types /\ Where /\ config \in Configs /\ m \in Nat /\ p \in 0 .. Whole - 1
      /\ At(s) = Script(s)[p + 1] /\ p \in Nat /\ Whole \in Nat
  BY Stands, Numbers, SessionAssumption DEF Safe, Base, Types
<1>2. /\ c \in 0 .. n - 1 /\ q \in Int /\ n \in Nat \ {0} /\ Script(s)[p + 1] = Case(s)[c + 1]
      /\ Script(s)[p + 1].op = "demand" <=> c = n - 1
  BY <1>1, InCase, NextPlace
<1>3. shuffles[s] = q * m + D(c) /\ D(n - 1) = m
  <2>1. shuffles[s] = q * m + D(c)
    BY DEF Safe, Upper, Counted, CountedAt
  <2>2. D(n - 1) = m
    BY <1>1, DoneAll
  <2> QED
    BY <2>1, <2>2
<1>4. ASSUME NEW k \in Nat
      PROVE  /\ D(k) \in Nat
             /\ Case(s)[k + 1].op = "shuffle" => D(k + 1) = D(k) + 1
             /\ \A d \in 0 .. k : D(d) <= D(k)
  BY DoneNext
<1>5. (q + 1) * m = q * m + m /\ q * m \in Int
  BY <1>1, <1>2, Z3
<1> HIDE DEF n, p, c, q, m, D
<1>6. CASE At(s).op = "demand"
  BY <1>1, <1>2, <1>3, <1>5, <1>6 DEF n, p, q, m
<1>7. ASSUME At(s).op \in {"shuffle", "decide", "obey"}
      PROVE  \E k \in c .. n - 2 : Case(s)[k + 1].op = "shuffle"
  <2>1. c # n - 1
    BY <1>1, <1>2, <1>7
  <2>2. CASE At(s).op = "shuffle"
    <3>1. c \in c .. n - 2 /\ Case(s)[c + 1].op = "shuffle"
      BY <1>1, <1>2, <2>1, <2>2
    <3> QED
      BY <3>1
  <2>3. CASE At(s).op \in {"decide", "obey"}
    <3>1. /\ Ordered(Case(ALICE)) /\ Len(Case(ALICE)) = n
          /\ \A i \in 1 .. n : Match(Case(ALICE)[i], Case(BOB)[i])
          /\ \A i \in 1 .. n : Case(ALICE)[i].op = "demand" <=> i = n
      BY <1>1, CaseIs, ScriptOrdered DEF CaseFacts, CaseLen, Fits, n
    <3>2. c + 1 \in 1 .. n
      BY <1>2
    <3>3. Case(ALICE)[c + 1].op = "decide"
      <4>1. Case(s)[c + 1].op \in {"decide", "obey"}
        BY <1>1, <1>2, <2>3
      <4>2. Match(Case(ALICE)[c + 1], Case(BOB)[c + 1])
        BY <3>1, <3>2
      <4>3. Script(s)[p + 1].op = "decide" => s = ALICE
        <5>1. p + 1 \in 1 .. Whole
          BY <1>1
        <5> QED
          BY <1>1, <5>1, Places
      <4>4. Script(s)[p + 1].op = "obey" => s = BOB
        <5>1. p + 1 \in 1 .. Whole
          BY <1>1
        <5> QED
          BY <1>1, <5>1, Places
      <4> QED
        BY <1>2, <4>1, <4>2, <4>3, <4>4 DEF Match
    <3>4. PICK k \in c + 1 + 1 .. n : Case(ALICE)[k].op = "shuffle"
      BY <3>1, <3>2, <3>3 DEF Ordered
    <3>5. k \in 1 .. n /\ k # n
      BY <1>2, <3>1, <3>2, <3>4
    <3>6. Case(s)[k].op = "shuffle"
      <4>1. Case(BOB)[k].op = "shuffle"
        BY <3>1, <3>4, <3>5 DEF Match
      <4> QED
        BY <3>4, <4>1, PeerIs
    <3>7. k - 1 \in c .. n - 2 /\ (k - 1) + 1 = k
      BY <1>2, <3>4, <3>5
    <3> QED
      BY <3>6, <3>7
  <2> QED
    BY <1>7, <2>2, <2>3
<1>8. CASE At(s).op \in {"shuffle", "decide", "obey"}
  <2>1. PICK k \in c .. n - 2 : Case(s)[k + 1].op = "shuffle"
    BY <1>7, <1>8
  <2>2. k \in Nat /\ n - 1 \in Nat /\ c \in 0 .. k /\ k + 1 \in 0 .. n - 1
    BY <1>2
  <2>3. D(c) <= D(k) /\ D(k + 1) = D(k) + 1 /\ D(k + 1) <= D(n - 1) /\ D(k) \in Nat
    BY <1>4, <2>1, <2>2
  <2>4. c \in Nat
    BY <1>2
  <2>5. D(c) \in Nat /\ D(c) < m
    BY <1>1, <1>3, <1>4, <2>3, <2>4
  <2>6. shuffles[s] < (q + 1) * m
    BY <1>1, <1>3, <1>5, <2>5
  <2> QED
    BY <1>8, <2>6 DEF n, p, q, m
<1> QED
  BY <1>6, <1>8

\* A server that is ahead has not passed a shuffle to come to another, or to a demand, nor
\* a demand to come to a shuffle.
LEMMA Near ==
  ASSUME Safe, NEW s \in Party, NEW i \in 1 .. Whole, NEW j \in 1 .. Whole,
         Pos(Peer(s)) < i, i < j, j <= Pos(s) + 1, NEW o \in {"shuffle", "demand"},
         \/ Script(s)[i].op = "shuffle" /\ Script(s)[j].op = o
         \/ Script(s)[i].op = o /\ Script(s)[j].op = "shuffle"
  PROVE  FALSE
<1>1. /\ Types /\ config \in Configs /\ Pos(s) \in Nat /\ Pos(Peer(s)) \in Nat /\ Whole \in Nat
  BY Numbers, PeerIs DEF Safe, Base, Types
<1>2. Linked(s)
  <2>1. Pos(Peer(s)) <= Pos(s)
    BY <1>1
  <2> QED
    BY <2>1 DEF Safe, Base, Link
<1>3. PICK k \in i + 1 .. j : Script(s)[k].op \in Receives
  BY <1>1, Waits
<1>4. k # j
  BY <1>3 DEF Receives
<1>5. k \in Pos(Peer(s)) + 1 .. Pos(s)
  BY <1>1, <1>4
<1> QED
  BY <1>2, <1>3, <1>5 DEF Linked

\* Servers with no shuffle between them have begun as many.
LEMMA AsMany ==
  ASSUME Safe, Past, NEW s \in Party, Pos(Peer(s)) <= Pos(s),
         \A i \in Pos(Peer(s)) + 1 .. Pos(s) : Script(s)[i].op # "shuffle"
  PROVE  shuffles[s] = shuffles[Peer(s)]
<1>1. /\ Peer(s) \in Party /\ Pos(s) \in Nat /\ Pos(Peer(s)) \in 0 .. Whole /\ config \in Configs
      /\ Whole \in Nat
  BY Numbers, PeerIs DEF Safe, Base, Types
<1>2. Pos(Peer(s)) \in 0 .. Pos(s)
  BY <1>1
<1>3. Begun(s, Pos(Peer(s))) = Begun(s, Pos(s))
  BY <1>1, <1>2, BegunIs
<1>4. Begun(Peer(s), Pos(Peer(s))) = Begun(s, Pos(Peer(s)))
  BY <1>1, BegunBoth
<1> QED
  BY <1>1, <1>3, <1>4 DEF Past

\* The other server of the promise is free to go on but for how it ended.
LEMMA FreeIs ==
  ASSUME Types, NEW s \in Party, NEW hows,
         \A how \in {"refused", "incorrect", "done"} : status[Peer(s)] = how => how \in hows
  PROVE  Promise!Free(s, hows)
<1>1. Peer(s) \in Party /\ Promise!Other(s) = Peer(s)
  BY PeerIs, PromiseServers
<1>2. /\ HowEnded[Peer(s)] \in {"running", "refused", "incorrect", "done", "failed"}
      /\ \A how \in {"refused", "incorrect", "done"} :
           HowEnded[Peer(s)] = how <=> status[Peer(s)] = how
  BY <1>1, HowIs
<1> QED
  BY <1>1, <1>2 DEF Promise!Free

\* A server in its script is in one of the cases of the promise, and what it has left to
\* begin there is as the promise says.
LEMMA PromiseInCase ==
  ASSUME Safe, Booked, NEW s \in Party, Running(s), todo[s] # <<>>
  PROVE  /\ Promise!InCase(s)
         /\ config.valid =>
              /\ At(s).op = "demand" => shuffles[s] = Promise!CaseEnd(s)
              /\ At(s).op \in {"shuffle", "decide", "obey"} => shuffles[s] < Promise!CaseEnd(s)
<1>1. Types /\ Where
  BY DEF Safe, Base
<1>2. Pos(s) \div CaseLen \in 0 .. config.cases - 1 /\ config.cases \in Nat
  <2>1. Pos(s) \in 0 .. Whole - 1 /\ config \in Configs
    BY <1>1, Stands DEF Types
  <2> QED
    BY <2>1, CaseOf, SessionAssumption
<1>3. Accepted[s] = Pos(s) \div CaseLen
  BY BookedSame
<1>4. Promise!InCase(s)
  <2>1. HowEnded[s] = "running"
    BY <1>1, HowIs
  <2>2. Accepted[s] < config.cases
    <3> DEFINE q == Pos(s) \div CaseLen
    <3>1. q \in 0 .. config.cases - 1 /\ Accepted[s] = q
      BY <1>2, <1>3
    <3> HIDE DEF q
    <3> QED
      BY <1>2, <3>1
  <2> QED
    BY <2>1, <2>2 DEF Promise!InCase, Promise!Running
<1>5. Promise!CaseEnd(s) = (Pos(s) \div CaseLen + 1) * config.reps
  BY <1>3 DEF Promise!CaseEnd
<1> QED
  BY <1>4, <1>5, RoomLeft

\* The start of a shuffle: the other is not two ahead or behind, and has not refused.
LEMMA PromiseBegins ==
  ASSUME Safe, Inv, Past, Booked, Booked', NEW s \in Party, BeginShuffle(s)
  PROVE  Promise!Begin(s)
<1> DEFINE t == Peer(s)
           p == Pos(s)
           r == Pos(t)
<1>1. /\ Types /\ Where /\ config \in Configs /\ t \in Party /\ Peer(t) = s
      /\ p \in Nat /\ r \in 0 .. Whole /\ r \in Nat /\ Whole \in Nat
  BY Numbers, PeerIs DEF Safe, Base, Types
<1>2. /\ Goes(s) /\ Running(s) /\ At(s).op = "shuffle" /\ Script(s)[p + 1].op = "shuffle"
      /\ p + 1 \in 1 .. Whole /\ todo[s] # <<>>
  <2>1. Is(s, "shuffle") /\ Advance(s) /\ config' = config
    BY DEF BeginShuffle
  <2>2. todo[s] # <<>>
    BY <2>1 DEF Is
  <2> QED
    BY <2>1, <2>2, IsAt DEF Safe
<1>3. Script(t)[p + 1].op = "shuffle"
  BY <1>1, <1>2, Places
<1>4. config.valid
  BY <1>2, ValidAt
<1>5. status[t] # "refused"
  BY <1>2, NotRefused
<1>6. status[t] # "incorrect" /\ status[t] # "done"
  <2>1. CASE r <= p
    BY <1>2, <2>1, NotEnded
  <2>2. CASE p < r
    <3> SUFFICES ASSUME status[t] \in {"incorrect", "done"} PROVE FALSE
      OBVIOUS
    <3>1. Script(t)[r].op = "demand" /\ r \in 1 .. Whole
      <4>1. r \in 1 .. Whole
        BY <1>1, <2>2
      <4>2. CASE status[t] = "incorrect"
        BY <1>1, <4>1, <4>2 DEF Safe, Upper, Incorrect
      <4>3. CASE status[t] = "done"
        <5>1. r = Whole
          BY <1>1, <4>3, DoneIsWhole DEF Inv
        <5>2. config.cases \in 1 .. config.cases /\ Whole = config.cases * CaseLen
          BY <1>1, SessionAssumption DEF Whole
        <5> QED
          BY <1>1, <4>1, <5>1, <5>2, CaseOf
      <4> QED
        BY <4>1, <4>2, <4>3
    <3>2. r # p + 1
      BY <1>3, <3>1
    <3>3. p < p + 1 /\ p + 1 < r /\ r <= r + 1
      BY <1>1, <2>2, <3>2
    <3> QED
      BY <1>1, <1>2, <1>3, <3>1, <3>3, Near
  <2> QED
    BY <1>1, <2>1, <2>2
<1>7. shuffles[s] <= shuffles[t]
  <2>1. shuffles[s] = Begun(s, p) /\ shuffles[t] = Begun(t, r)
    BY <1>1 DEF Past
  <2>2. CASE p <= r
    <3>1. Begun(s, p) <= Begun(s, r)
      <4>1. p \in 0 .. r
        BY <1>1, <2>2
      <4> QED
        BY <1>1, <4>1, BegunIs
    <3>2. Begun(t, r) = Begun(s, r)
      BY <1>1, BegunBoth
    <3> QED
      BY <2>1, <3>1, <3>2
  <2>3. CASE r < p
    <3>1. ASSUME NEW i \in r + 1 .. p, Script(s)[i].op = "shuffle" PROVE FALSE
      <4>1. i \in 1 .. Whole /\ r < i /\ i < p + 1 /\ p + 1 <= p + 1
        BY <1>1, <1>2
      <4> QED
        BY <1>2, <3>1, <4>1, Near
    <3>2. r <= p
      BY <1>1, <2>3
    <3>3. shuffles[s] = shuffles[t]
      BY <3>1, <3>2, AsMany
    <3>4. shuffles[s] \in Nat
      BY <1>1 DEF Types
    <3> QED
      BY <3>3, <3>4
  <2> QED
    BY <1>1, <2>2, <2>3
<1>8. Promise!Free(s, {})
  BY <1>1, <1>5, <1>6, FreeIs
<1>9. Promise!InCase(s) /\ shuffles[s] < Promise!CaseEnd(s)
  BY <1>2, <1>4, PromiseInCase
<1>10. /\ shuffles' = [shuffles EXCEPT ![s] = @ + 1]
       /\ status' = status /\ config' = config /\ outcome' = outcome
  BY DEF BeginShuffle
<1>11. Accepted' = Accepted
  BY <1>2, <1>10, BookedSame DEF Running
<1>12. HowEnded' = HowEnded
  BY <1>10 DEF HowEnded
<1> HIDE DEF t
<1> QED
  BY <1>4, <1>7, <1>8, <1>9, <1>10, <1>11, <1>12, PromiseServers DEF Promise!Begin, t

\* Servers with no demand between them are in the same case.
LEMMA SameCases ==
  ASSUME config \in Configs, NEW s \in Party, NEW p \in 0 .. Whole, NEW r \in 0 .. p,
         \A i \in r + 1 .. p : Script(s)[i].op # "demand"
  PROVE  r \div CaseLen = p \div CaseLen
<1> DEFINE n == CaseLen
           a == r \div n
           b == p \div n
<1>1. n \in Nat \ {0} /\ Whole \in Nat /\ p \in Nat /\ r \in Nat
  BY ScriptIs
<1>2. /\ \A i \in 1 .. Whole :
           Script(s)[i].op = "demand" <=> \E k \in 1 .. config.cases : i = k * n
      /\ \A q \in 0 .. Whole - 1 : q \div n \in 0 .. config.cases - 1
      /\ Whole \div n = config.cases
      /\ config.cases \in Nat
  BY CaseOf, SessionAssumption
<1>3. \A q \in 0 .. Whole : q \div n \in 0 .. config.cases
  <2> TAKE q \in 0 .. Whole
  <2>1. CASE q = Whole
    BY <1>2, <2>1
  <2>2. CASE q # Whole
    <3>1. q \in 0 .. Whole - 1
      BY <1>1, <2>2
    <3> DEFINE c == q \div n
    <3>2. c \in 0 .. config.cases - 1
      BY <1>2, <3>1
    <3> HIDE DEF c
    <3>3. c \in 0 .. config.cases
      BY <1>2, <3>2
    <3> QED
      BY <3>3 DEF c
  <2> QED
    BY <2>1, <2>2
<1>4. a \in 0 .. config.cases /\ b \in 0 .. config.cases
  <2>1. r \in 0 .. Whole
    BY <1>1
  <2> QED
    BY <1>3, <2>1, Zenon
<1>5. \A k \in Nat : (k * n > p <=> k > b) /\ (k * n > r <=> k > a)
  BY <1>1, CasesBehind
<1> HIDE DEF n, a, b
<1>6. \A k \in Nat : k * n \in Nat
  BY <1>1, Z3
<1>7. ~(a > b)
  <2>1. a \in Nat /\ b \in Nat /\ r <= p
    BY <1>1, <1>2, <1>4
  <2>2. ~(a * n > r) /\ a * n \in Nat /\ (a * n > p <=> a > b)
    BY <1>5, <1>6, <2>1
  <2>3. ~(a * n > p)
    <3> DEFINE m == a * n
    <3>1. m \in Nat /\ ~(m > r)
      BY <2>2
    <3> HIDE DEF m
    <3>2. ~(m > p)
      BY <1>1, <2>1, <3>1
    <3> QED
      BY <3>2 DEF m
  <2> QED
    BY <2>2, <2>3
<1>8. ASSUME a < b PROVE FALSE
  <2>1. b \in 1 .. config.cases /\ b \in Nat
    BY <1>2, <1>4, <1>8
  <2>2. b * n > r /\ ~(b * n > p) /\ b * n \in Nat
    BY <1>4, <1>5, <1>6, <1>8, <2>1
  <2>3. b * n \in r + 1 .. p /\ b * n \in 1 .. Whole
    BY <1>1, <2>2
  <2> QED
    BY <1>2, <2>1, <2>3
<1>9. a = b
  BY <1>2, <1>4, <1>7, <1>8
<1> QED
  BY <1>9 DEF a, b, n

\* ALICE refuses beside a BOB who is as far as she is.
LEMMA PromiseRefusal ==
  ASSUME Safe, Inv, Past, Booked, Booked', Decide(FALSE)
  PROVE  Promise!Refuse(ALICE)
<1> DEFINE p == Pos(ALICE)
           r == Pos(BOB)
<1>1. /\ Types /\ Where /\ Link /\ config \in Configs /\ ALICE \in Party /\ BOB \in Party
      /\ Peer(ALICE) = BOB /\ Peer(BOB) = ALICE
      /\ p \in Nat /\ r \in 0 .. Whole /\ r \in Nat /\ Whole \in Nat
  BY Numbers, PeerIs DEF Safe, Base, Types
<1>2. /\ Goes(ALICE) /\ Running(ALICE) /\ At(ALICE).op = "decide"
      /\ Script(ALICE)[p + 1].op = "decide" /\ p + 1 \in 1 .. Whole /\ todo[ALICE] # <<>>
  <2>1. Is(ALICE, "decide") /\ Advance(ALICE) /\ config' = config
    BY DEF Decide
  <2>2. todo[ALICE] # <<>>
    BY <2>1 DEF Is
  <2> QED
    BY <1>1, <2>1, <2>2, IsAt DEF Safe
<1>3. r <= p /\ Linked(ALICE)
  BY <1>1, <1>2, SenderLeads DEF Sends
<1>4. r = p
  <2>1. Script(ALICE)[(p + 1) - 1].op \in Receives /\ (p + 1) - 1 = p
    BY <1>1, <1>2, After
  <2>2. ~(p \in r + 1 .. p)
    BY <1>1, <1>3, <2>1 DEF Linked
  <2> QED
    BY <1>1, <1>3, <2>2
<1>5. config.valid
  BY <1>1, <1>2, ValidAt
<1>6. status[BOB] # "incorrect" /\ status[BOB] # "done"
  BY <1>1, <1>2, <1>3, NotEnded
<1>7. Promise!Free(ALICE, {"refused"})
  BY <1>1, <1>6, FreeIs
<1>8. Promise!InCase(ALICE) /\ shuffles[ALICE] < Promise!CaseEnd(ALICE)
  BY <1>1, <1>2, <1>5, PromiseInCase
<1>9. shuffles[ALICE] = shuffles[BOB]
  <2>1. \A i \in r + 1 .. p : FALSE
    BY <1>1, <1>4
  <2> QED
    BY <1>1, <1>3, <2>1, AsMany
<1>10. Accepted[ALICE] = Accepted[BOB]
  <2>1. Accepted[ALICE] = p \div CaseLen /\ p \div CaseLen \in Int
    BY <1>1, <1>2, BookedSame, InCase
  <2>2. Accepted[BOB] = r \div CaseLen - 0
    BY <1>1, <1>6 DEF Booked, AcceptedAt
  <2> HIDE DEF p, r
  <2> QED
    BY <1>4, <2>1, <2>2
<1>11. End(ALICE, "refused") /\ UNCHANGED <<config, shuffles, outcome>>
  BY DEF Decide
<1>12. HowEnded' = [HowEnded EXCEPT ![ALICE] = "refused"]
  BY <1>1, <1>11, HowEnds
<1>13. Accepted' = Accepted
  <2>1. status'[ALICE] # "incorrect" /\ status'[BOB] = status[BOB]
    BY <1>1, <1>11, PeerIs DEF End, Types
  <2> QED
    BY <1>1, <1>2, <2>1, BookedSame
<1>14. Promise!Other(ALICE) = BOB
  BY <1>1, PromiseServers
<1> QED
  BY <1>5, <1>7, <1>8, <1>9, <1>10, <1>11, <1>12, <1>13, <1>14 DEF Promise!Refuse, Promise!End

\* BOB refuses what ALICE refused.
LEMMA PromiseObeys ==
  ASSUME Safe, Past, Booked, Booked', Obey, ~Obeyed(Head(chan[BOB]))
  PROVE  Promise!Refuse(BOB)
<1> DEFINE p == Pos(BOB)
<1>1. /\ Types /\ Where /\ config \in Configs /\ ALICE \in Party /\ BOB \in Party
      /\ Peer(ALICE) = BOB /\ Peer(BOB) = ALICE /\ p \in Nat /\ Whole \in Nat
  BY Numbers, PeerIs DEF Safe, Base, Types
<1>2. /\ Goes(BOB) /\ Running(BOB) /\ At(BOB).op = "obey"
      /\ Script(BOB)[p + 1].op = "obey" /\ p + 1 \in 1 .. Whole /\ todo[BOB] # <<>>
  <2>1. Is(BOB, "obey") /\ Advance(BOB) /\ config' = config
    BY DEF Obey
  <2>2. todo[BOB] # <<>>
    BY <2>1 DEF Is
  <2> QED
    BY <1>1, <2>1, <2>2, IsAt DEF Safe
<1>3. status[ALICE] = "refused" /\ Pos(ALICE) = p + 1
  BY <1>2, ObeyTakes DEF Safe, Upper, Obey, Obeyed
<1>4. config.valid
  BY <1>1, <1>2, ValidAt
<1>5. Promise!Free(BOB, {"refused"})
  BY <1>1, <1>3, FreeIs
<1>6. Promise!InCase(BOB) /\ shuffles[BOB] < Promise!CaseEnd(BOB)
  BY <1>1, <1>2, <1>4, PromiseInCase
<1>7. shuffles[ALICE] = shuffles[BOB]
  BY <1>1, <1>3, SafeRefused DEF RefusedTogether
<1>8. Accepted[BOB] = Accepted[ALICE]
  <2>1. Accepted[BOB] = p \div CaseLen /\ p \div CaseLen \in Int
    BY <1>1, <1>2, BookedSame, InCase
  <2>2. Accepted[ALICE] = (p + 1) \div CaseLen - 0
    BY <1>1, <1>3 DEF Booked, AcceptedAt
  <2>3. (p + 1) \div CaseLen = p \div CaseLen
    <3>1. p \in 0 .. Whole - 1 /\ Script(BOB)[p + 1].op # "demand"
      BY <1>1, <1>2
    <3> QED
      BY <1>1, <3>1, NextPlace
  <2> HIDE DEF p
  <2> QED
    BY <2>1, <2>2, <2>3
<1>9. End(BOB, "refused") /\ UNCHANGED <<config, shuffles, outcome>>
  BY DEF Obey
<1>10. HowEnded' = [HowEnded EXCEPT ![BOB] = "refused"]
  BY <1>1, <1>9, HowEnds
<1>11. Accepted' = Accepted
  <2>1. status'[BOB] # "incorrect" /\ status'[ALICE] = status[ALICE]
    BY <1>1, <1>9, PeerIs DEF End, Types
  <2> QED
    BY <1>1, <1>2, <2>1, BookedSame
<1>12. Promise!Other(BOB) = ALICE
  BY <1>1, PromiseServers
<1> QED
  BY <1>4, <1>5, <1>6, <1>7, <1>8, <1>9, <1>10, <1>11, <1>12 DEF Promise!Refuse, Promise!End

\* At a demand both have begun as many shuffles.
LEMMA DemandBegun ==
  ASSUME Safe, Past, NEW s \in Party, Demand(s)
  PROVE  shuffles[s] = shuffles[Peer(s)]
<1> DEFINE t == Peer(s)
           p == Pos(s)
           r == Pos(t)
<1>1. /\ t \in Party /\ Peer(t) = s /\ p \in Nat /\ r \in 0 .. Whole /\ r \in Nat /\ Whole \in Nat
      /\ config \in Configs
  BY Numbers, PeerIs DEF Safe, Base, Types
<1>2. Script(s)[p + 1].op = "demand" /\ p + 1 \in 1 .. Whole
  BY DemandJudges DEF Safe
<1>3. Script(t)[p + 1].op = "demand"
  BY <1>1, <1>2, Places
<1>4. CASE r <= p
  <2>1. ASSUME NEW i \in r + 1 .. p, Script(s)[i].op = "shuffle" PROVE FALSE
    <3>1. i \in 1 .. Whole /\ r < i /\ i < p + 1 /\ p + 1 <= p + 1
      BY <1>1, <1>2
    <3> QED
      BY <1>2, <2>1, <3>1, Near
  <2> QED
    BY <1>4, <2>1, AsMany
<1>5. CASE p < r
  <2>1. ASSUME NEW i \in p + 1 .. r, Script(t)[i].op = "shuffle" PROVE FALSE
    <3>1. i # p + 1
      BY <1>3, <2>1
    <3>2. i \in 1 .. Whole /\ p < p + 1 /\ p + 1 < i /\ i <= r + 1
      BY <1>1, <3>1
    <3> QED
      BY <1>1, <1>2, <1>3, <2>1, <3>2, Near
  <2>2. p <= r
    BY <1>1, <1>5
  <2> HIDE DEF t
  <2>3. shuffles[t] = shuffles[s]
    BY <1>1, <2>1, <2>2, AsMany
  <2> QED
    BY <2>3 DEF t
<1> QED
  BY <1>1, <1>4, <1>5

\* The demand takes a server to the next case, which it has accepted or not.
LEMMA DemandBooked ==
  ASSUME Safe, Booked, Booked', NEW s \in Party, Demand(s)
  PROVE  /\ status'[s] = "incorrect" => Accepted' = Accepted
         /\ status'[s] # "incorrect" => Accepted' = [Accepted EXCEPT ![s] = @ + 1]
<1>1. /\ Goes(s) /\ Running(s) /\ At(s).op = "demand" /\ status'[Peer(s)] = status[Peer(s)]
  BY DemandJudges DEF Safe
<1> DEFINE q == Pos(s) \div CaseLen
<1>2. Accepted[s] = q /\ q \in Int
  BY <1>1, BookedSame
<1>3. Accepted' = [Accepted EXCEPT ![s] = (q + 1) - (IF status'[s] = "incorrect" THEN 1 ELSE 0)]
  BY <1>1, BookedGoes
<1>4. Accepted = [r \in Party |-> Accepted[r]]
  BY DEF Booked
<1> HIDE DEF q
<1>5. CASE status'[s] = "incorrect"
  <2>1. (q + 1) - 1 = Accepted[s]
    BY <1>2
  <2> QED
    BY <1>3, <1>4, <1>5, <2>1
<1>6. CASE status'[s] # "incorrect"
  <2>1. (q + 1) - 0 = Accepted[s] + 1
    BY <1>2
  <2> QED
    BY <1>3, <1>4, <1>6, <2>1
<1> QED
  BY <1>5, <1>6

\* Whom a server at a demand is beside: nobody who refused; one that is done only where it
\* accepts, and one that is incorrect only where it rejects.
LEMMA DemandBeside ==
  ASSUME Safe, Inv, NEW s \in Party, Demand(s)
  PROVE  /\ status[Peer(s)] # "refused"
         /\ status[Peer(s)] = "incorrect" => status'[s] = "incorrect"
         /\ status[Peer(s)] = "done" => status'[s] # "incorrect"
<1> DEFINE t == Peer(s)
           p == Pos(s)
           r == Pos(t)
<1>1. p \in Nat /\ r \in Nat /\ Base /\ Upper
  BY Numbers, PeerIs DEF Safe, Base
<1>2. /\ Running(s) /\ At(s).op = "demand" /\ todo[s] # <<>>
      /\ status'[s] = "incorrect" <=> ~Right(Known(s))
  BY <1>1, DemandJudges DEF Goes
<1>3. status[t] # "refused"
  BY <1>2, NotRefused
<1>4. CASE r <= p
  BY <1>2, <1>3, <1>4, NotEnded
<1>5. CASE p < r
  <2>1. status[t] = "incorrect" <=> ~Right(Known(s))
    BY <1>1, <1>5, DemandBehind
  <2> QED
    BY <1>2, <1>3, <2>1
<1> QED
  BY <1>1, <1>4, <1>5

\* A server that finds its case incorrect has accepted as many as the other.
LEMMA DemandAlike ==
  ASSUME Safe, Inv, Booked, NEW s \in Party, Demand(s), status'[s] = "incorrect"
  PROVE  Accepted[s] = Accepted[Peer(s)]
<1> DEFINE t == Peer(s)
           p == Pos(s)
           r == Pos(t)
           n == CaseLen
<1>1. /\ t \in Party /\ Peer(t) = s /\ p \in Nat /\ r \in 0 .. Whole /\ r \in Nat /\ Whole \in Nat
      /\ config \in Configs /\ Base /\ Upper /\ p \in 0 .. Whole
  BY Numbers, PeerIs DEF Safe, Base, Types
<1>2. /\ Running(s) /\ Script(s)[p + 1].op = "demand" /\ p + 1 \in 1 .. Whole
      /\ status'[s] = "incorrect" <=> ~Right(Known(s))
  BY <1>1, DemandJudges
<1>3. Accepted[s] = p \div n /\ p \div n \in Int
  <2>1. Types
    BY DEF Safe, Base
  <2> QED
    BY <1>1, <1>2, <2>1, BookedSame, InCase
<1>4. Accepted[t] = (r \div n) - (IF status[t] = "incorrect" THEN 1 ELSE 0)
  BY <1>1 DEF Booked, AcceptedAt
<1>5. CASE r <= p
  <2>1. status[t] # "incorrect"
    BY <1>2, <1>5, NotEnded
  <2>2. ASSUME NEW d \in r + 1 .. p, Script(s)[d].op = "demand" PROVE FALSE
    <3>1. d < p + 1 /\ p + 1 <= p + 1
      BY <1>1
    <3>2. config.valid \/ p + 1 <= 1
      BY <1>1, <1>2 DEF Upper, Invalid, Running
    <3>3. Linked(s)
      BY <1>5 DEF Safe, Base, Link
    <3> QED
      BY <1>1, <1>2, <2>2, <3>1, <3>2, <3>3, OneDemand
  <2>3. r \div n = p \div n
    <3>1. r \in 0 .. p
      BY <1>1, <1>5
    <3> QED
      BY <1>1, <2>2, <3>1, SameCases
  <2> HIDE DEF p, r, n
  <2> QED
    BY <1>3, <1>4, <2>1, <2>3
<1>6. CASE p < r
  <2>1. /\ status[t] = "incorrect"
        /\ \A i \in p + 1 + 1 .. r : Script(t)[i].op # "demand"
    BY <1>1, <1>2, <1>6, DemandBehind
  <2>2. Script(t)[r].op = "demand"
    BY <1>1, <2>1 DEF Upper, Incorrect
  <2>3. r = p + 1
    <3>1. ~(r \in p + 1 + 1 .. r)
      BY <2>1, <2>2
    <3> QED
      BY <1>1, <1>6, <3>1
  <2>4. (p + 1) \div n = p \div n + 1
    <3>1. p \in 0 .. Whole - 1
      BY <1>1, <1>2
    <3> QED
      BY <1>1, <1>2, <3>1, NextPlace
  <2> HIDE DEF p, r, n
  <2> QED
    BY <1>3, <1>4, <2>1, <2>3, <2>4
<1> QED
  BY <1>1, <1>5, <1>6

\* The demand: a case is judged when both have begun all of it, and alike.
LEMMA PromiseJudges ==
  ASSUME Safe, Inv, Past, Booked, Booked', NEW s \in Party, Demand(s)
  PROVE  Promise!Accept(s) \/ Promise!Reject(s)
<1>1. /\ Types /\ Goes(s) /\ Running(s) /\ At(s).op = "demand" /\ todo[s] # <<>>
      /\ Promise!Other(s) = Peer(s)
  BY DemandJudges, PromiseServers DEF Safe, Base, Goes
<1>2. Promise!InCase(s)
  BY <1>1, PromiseInCase
<1>3. config.valid => Promise!Judged(s)
  BY <1>1, PromiseInCase, DemandBegun DEF Promise!Judged
<1>4. UNCHANGED <<config, shuffles, outcome>>
  BY DEF Demand
<1>5. CASE status'[s] = "incorrect"
  <2>1. Promise!Free(s, {"incorrect"})
    BY <1>1, <1>5, DemandBeside, FreeIs
  <2>2. End(s, "incorrect")
    <3>1. status' = status \/ End(s, "incorrect")
      BY DEF Demand
    <3> QED
      BY <1>1, <1>5, <3>1 DEF Running
  <2>3. HowEnded' = [HowEnded EXCEPT ![s] = "incorrect"]
    BY <1>1, <2>2, HowEnds
  <2>4. Promise!Reject(s)
    BY <1>1, <1>2, <1>3, <1>4, <1>5, <2>1, <2>3, DemandAlike, DemandBooked
       DEF Promise!Reject, Promise!End
  <2> QED
    BY <2>4
<1>6. CASE status'[s] # "incorrect"
  <2>1. Promise!Free(s, {"done"})
    BY <1>1, <1>6, DemandBeside, FreeIs
  <2>2. status' = status /\ config.valid
    <3>1. Correct(s)
      <4> SUFFICES ASSUME ~Correct(s) PROVE FALSE
        OBVIOUS
      <4>1. End(s, "incorrect")
        BY DEF Demand
      <4> QED
        BY <1>1, <1>6, <4>1 DEF End, Types
    <3> QED
      BY <3>1 DEF Demand, Correct
  <2>3. HowEnded' = HowEnded
    BY <2>2 DEF HowEnded
  <2>4. Promise!Accept(s)
    BY <1>2, <1>3, <1>4, <1>6, <2>1, <2>2, <2>3, DemandBooked DEF Promise!Accept
  <2> QED
    BY <2>4
<1> QED
  BY <1>5, <1>6

\* A server at the end of its script has begun every shuffle of the run.
LEMMA AllBegun ==
  ASSUME Safe, NEW s \in Party, todo[s] = <<>>, config.valid
  PROVE  shuffles[s] = config.cases * config.reps
<1>1. /\ CaseLen \in Nat \ {0} /\ Whole = config.cases * CaseLen /\ config \in Configs
      /\ config.cases \in Nat \ {0} /\ config.reps \in Nat /\ Pos(s) = Whole
  BY ScriptIs, SessionAssumption, DoneIsWhole DEF Safe, Base, Types, Whole
<1>2. Whole \div CaseLen = config.cases
  BY <1>1, CaseOf
<1>3. Whole % CaseLen = 0
  <2>1. 0 \in 0 .. CaseLen - 1 /\ config.cases \in Int /\ Whole = config.cases * CaseLen + 0
    <3>1. config.cases * CaseLen \in Int
      BY <1>1, Z3
    <3> QED
      BY <1>1, <3>1
  <2>2. (config.cases * CaseLen + 0) % CaseLen = 0
    BY <1>1, <2>1, ModDigit
  <2> QED
    BY <2>1, <2>2, Zenon
<1>4. shuffles[s] = config.cases * config.reps + Done(s, "shuffle", 0)
  BY <1>1, <1>2, <1>3 DEF Safe, Upper, Counted, CountedAt
<1>5. Done(s, "shuffle", 0) = 0
  <2>1. 0 \in Nat
    OBVIOUS
  <2> QED
    BY <2>1, DoneNext
<1>6. config.cases * config.reps + 0 = config.cases * config.reps
  BY <1>1, Z3
<1> QED
  BY <1>4, <1>5, <1>6

\* A server that is through finds every shuffle begun by the other as well.
LEMMA PromiseFinishes ==
  ASSUME Safe, Inv, Past, Booked, Booked', NEW s \in Party, Exit(s)
  PROVE  Promise!Finish(s)
<1> DEFINE t == Peer(s)
           p == Pos(s)
           r == Pos(t)
<1>1. /\ Types /\ Where /\ config \in Configs /\ t \in Party /\ Peer(t) = s /\ Whole \in Nat
      /\ r \in Nat /\ Running(s) /\ todo[s] = <<>> /\ End(s, "done") /\ Promise!Other(s) = t
      /\ UNCHANGED <<config, todo, shuffles, outcome>>
  BY Numbers, PeerIs, PromiseServers DEF Safe, Base, Types, Exit
<1>2. p = Whole /\ r <= p
  BY <1>1, DoneIsWhole
<1>3. config.valid
  BY <1>1, ValidAt
<1>4. Promise!Free(s, {"done"})
  <2>1. status[t] # "refused" /\ status[t] # "incorrect"
    BY <1>1, <1>2, NotRefused, NotEnded
  <2> QED
    BY <1>1, <2>1, FreeIs
<1>5. Accepted[s] = config.cases
  BY <1>1, <1>2, BookedSame, CaseOf
<1>6. shuffles[t] = config.cases * config.reps
  <2>1. Script(s)[Whole].op = "demand" /\ Whole \in 1 .. Whole
    <3>1. config.cases \in 1 .. config.cases /\ Whole = config.cases * CaseLen
      BY <1>1, SessionAssumption DEF Whole
    <3>2. Whole \in 1 .. Whole
      BY <1>1, <3>1, CaseOf
    <3> QED
      BY <1>1, <3>1, <3>2, CaseOf
  <2>2. ASSUME NEW i \in r + 1 .. p, Script(s)[i].op = "shuffle" PROVE FALSE
    <3>1. i # Whole
      BY <2>1, <2>2
    <3>2. i \in 1 .. Whole /\ r < i /\ i < Whole /\ Whole <= p + 1
      BY <1>1, <1>2, <3>1
    <3> QED
      BY <2>1, <2>2, <3>2, Near
  <2>3. shuffles[s] = shuffles[t]
    BY <1>2, <2>2, AsMany
  <2> QED
    BY <1>1, <1>3, <2>3, AllBegun
<1>7. HowEnded' = [HowEnded EXCEPT ![s] = "done"] /\ HowEnded[s] = "running"
  BY <1>1, HowEnds, HowIs
<1>8. Accepted' = Accepted
  <2>1. SameEnds("incorrect")
    BY <1>1 DEF Types, End, Running, SameEnds
  <2> QED
    BY <1>1, <2>1, BookedStays
<1> QED
  BY <1>1, <1>4, <1>5, <1>6, <1>7, <1>8 DEF Promise!Finish, Promise!Running, Promise!End

\* The driver: it gives the run up, stops the one that still runs, or reads both outputs.
LEMMA PromiseDriver ==
  ASSUME Safe, Inv, Past, Booked, Booked', Driver
  PROVE  [Promise!Next]_(Promise!vars)
<1>1. Types /\ UNCHANGED <<config, todo, shuffles>>
  BY DEF Safe, Base, Driver, Deadline, FirstEnded, GraceOver, Collect, unread
<1>2. /\ Promise!Server = Party
      /\ \A s \in Party : HowEnded[s] = "running" <=> Running(s)
      /\ \A s \in Party : HowEnded[s] = "done" <=> status[s] = "done"
      /\ HowEnded = [s \in Party |-> HowEnded[s]]
      /\ \A s : Promise!Running(s) <=> HowEnded[s] = "running"
  BY <1>1, PromiseServers, HowIs DEF HowEnded
<1>3. Accepted' = Accepted
  <2>1. SameEnds("incorrect")
    BY DEF SameEnds, Driver, Deadline, FirstEnded, GraceOver, Collect, unread, Killed, Running
  <2> QED
    BY <1>1, <2>1, BookedStays
<1>4. ASSUME Deadline \/ GraceOver
      PROVE  HowEnded' = [s \in Party |-> IF Running(s) THEN "failed" ELSE HowEnded[s]]
  <2>1. status' = [s \in Party |-> IF Running(s) THEN "killed" ELSE status[s]]
    BY <1>4 DEF Deadline, GraceOver, Killed, Stopped
  <2> QED
    BY <2>1 DEF HowEnded
<1>5. CASE Deadline
  <2>1. outcome = "none" /\ outcome' = "error" /\ status[ALICE] # "done"
    BY <1>5, PeerIs DEF Deadline, Past, Ended, Running
  <2>2. Promise!Abandon
    BY <1>1, <1>2, <1>3, <1>4, <1>5, <2>1, PeerIs DEF Promise!Abandon
  <2> QED
    BY <2>2 DEF Promise!Next
<1>6. CASE FirstEnded
  <2>1. HowEnded' = HowEnded /\ outcome' = outcome
    BY <1>6 DEF FirstEnded, HowEnded
  <2> QED
    BY <1>1, <1>3, <2>1 DEF Promise!vars
<1>7. CASE GraceOver
  <2>1. PICK s \in Party : Running(s)
    BY <1>7 DEF GraceOver
  <2>2. \A q \in Party : q # s => ~Running(q)
    BY <1>7, <2>1, PeerIs DEF GraceOver, Past
  <2>3. HowEnded' = [HowEnded EXCEPT ![s] = "failed"]
    BY <1>2, <1>4, <1>7, <2>1, <2>2
  <2>4. outcome' = outcome
    BY <1>7 DEF GraceOver
  <2>5. Promise!Fail(s)
    BY <1>1, <1>2, <1>3, <2>1, <2>3, <2>4 DEF Promise!Fail, Promise!End
  <2> QED
    BY <1>2, <2>5 DEF Promise!Next
<1>8. CASE Collect
  <2>1. outcome = "none" /\ HowEnded' = HowEnded /\ \A s \in Party : ~Running(s)
    BY <1>8 DEF Collect, Past, Ended, HowEnded
  <2>2. CASE Succeeded
    <3>1. outcome' = "parsed"
      BY <1>8, <2>2 DEF Collect
    <3>2. Promise!Deliver
      BY <1>1, <1>2, <1>3, <2>1, <2>2, <3>1 DEF Promise!Deliver, Succeeded
    <3> QED
      BY <3>2 DEF Promise!Next
  <2>3. CASE ~Succeeded
    <3>1. outcome' = "error"
      BY <1>8, <2>3 DEF Collect
    <3>2. HowEnded' = [s \in Party |-> IF Running(s) THEN "failed" ELSE HowEnded[s]]
      BY <1>2, <2>1
    <3>3. Promise!Abandon
      BY <1>1, <1>2, <1>3, <2>1, <2>3, <3>1, <3>2 DEF Promise!Abandon, Succeeded
    <3> QED
      BY <3>3 DEF Promise!Next
  <2> QED
    BY <2>2, <2>3
<1> QED
  BY <1>5, <1>6, <1>7, <1>8 DEF Driver

\* Every step of the servers is one of the promise, or one that it does not see.
LEMMA PromiseServes ==
  ASSUME Safe, Inv, Past, Booked, Booked', Servers
  PROVE  [Promise!Next]_(Promise!vars)
<1>1. Base /\ ALICE \in Party /\ BOB \in Party /\ Promise!Server = Party
  BY PeerIs, PromiseServers DEF Safe
<1>2. ASSUME NEW s \in Party, NEW o, o # "demand", Is(s, o), Advance(s),
             UNCHANGED <<config, status, shuffles, outcome>>
      PROVE  UNCHANGED Promise!vars
  BY <1>1, <1>2, IsAt, Silent
<1>3. ASSUME NEW s \in Party, Process(s)
      PROVE  [Promise!Next]_(Promise!vars)
  <2>1. CASE Send(s)
    BY <1>2, <2>1 DEF Send
  <2>2. CASE Receive(s)
    BY <1>2, <2>2 DEF Receive
  <2>3. CASE Lose(s)
    <3>1. Running(s) /\ End(s, "lost") /\ UNCHANGED <<config, todo, shuffles, outcome>>
      BY <2>3 DEF Lose, Writes, Reads, Is
    <3>2. Promise!Fail(s)
      BY <3>1, PromiseFails
    <3> QED
      BY <1>1, <3>2 DEF Promise!Next
  <2>4. CASE BeginShuffle(s)
    BY <1>1, <2>4, PromiseBegins DEF Promise!Next
  <2>5. CASE PrintLine(s)
    BY <1>2, <2>5 DEF PrintLine
  <2>6. CASE Demand(s)
    BY <1>1, <2>6, PromiseJudges DEF Promise!Next
  <2>7. CASE Exit(s)
    BY <1>1, <2>7, PromiseFinishes DEF Promise!Next
  <2> QED
    BY <1>3, <2>1, <2>2, <2>3, <2>4, <2>5, <2>6, <2>7 DEF Process
<1>4. ASSUME NEW ok \in BOOLEAN, Decide(ok)
      PROVE  [Promise!Next]_(Promise!vars)
  <2>1. CASE ok
    BY <1>1, <1>2, <1>4, <2>1 DEF Decide
  <2>2. CASE ~ok
    <3>1. ok = FALSE
      BY <2>2
    <3>2. Promise!Refuse(ALICE)
      BY <1>4, <3>1, PromiseRefusal
    <3> QED
      BY <1>1, <3>2 DEF Promise!Next
  <2> QED
    BY <2>1, <2>2
<1>5. CASE Obey
  <2>1. CASE Obeyed(Head(chan[BOB]))
    BY <1>1, <1>2, <1>5, <2>1 DEF Obey
  <2>2. CASE ~Obeyed(Head(chan[BOB]))
    BY <1>1, <1>5, <2>2, PromiseObeys DEF Promise!Next
  <2> QED
    BY <2>1, <2>2
<1>6. CASE Hear
  BY <1>1, <1>2, <1>6 DEF Hear
<1>7. ASSUME NEW exact \in BOOLEAN, NEW indices \in BOOLEAN, Tell(exact, indices)
      PROVE  [Promise!Next]_(Promise!vars)
  BY <1>1, <1>2, <1>7 DEF Tell
<1>8. CASE Connect \/ AcceptPeer
  <2>1. UNCHANGED <<config, todo, status, shuffles, outcome>>
    BY <1>8 DEF Connect, AcceptPeer
  <2>2. Accepted' = Accepted
    BY <2>1, BookedStays DEF SameEnds
  <2> QED
    BY <2>1, <2>2 DEF Promise!vars, HowEnded
<1>9. CASE Undecoded
  <2>1. Running(BOB) /\ End(BOB, "undecoded") /\ UNCHANGED <<config, todo, shuffles, outcome>>
    BY <1>9 DEF Undecoded, Is
  <2>2. Promise!Fail(BOB)
    BY <1>1, <2>1, PromiseFails
  <2> QED
    BY <1>1, <2>2 DEF Promise!Next
<1> QED
  BY <1>3, <1>4, <1>5, <1>6, <1>7, <1>8, <1>9 DEF Servers

\* The processes start as the promise does: nothing begun, accepted or ended.
LEMMA PromiseInit ==
  ASSUME Init
  PROVE  Promise!Init
<1>1. Safe
  BY SafeInit
<1>2. Booked
  BY <1>1, AcceptedIs
<1>3. \A s \in Party : Pos(s) = 0 /\ Accepted[s] = 0
  <2>1. config \in Configs /\ \A s \in Party : todo[s] = Script(s)
    BY DEF Init, Script
  <2>2. \A s \in Party : Pos(s) = 0 /\ Running(s)
    BY <2>1, ScriptIs DEF Pos, Init, Running
  <2>3. 0 \in 0 .. CaseLen - 1 /\ CaseLen \in Nat \ {0} /\ 0 * CaseLen + 0 = 0
    BY <2>1, ScriptIs
  <2>4. (0 * CaseLen + 0) \div CaseLen = 0
    BY <2>3, ModDigit
  <2>5. 0 \div CaseLen = 0
    BY <2>3, <2>4, Zenon
  <2> QED
    BY <1>1, <1>2, <2>2, <2>5, BookedSame
<1>4. Accepted = [s \in Party |-> 0]
  BY <1>2, <1>3 DEF Booked
<1>5. HowEnded = [s \in Party |-> "running"]
  BY DEF Init, HowEnded
<1> QED
  BY <1>4, <1>5, PromiseServers DEF Init, Promise!Init

\* Every server has begun exactly the shuffles that it is past, the driver has no outcome
\* before it ends, and it gives grace only when a process has ended.
THEOREM CountsAreKept == Spec => []Past
<1>1. Init => Past
  BY PastInit
<1>2. Safe /\ Inv /\ Past /\ [Next]_vars => Past'
  BY PastNext
<1> QED
  BY <1>1, <1>2, ServersInductive, DriverInductive, PTL DEF Spec

\* The scripts keep the promise, for every command line and whatever fails: the servers
\* shuffle in step, neither goes on after a refusal, a case is judged when both have
\* shuffled for all of it and judged alike, and nothing is delivered but a whole run.
THEOREM ImplementsRetrieval == Spec => RetrievalSpec
<1>1. Init => Promise!Init
  BY PromiseInit
<1>2. Safe => Booked
  BY AcceptedIs
<1>3. Safe /\ Inv /\ Past /\ Booked /\ Booked' /\ [Next]_vars => [Promise!Next]_(Promise!vars)
  <2> SUFFICES ASSUME Safe, Inv, Past, Booked, Booked', [Next]_vars
               PROVE  [Promise!Next]_(Promise!vars)
    OBVIOUS
  <2>1. CASE Servers
    BY <2>1, PromiseServes
  <2>2. CASE Driver
    BY <2>2, PromiseDriver
  <2>3. ASSUME NEW s \in Party, Crash(s) PROVE [Promise!Next]_(Promise!vars)
    <3>1. Promise!Fail(s)
      BY <2>3, PromiseFails DEF Crash
    <3> QED
      BY <3>1, PromiseServers DEF Promise!Next
  <2>4. CASE UNCHANGED vars
    BY <2>4 DEF vars, Promise!vars, HowEnded, Accepted
  <2> QED
    BY <2>1, <2>2, <2>3, <2>4 DEF Next
<1> QED
  BY <1>1, <1>2, <1>3, ServersInductive, DriverInductive, CountsAreKept, PTL
     DEF Spec, RetrievalSpec, Promise!Spec
=============================================================================
