------------------------------ MODULE Session ------------------------------
(***************************************************************************)
(* A run of the two server processes: ServerTest0 and RunBenchmarkCase of  *)
(* pvfss/src/test.cc, and run_one of pvfss/run_psvfss_unified.py, which    *)
(* starts and supervises them.                                             *)
(*                                                                         *)
(* The servers first find each other: ALICE listens, BOB tries until he is  *)
(* connected.  From then on a process is a script of blocking sends and    *)
(* receives on one connection, of fixed sizes and without types, and of    *)
(* what it prints on the way.  What the messages carry is in the modules   *)
(* of the parts; here a check of the signals may fail, in which case ALICE *)
(* decides and tells BOB, and at the end of each repetition BOB decides    *)
(* and tells ALICE.                                                        *)
(*                                                                         *)
(* Two buffers are bounded.  The connection holds a message that its peer  *)
(* does not read yet only if it has room.  The pipe that a process prints  *)
(* to is read by the driver only when both have ended: until then a        *)
(* process that prints more than it holds is stopped in its write.  Lines  *)
(* that only a failing run prints, before a server throws or for           *)
(* parameters that do not fit, are left out.                               *)
(***************************************************************************)
EXTENDS Integers, Sequences, FiniteSets

CONSTANTS
  Configs,      \* what the command line of both processes may say
  Capacity,     \* lines that a pipe holds
  Holds(_, _)   \* a connection with this queue takes a message of this kind unread

ALICE == 1
BOB == 2
Party == {ALICE, BOB}
Peer(s) == IF s = ALICE THEN BOB ELSE ALICE

\* cases: how many parameter sets are run; reps: online repetitions of each;
\* valid: N and T fit; trusted, pilot: the two modes; flat: a shuffle of one layer
\* (d = 1, which is log2 N < 2 log2 T); lines: what a process prints at a place.
ASSUME SessionAssumption ==
  /\ Configs \subseteq [cases : Nat \ {0}, reps : Nat \ {0}, valid : BOOLEAN,
                        trusted : BOOLEAN, pilot : BOOLEAN, flat : BOOLEAN, lines : Nat]
  /\ Capacity \in Nat

VARIABLES
  config,
  connected, \* connected[s]: s has its end of the connection
  todo,     \* todo[s]: what is left of the script of process s
  chan,     \* chan[s]: messages on their way to s
  status,   \* status[s]: running, or how it ended
  out,      \* out[s]: lines in the pipe of s
  shuffles, \* history: shuffles[s]: shuffles s has begun
  said,     \* said[s]: summaries s has of this case
  driver,   \* waiting, grace or ended
  outcome   \* of the driver: none, parsed or error

vars == <<config, connected, todo, chan, status, out, shuffles, said, driver, outcome>>

-----------------------------------------------------------------------------
(* The scripts.  Each is written from the code of its party. *)

Tx(k) == [op |-> "send", kind |-> k]
Rx(k) == [op |-> "receive", kind |-> k]
Do(o) == [op |-> o, kind |-> o]
\* What is printed between two operations of the connection, at once: nobody reads
\* the pipe before the end, so a text half written is as good as one not begun.
Prints(place) == [op |-> "print", kind |-> place]

\* What one party says where the other listens.
Says(s, speaker, k) == <<IF s = speaker THEN Tx(k) ELSE Rx(k)>>

Ran(s) == Says(s, ALICE, "ran")

\* BTGen and the barrier.
Triple(s) ==
  Says(s, ALICE, "keys") \o Says(s, BOB, "cross") \o Says(s, ALICE, "clear")
    \o Says(s, ALICE, "barrier") \o Says(s, BOB, "barrier")

\* ShareTranslation: the party that chooses extends the transfers, the other
\* answers with its strings.
Translation(chooses) ==
  IF chooses THEN <<Tx("extension"), Rx("strings")>> ELSE <<Rx("extension"), Tx("strings")>>

\* Variant: both send what is theirs before they read.
OffsetBothSend(s) == IF config.flat THEN <<>> ELSE <<Tx("offset"), Rx("offset")>>

\* The differences between the layers: ALICE sends and then receives, BOB the other way.
Offset(s) == IF config.flat THEN <<>> ELSE Says(s, ALICE, "offset") \o Says(s, BOB, "offset")

\* Both directions, ALICE's vectors first; one permutation stands for the d * N/T of
\* the code, which take the same turns.
Offline(s) ==
  (IF s = ALICE THEN Translation(FALSE) \o Translation(TRUE)
                ELSE Translation(TRUE) \o Translation(FALSE))
    \o <<Prints("translated")>> \o Offset(s)

Keys(s) ==
  Says(s, ALICE, "context") \o <<Prints("generated")>> \o Says(s, ALICE, "signals")
    \o <<Prints("keys")>>

\* BOB's proofs and ALICE's verdict.
Check(s) ==
  IF s = ALICE THEN <<Rx("proofs"), Do("decide")>> ELSE <<Tx("proofs"), Do("obey")>>

\* Variant: BOB opens his shares in a component pilot too.
BridgeAlways(s) ==
  IF s = BOB \/ ~config.pilot THEN Says(s, BOB, "shares") \o <<Prints("bridge")>> ELSE <<>>

\* The shares are opened to ALICE, but for a component pilot.
Bridge(s) == IF config.pilot THEN <<>> ELSE Says(s, BOB, "shares") \o <<Prints("bridge")>>

\* PermuteShare: the owner of a vector sends it masked.
PermuteShare(owner) ==
  IF owner THEN <<Tx("masked"), Rx("blinded")>> ELSE <<Rx("masked"), Tx("blinded")>>

\* Variant: both servers take their turns in BOB's order.
ShuffleSameOrder(s) ==
  <<Do("shuffle")>> \o PermuteShare(FALSE)
    \o (IF config.flat THEN <<>> ELSE PermuteShare(TRUE)) \o <<Prints("shuffled")>>

Shuffle(s) ==
  <<Do("shuffle")>> \o PermuteShare(s = ALICE)
    \o (IF config.flat THEN <<>> ELSE PermuteShare(s = BOB)) \o <<Prints("shuffled")>>

\* The three exchanges of Mult and CPRS.
Compress(s) ==
  Says(s, ALICE, "open") \o Says(s, BOB, "open") \o Says(s, ALICE, "sum")
    \o Says(s, BOB, "sum") \o Says(s, ALICE, "product") \o Says(s, BOB, "product")
    \o <<Prints("compressed")>>

Respond(s) == Says(s, ALICE, "response") \o Says(s, ALICE, "vector")

Summary(s) == IF s = BOB THEN <<Do("tell")>> ELSE <<Do("hear")>>

\* The registered signals are checked before the retrieval in a component pilot.
Repetition(s) ==
  Keys(s) \o (IF config.pilot THEN Check(s) ELSE <<>>)
    \o Check(s) \o <<Prints("checked")>> \o Bridge(s) \o Shuffle(s) \o Compress(s)
    \o Respond(s) \o Summary(s) \o <<Prints("done")>>

Repeat(seq, m) == [i \in 1 .. m * Len(seq) |-> seq[((i - 1) % Len(seq)) + 1]]

RunBenchmarkCase(s) ==
  <<Prints("start")>> \o Ran(s)
    \o (IF config.trusted THEN <<>> ELSE Triple(s) \o Offline(s)) \o <<Prints("offline")>>
    \o Repeat(Repetition(s), config.reps) \o <<Prints("report")>>

\* Every case ends with the demand that all of it was correct.
ServerTest0(s) ==
  Repeat((IF config.valid THEN RunBenchmarkCase(s) ELSE <<>>) \o <<Do("demand")>>,
         config.cases)

\* Between context and signals, and once the shares are opened, ALICE alone prints.
Lines(s, place) == IF s = BOB /\ place \in {"generated", "bridge"} THEN 0 ELSE config.lines

-----------------------------------------------------------------------------
Init ==
  /\ config \in Configs
  /\ connected = [s \in Party |-> FALSE]
  /\ todo = [s \in Party |-> ServerTest0(s)]
  /\ chan = [s \in Party |-> <<>>]
  /\ status = [s \in Party |-> "running"]
  /\ out = [s \in Party |-> 0]
  /\ shuffles = [s \in Party |-> 0]
  /\ said = [s \in Party |-> <<>>]
  /\ driver = "waiting" /\ outcome = "none"

Running(s) == status[s] = "running"
At(s) == Head(todo[s])
\* Process s is at an operation o of its script.
Is(s, o) == Running(s) /\ connected[s] /\ todo[s] # <<>> /\ At(s).op = o
\* The pipe of s has room for n lines.
PipeTakes(s, n) == out[s] + n <= Capacity
Reads(s) == Is(s, "receive") \/ Is(s, IF s = ALICE THEN "hear" ELSE "obey")
\* BOB prints what he found before he tells it.
Writes(s) ==
  Is(s, "send") \/ IF s = ALICE THEN Is(s, "decide")
                    ELSE Is(s, "tell") /\ PipeTakes(s, config.lines)
Advance(s) == todo' = [todo EXCEPT ![s] = Tail(@)]
End(s, how) == status' = [status EXCEPT ![s] = how]
Put(s, m) == chan' = [chan EXCEPT ![Peer(s)] = Append(@, m)]
Take(s) == chan' = [chan EXCEPT ![s] = Tail(@)]

\* What s writes goes out if the connection holds it, or as the peer reads it.
Outgoing(s) ==
  CASE At(s).op = "decide" -> "verdict" [] At(s).op = "tell" -> "summary"
    [] OTHER -> At(s).kind
Room(s) ==
  Holds(chan[Peer(s)], Outgoing(s)) \/ (chan[Peer(s)] = <<>> /\ Reads(Peer(s)))

\* ALICE listens until one connection came in, BOB tries again until it is accepted
\* by the listening socket; neither gives up.
CanConnect == Running(BOB) /\ ~connected[BOB] /\ Running(ALICE) /\ ~connected[ALICE]
Connect ==
  /\ CanConnect
  /\ connected' = [connected EXCEPT ![BOB] = TRUE]
  /\ UNCHANGED <<config, todo, chan, status, out, shuffles, said, driver, outcome>>

\* ALICE's accept returns though BOB, once connected, may have ended.
CanAccept == Running(ALICE) /\ ~connected[ALICE] /\ connected[BOB]
AcceptPeer ==
  /\ CanAccept
  /\ connected' = [connected EXCEPT ![ALICE] = TRUE]
  /\ UNCHANGED <<config, todo, chan, status, out, shuffles, said, driver, outcome>>

Send(s) ==
  /\ Is(s, "send") /\ Room(s)
  /\ Put(s, [kind |-> At(s).kind, ok |-> TRUE])
  /\ Advance(s)
  /\ UNCHANGED <<config, connected, status, out, shuffles, said, driver, outcome>>

\* A receive takes what comes.
Receive(s) ==
  /\ Is(s, "receive") /\ chan[s] # <<>>
  /\ Take(s)
  /\ Advance(s)
  /\ UNCHANGED <<config, connected, status, out, shuffles, said, driver, outcome>>

\* The connection library ends a process that reads or writes after its peer ended.
Lose(s) ==
  /\ ~Running(Peer(s))
  /\ Writes(s) \/ (Reads(s) /\ chan[s] = <<>>)
  /\ End(s, "lost")
  /\ UNCHANGED <<config, connected, todo, chan, out, shuffles, said, driver, outcome>>

\* ALICE compares the proofs and tells BOB; she throws on a mismatch.
Decide(ok) ==
  /\ Is(ALICE, "decide") /\ Room(ALICE)
  /\ Put(ALICE, [kind |-> "verdict", ok |-> ok])
  /\ Advance(ALICE)
  /\ IF ok THEN UNCHANGED status ELSE End(ALICE, "refused")
  /\ UNCHANGED <<config, connected, out, shuffles, said, driver, outcome>>

\* Variant: BOB reads the verdict and goes on.
ObeyIgnored(m) == TRUE

\* BOB goes on if the verdict lets him.
Obeyed(m) == m.ok

Obey ==
  /\ Is(BOB, "obey") /\ chan[BOB] # <<>>
  /\ Take(BOB)
  /\ Advance(BOB)
  /\ IF Obeyed(Head(chan[BOB])) THEN UNCHANGED status ELSE End(BOB, "refused")
  /\ UNCHANGED <<config, connected, out, shuffles, said, driver, outcome>>

\* Entering SecretSharedShuffle.
BeginShuffle(s) ==
  /\ Is(s, "shuffle")
  /\ shuffles' = [shuffles EXCEPT ![s] = @ + 1]
  /\ Advance(s)
  /\ UNCHANGED <<config, connected, chan, status, out, said, driver, outcome>>

\* BOB compares what he decoded with what was sent, prints what he found and tells
\* ALICE.
Tell(exact, indices) ==
  /\ Is(BOB, "tell") /\ PipeTakes(BOB, config.lines) /\ Room(BOB)
  /\ out' = [out EXCEPT ![BOB] = @ + config.lines]
  /\ Put(BOB, [kind |-> "summary", exact |-> exact, indices |-> indices])
  /\ said' = [said EXCEPT ![BOB] = Append(@, [exact |-> exact, indices |-> indices])]
  /\ Advance(BOB)
  /\ UNCHANGED <<config, connected, status, shuffles, driver, outcome>>

\* BOB throws on a response that he cannot decode or of another count.
Undecoded ==
  /\ Is(BOB, "tell")
  /\ End(BOB, "undecoded")
  /\ UNCHANGED <<config, connected, todo, chan, out, shuffles, said, driver, outcome>>

Hear ==
  /\ Is(ALICE, "hear") /\ chan[ALICE] # <<>>
  /\ LET m == Head(chan[ALICE])
     IN  said' = [said EXCEPT ![ALICE] = Append(@, [exact |-> m.exact, indices |-> m.indices])]
  /\ Take(ALICE)
  /\ Advance(ALICE)
  /\ UNCHANGED <<config, connected, status, out, shuffles, driver, outcome>>

\* Lines go to the pipe if it has room.
PrintLine(s) ==
  /\ Is(s, "print") /\ PipeTakes(s, Lines(s, At(s).kind))
  /\ out' = [out EXCEPT ![s] = @ + Lines(s, At(s).kind)]
  /\ Advance(s)
  /\ UNCHANGED <<config, connected, chan, status, shuffles, said, driver, outcome>>

\* Variant: ALICE looks at the last repetition only.
CorrectLast(s) ==
  LET q == IF s = ALICE /\ said[s] # <<>> THEN <<said[s][Len(said[s])]>> ELSE said[s]
  IN  /\ config.valid
      /\ \A i \in 1 .. Len(q) : q[i].indices /\ (q[i].exact \/ config.pilot)

\* Every repetition of the case was correct; parameters that do not fit leave the
\* results at their defaults, which are false.
Correct(s) ==
  /\ config.valid
  /\ \A i \in 1 .. Len(said[s]) : said[s][i].indices /\ (said[s][i].exact \/ config.pilot)

\* Variant: the results of a case go into the next.
ClearedNot(s) == said

\* The next case starts from fresh results.
Cleared(s) == [said EXCEPT ![s] = <<>>]

Demand(s) ==
  /\ Is(s, "demand")
  /\ IF Correct(s) THEN UNCHANGED status ELSE End(s, "incorrect")
  /\ said' = Cleared(s)
  /\ Advance(s)
  /\ UNCHANGED <<config, connected, chan, out, shuffles, driver, outcome>>

Exit(s) ==
  /\ Running(s) /\ todo[s] = <<>>
  /\ End(s, "done")
  /\ UNCHANGED <<config, connected, todo, chan, out, shuffles, said, driver, outcome>>

\* A process dies.
Crash(s) ==
  /\ Running(s)
  /\ End(s, "crashed")
  /\ UNCHANGED <<config, connected, todo, chan, out, shuffles, said, driver, outcome>>

Process(s) ==
  \/ Send(s) \/ Receive(s) \/ Lose(s) \/ BeginShuffle(s) \/ PrintLine(s)
  \/ Demand(s) \/ Exit(s)

Servers ==
  \/ \E s \in Party : Process(s)
  \/ \E ok \in BOOLEAN : Decide(ok)
  \/ Connect \/ AcceptPeer \/ Obey \/ Hear \/ Undecoded
  \/ \E exact, indices \in BOOLEAN : Tell(exact, indices)

-----------------------------------------------------------------------------
(* run_one. *)

Killed(S) == [s \in Party |-> IF s \in S /\ Running(s) THEN "killed" ELSE status[s]]
unread == <<config, connected, todo, chan, out, shuffles, said>>

\* Variant: only the first process is stopped.
StopFirst == {ALICE}

\* Whom the driver stops when the deadline is over.
Stopped == Party

\* Variant: the deadline is not looked at.
DeadlineNever == FALSE

\* Both still run when the deadline is over.
Deadline ==
  /\ driver = "waiting" /\ \A s \in Party : Running(s)
  /\ status' = Killed(Stopped)
  /\ driver' = "ended" /\ outcome' = "error"
  /\ UNCHANGED unread

\* One has ended: the other has five seconds.
FirstEnded ==
  /\ driver = "waiting" /\ \E s \in Party : ~Running(s)
  /\ driver' = "grace"
  /\ UNCHANGED <<unread, status, outcome>>

GraceOver ==
  /\ driver = "grace" /\ \E s \in Party : Running(s)
  /\ status' = Killed(Party)
  /\ UNCHANGED <<unread, driver, outcome>>

\* Variant: only the first process's return code is looked at.
SucceededFirst == status[ALICE] = "done"

Succeeded == \A s \in Party : status[s] = "done"

\* Both have ended: the output is read, the return codes decide whether
\* it is parsed.
Collect ==
  /\ driver = "grace" /\ \A s \in Party : ~Running(s)
  /\ driver' = "ended"
  /\ outcome' = IF Succeeded THEN "parsed" ELSE "error"
  /\ UNCHANGED <<unread, status>>

Driver == Deadline \/ FirstEnded \/ GraceOver \/ Collect

Ended == driver = "ended"

Next ==
  \/ Servers \/ Driver
  \/ \E s \in Party : Crash(s)
  \/ Ended /\ UNCHANGED vars

Spec == Init /\ [][Next]_vars

\* The driver polls a clock.  Of the processes nothing is assumed.
FairSpec == Spec /\ WF_vars(Driver)

-----------------------------------------------------------------------------
TypeOK ==
  /\ config \in Configs /\ connected \in [Party -> BOOLEAN] /\ shuffles \in [Party -> Nat]
  /\ status \in [Party -> {"running", "lost", "refused", "incorrect", "undecoded", "done",
                           "crashed", "killed"}]
  /\ out \in [Party -> 0 .. Capacity]
  /\ \A s \in Party : Len(said[s]) \in 0 .. config.reps
  /\ driver \in {"waiting", "grace", "ended"} /\ outcome \in {"none", "parsed", "error"}

\* What a process takes is what its script expects there: sizes are fixed and
\* nothing in a message tells it from another.
Expected(s) ==
  CASE At(s).op = "obey" -> "verdict" [] At(s).op = "hear" -> "summary"
    [] OTHER -> At(s).kind
TypedReceives ==
  \A s \in Party :
     chan[s] # <<>> /\ (Is(s, "receive") \/ Is(s, "obey") \/ Is(s, "hear"))
        => Head(chan[s]).kind = Expected(s)

\* Once one server has refused the signals, both have begun equally many shuffles:
\* ALICE, who decides, is not behind a BOB who went on, nor he, who obeys, ahead of her;
\* no masked vector goes out for signals that were not verified.
RefusedTogether ==
  (\E s \in Party : status[s] = "refused") => shuffles[ALICE] = shuffles[BOB]

\* Two servers that end by themselves end alike.
EndAlike ==
  \A s \in Party :
     status[s] \in {"done", "refused", "incorrect"}
       /\ status[Peer(s)] \in {"done", "refused", "incorrect"}
     => status[s] = status[Peer(s)]

\* Process s can go on: it finds its peer, is at its end, at an operation that waits
\* for nobody, at a read for which a message is there, at a write for which there is
\* room, or at either if the end of its peer ends it.
Ready(s) ==
  \/ IF s = ALICE THEN CanAccept ELSE CanConnect
  \/ Running(s) /\ todo[s] = <<>>
  \/ Is(s, "shuffle") \/ Is(s, "demand")
  \/ Is(s, "print") /\ PipeTakes(s, Lines(s, At(s).kind))
  \/ Reads(s) /\ (chan[s] # <<>> \/ ~Running(Peer(s)))
  \/ Writes(s) /\ (Room(s) \/ ~Running(Peer(s)))

\* Process s is stopped in a write to its pipe, which the driver does not read.
StoppedByPipe(s) ==
  \/ Is(s, "print") /\ ~PipeTakes(s, Lines(s, At(s).kind))
  \/ Is(s, "tell") /\ ~PipeTakes(s, config.lines)

\* Process s waits for a connection that its peer, which has ended, will not make.
Deserted(s) == Running(s) /\ ~connected[s] /\ ~Running(Peer(s))

\* The exchange of messages never hangs by itself, however little the connection holds
\* unread: where neither server can go on, one is stopped by a full pipe or was left
\* before it was connected.
HangsOnPipeOrDesertedOnly ==
  (\E s \in Party : Running(s)) /\ (\A s \in Party : ~Ready(s)) =>
     \E s \in Party : StoppedByPipe(s) \/ Deserted(s)

\* When the driver has ended, no process is left.
NothingLeft == Ended => \A s \in Party : ~Running(s)

\* Only the output of a whole run is parsed: both servers went through every
\* repetition of every case, though return codes are all the driver sees.
ParsedIsWholeRun ==
  outcome = "parsed" =>
     /\ config.valid
     /\ \A s \in Party : todo[s] = <<>> /\ shuffles[s] = config.cases * config.reps

\* The driver ends, whether the processes hang, crash or run on.
DriverEnds == <>Ended

-----------------------------------------------------------------------------
\* How a process ended, for who does not ask why it failed.
HowEnded ==
  [s \in Party |-> IF status[s] \in {"lost", "undecoded", "crashed", "killed"}
                  THEN "failed" ELSE status[s]]

\* Cases that each server has found correct, by the demands that are left.
Accepted ==
  [s \in Party |->
     config.cases - Cardinality({i \in DOMAIN todo[s] : todo[s][i].op = "demand"})
       - (IF status[s] = "incorrect" THEN 1 ELSE 0)]

Promise == INSTANCE Retrieval WITH
             Plans <- Configs, plan <- config, begun <- shuffles, accepted <- Accepted,
             status <- HowEnded, answer <- outcome

\* The scripts implement a run that both servers see alike: they shuffle in step,
\* never after a refusal, refuse the same repetition, judge a case only when both have
\* shuffled for all of it and to the same end, and nothing else is ever parsed.
RetrievalSpec == Promise!Spec
=============================================================================
