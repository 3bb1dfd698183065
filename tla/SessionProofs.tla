--------------------------- MODULE SessionProofs ---------------------------
(* Proofs about Session: what its recording promises (RecordingProofs)     *)
(* holds inside the client, and leaving `async with' tells of a loss.      *)
EXTENDS Session, RecordingProofs, RaceStateProofs

(* A step of the client is a step of the recording it is made of.          *)
LEMMA Records == [SessionNext]_sessionAllVars => [Next]_vars
  BY DEF SessionNext, sessionAllVars, Hear, HearNothing, Server, Toggle, Record,
     Leave, Exit, Restart, Next, Consumer, Writer, Closing

(* The client implements the recording, with the identity for mapping: it  *)
(* adds nothing that JsonlRecorder and RecordingTransport would not do     *)
(* around any other consumer.                                              *)
THEOREM ClientImplementsRecording == SessionSpec => Spec
<1>1. SessionInit => Init
  BY DEF SessionInit
<1>2. QED
  BY <1>1, Records, PTL DEF SessionSpec, Spec

LEMMA RecordingHolds == SessionSpec => []IInv
  BY ClientImplementsRecording, Invariant, PTL

-----------------------------------------------------------------------------
(* The way out of the block: inside, nothing is closed yet; on the way,    *)
(* close() is under way; outside and undisturbed, the recorder is closed   *)
(* and its writer has ended or never was.                                  *)
ExitInv ==
  /\ exit = "inside" =>
       inner \in {"open", "exhausted"} /\ closer = "none" /\ ~closed
  /\ exit = "leaving" => closer # "none"
  /\ closer = "inner" => ~closed
  /\ closer = "writer" => closed
  /\ exit = "left" /\ ~swallowed =>
       closed /\ closer = "none" /\ task \in {"none", "finished"}

LEMMA ExitInvInit == SessionInit => ExitInv
  BY DEF SessionInit, Init, ExitInv

LEMMA ExitInvNext == ExitInv /\ [SessionNext]_sessionAllVars => ExitInv'
<1> SUFFICES ASSUME ExitInv, [SessionNext]_sessionAllVars PROVE ExitInv'
  OBVIOUS
<1> USE DEF ExitInv, innerVars, consumerVars, queueVars, writerVars, closeVars,
            runVars, sessionVars, clientVars
<1>1. CASE Hear
  BY <1>1 DEF Hear, TakeMessage, AppendMessage
<1>2. CASE HearNothing \/ Server \/ Toggle
  BY <1>2 DEF HearNothing, TakeMessageTooLate, TakeEnd, ConsumerContinues,
     Server, Inner, Produce, InnerExhausts, Toggle, SetEnabled
<1>3. CASE Record
  BY <1>3 DEF Record, Writer, WriterStarts, WriterWrites, WriterFails,
     WriterStops, HasMessage
<1>4. CASE Leave
  BY <1>4 DEF Leave, Leaves, Close
<1>5. CASE Exit
  <2>1. CASE InnerCloses
    BY <1>5, <2>1 DEF Exit, Leaves, InnerCloses, CloseRecorder
  <2>2. CASE InnerCloseFails
    BY <1>5, <2>2 DEF Exit, Leaves, InnerCloseFails
  <2>3. CASE CloseJoins
    BY <1>5, <2>3 DEF Exit, Leaves, CloseJoins
  <2>4. CASE CloseCancelled
    BY <1>5, <2>4 DEF Exit, Leaves, CloseCancelled
  <2>5. QED
    BY <1>5, <2>1, <2>2, <2>3, <2>4 DEF Exit, Closing
<1>6. CASE Restart
  BY <1>6 DEF Restart, Crash
<1>7. CASE UNCHANGED sessionAllVars
  BY <1>7 DEF sessionAllVars, vars
<1>8. QED
  BY <1>1, <1>2, <1>3, <1>4, <1>5, <1>6, <1>7 DEF SessionNext

LEMMA WrittenWhenLeft == IInv /\ ExitInv => LeavingTellsLoss
<1> SUFFICES ASSUME IInv, ExitInv, exit = "left", ~swallowed PROVE AllWritten
  BY DEF LeavingTellsLoss
<1>1. CASE task = "none"
  <2>1. accepted = <<>>
    BY <1>1 DEF IInv, WriterInv
  <2>2. QED
    BY <2>1 DEF AllWritten
<1>2. CASE task = "finished"
  BY <1>2, FlushedWhenFinished DEF FinishedMeansFlushed
<1>3. QED
  BY <1>1, <1>2 DEF ExitInv

(* client.py:127: a block that is left without an exception, and without a *)
(* cancellation swallowed by __aexit__, has everything in the file that    *)
(* the recorder accepted, for any script, clock and number of runs.        *)
THEOREM LeavingTells == SessionSpec => []LeavingTellsLoss
  BY ExitInvInit, ExitInvNext, RecordingHolds, WrittenWhenLeft, PTL DEF SessionSpec

-----------------------------------------------------------------------------
(* A step writes one piece or none. *)
LEMMA OnePiece ==
  ASSUME IInv, Writer \/ Crash
  PROVE  file' = file \/ \E p \in Pieces : file' = Append(file, p)
<1>1. HasMessage => \A end \in Ends : Piece(end) \in Pieces
  BY NextPiece
<1>2. "line" \in Ends
  BY DEF Ends
<1>3. CASE Writer
  BY <1>1, <1>2, <1>3 DEF Writer, WriterStarts, WriterWrites, WriterFails,
     WriterStops, writerVars
<1>4. CASE Crash
  BY <1>1, <1>4 DEF Crash
<1>5. QED
  BY <1>3, <1>4

(* Every piece gets one stamp.                                             *)
LEMMA StampStep ==
  ASSUME IInv, SessionTypeOK, Stamp,
         file' = file \/ \E p \in Pieces : file' = Append(file, p)
  PROVE  stamps' \in Seq(Times) /\ Len(stamps') = Len(file')
<1>1. file \in Seq(Pieces) /\ stamps \in Seq(Times) /\ Len(stamps) = Len(file)
  BY DEF IInv, TypeOK, SessionTypeOK
<1>2. CASE file' = file
  BY <1>1, <1>2 DEF Stamp
<1>3. ASSUME NEW p \in Pieces, file' = Append(file, p)
      PROVE  stamps' \in Seq(Times) /\ Len(stamps') = Len(file')
  <2>1. Len(file') = Len(file) + 1 /\ Len(file) \in Nat
    BY <1>1, <1>3, AppendFacts
  <2>2. PICK now \in Times : stamps' = Append(stamps, now)
    BY <2>1 DEF Stamp
  <2>3. QED
    BY <1>1, <2>1, <2>2, AppendFacts
<1>4. QED
  BY <1>2, <1>3

LEMMA SessionTypeInit == SessionInit => SessionTypeOK
<1> SUFFICES ASSUME SessionInit PROVE SessionTypeOK
  OBVIOUS
<1>1. stamps \in Seq(Times) /\ Len(stamps) = Len(file)
  BY DEF SessionInit, Init
<1>2. QED
  BY <1>1 DEF SessionInit, SessionTypeOK

LEMMA SessionTypeNext ==
  IInv /\ SessionTypeOK /\ [SessionNext]_sessionAllVars => SessionTypeOK'
<1> SUFFICES ASSUME IInv, SessionTypeOK, [SessionNext]_sessionAllVars
             PROVE  SessionTypeOK'
  OBVIOUS
<1>1. {died, known, swallowed, skipped}' \subseteq BOOLEAN
  BY DEF SessionTypeOK, SessionNext, sessionAllVars, sessionVars, clientVars,
     Hear, HearNothing, Server, Toggle, Record, Leave, Exit, Leaves, Restart,
     Raises
<1>2. exit' \in {"inside", "leaving", "left", "raised"}
  BY DEF SessionTypeOK, SessionNext, sessionAllVars, sessionVars, clientVars,
     Hear, HearNothing, Server, Toggle, Record, Leave, Exit, Leaves, Restart
<1>3. stamps' \in Seq(Times) /\ Len(stamps') = Len(file')
  <2>1. CASE Record \/ Restart
    BY <2>1, OnePiece, StampStep DEF Record, Restart
  <2>2. CASE UNCHANGED <<stamps, file>>
    BY <2>2 DEF SessionTypeOK
  <2>3. QED
    BY <2>1, <2>2 DEF SessionNext, sessionAllVars, sessionVars, vars, writerVars,
       Hear, TakeMessage, HearNothing, TakeMessageTooLate, TakeEnd,
       ConsumerContinues, Server, Inner, Produce, InnerExhausts, Toggle,
       SetEnabled, Leave, Close, Exit, Closing, InnerCloses, InnerCloseFails,
       CloseJoins, CloseCancelled
<1>4. QED
  BY <1>1, <1>2, <1>3 DEF SessionTypeOK

(* Every variable of the session holds a value of its type, and every      *)
(* piece of the file has its stamp.                                        *)
THEOREM SessionTypeCorrect == SessionSpec => []SessionTypeOK
  BY SessionTypeInit, SessionTypeNext, RecordingHolds, PTL DEF SessionSpec

-----------------------------------------------------------------------------
(* What a consumer makes of a sequence of messages, message after message. *)

IsRun(f, s, msgs, n) ==
  f = [k \in 0 .. n |-> IF k = 0 THEN s ELSE Apply(f[k - 1], msgs[k])]

(* The messages that raise, and the last that a consumer applies.          *)
RaisingAt(msgs) == {k \in DOMAIN msgs : Raises(msgs[k])}

LastApplied(msgs) ==
  IF RaisingAt(msgs) = {} THEN Len(msgs) ELSE Min(RaisingAt(msgs))

LEMMA RunExists ==
  ASSUME NEW s, NEW msgs, NEW n \in Nat
  PROVE  \E f : IsRun(f, s, msgs, n)
<1> DEFINE Missing == {k \in Nat : ~\E f : IsRun(f, s, msgs, k)}
<1>1. ASSUME Missing # {} PROVE FALSE
  <2>1. PICK k \in Missing : \A j \in Missing : k <= j
    <3>1. Missing \in SUBSET Nat
      OBVIOUS
    <3> HIDE DEF Missing
    <3> QED BY <1>1, <3>1, MinIsLeast
  <2>2. k \in Nat /\ ~\E f : IsRun(f, s, msgs, k)
    OBVIOUS
  <2>3. IsRun([j \in 0 .. 0 |-> s], s, msgs, 0)
    BY DEF IsRun
  <2>4. k # 0
    BY <2>2, <2>3
  <2>5. k - 1 \in Nat /\ ~(k <= k - 1)
    BY <2>2, <2>4
  <2>6. PICK f : IsRun(f, s, msgs, k - 1)
    BY <2>1, <2>5
  <2> DEFINE g == [j \in 0 .. k |-> IF j = 0 THEN s ELSE Apply(f[j - 1], msgs[j])]
  <2>7. \A j \in 0 .. k - 1 : g[j] = f[j]
    <3> TAKE j \in 0 .. k - 1
    <3>1. f[j] = IF j = 0 THEN s ELSE Apply(f[j - 1], msgs[j])
      BY <2>6, Zenon DEF IsRun
    <3>2. j \in 0 .. k
      BY <2>2
    <3> QED BY <3>1, <3>2
  <2>8. \A j \in 0 .. k : g[j] = IF j = 0 THEN s ELSE Apply(g[j - 1], msgs[j])
    <3> TAKE j \in 0 .. k
    <3>1. j # 0 => j - 1 \in 0 .. k - 1
      BY <2>2
    <3> QED BY <2>7, <3>1
  <2>9. IsRun(g, s, msgs, k)
    <3>1. g = [j \in 0 .. k |-> g[j]]
      OBVIOUS
    <3> HIDE DEF g
    <3> QED BY <2>8, <3>1 DEF IsRun
  <2> QED BY <2>2, <2>9
<1> QED BY <1>1

LEMMA RunsAgree ==
  ASSUME NEW s, NEW msgs, NEW others, NEW n \in Nat, NEW m \in Nat, n <= m,
         \A k \in 1 .. n : msgs[k] = others[k],
         NEW f, NEW g, IsRun(f, s, msgs, n), IsRun(g, s, others, m)
  PROVE  \A k \in 0 .. n : f[k] = g[k]
<1> DEFINE Apart == {k \in 0 .. n : f[k] # g[k]}
<1>1. ASSUME Apart # {} PROVE FALSE
  <2>1. PICK k \in Apart : \A j \in Apart : k <= j
    <3>1. Apart \in SUBSET Nat
      OBVIOUS
    <3> HIDE DEF Apart
    <3> QED BY <1>1, <3>1, MinIsLeast
  <2>2. k \in 0 .. n /\ k \in 0 .. m /\ f[k] # g[k]
    OBVIOUS
  <2>3. f[k] = IF k = 0 THEN s ELSE Apply(f[k - 1], msgs[k])
    BY <2>2, Zenon DEF IsRun
  <2>4. g[k] = IF k = 0 THEN s ELSE Apply(g[k - 1], others[k])
    BY <2>2, Zenon DEF IsRun
  <2>5. k # 0
    BY <2>2, <2>3, <2>4
  <2>6. k - 1 \in 0 .. n /\ ~(k <= k - 1) /\ k \in 1 .. n
    BY <2>2, <2>5
  <2>7. f[k - 1] = g[k - 1] /\ msgs[k] = others[k]
    BY <2>1, <2>6
  <2> QED BY <2>2, <2>3, <2>4, <2>5, <2>7
<1> QED BY <1>1

LEMMA LastAppliedIsIndex ==
  ASSUME NEW S, NEW msgs \in Seq(S)
  PROVE  /\ LastApplied(msgs) \in 0 .. Len(msgs)
         /\ \A k \in 1 .. Len(msgs) : k < LastApplied(msgs) => ~Raises(msgs[k])
<1>1. DOMAIN msgs = 1 .. Len(msgs) /\ Len(msgs) \in Nat
  OBVIOUS
<1>2. RaisingAt(msgs) \in SUBSET Nat /\ RaisingAt(msgs) \subseteq 1 .. Len(msgs)
  BY <1>1 DEF RaisingAt
<1>3. CASE RaisingAt(msgs) = {}
  BY <1>1, <1>3 DEF LastApplied, RaisingAt
<1>4. CASE RaisingAt(msgs) # {}
  <2>1. /\ LastApplied(msgs) \in RaisingAt(msgs)
        /\ \A k \in RaisingAt(msgs) : LastApplied(msgs) <= k
    BY <1>2, <1>4, MinIsLeast DEF LastApplied
  <2>2. \A k \in 1 .. Len(msgs) : Raises(msgs[k]) => k \in RaisingAt(msgs)
    BY <1>1 DEF RaisingAt
  <2> QED BY <1>1, <1>2, <2>1, <2>2
<1> QED BY <1>3, <1>4

LEMMA ConsumeIsRun ==
  ASSUME NEW S, NEW s, NEW msgs \in Seq(S)
  PROVE  \E f : /\ IsRun(f, s, msgs, LastApplied(msgs))
                /\ Consume(s, msgs) = f[LastApplied(msgs)]
<1> DEFINE last == LastApplied(msgs)
           f == CHOOSE g : IsRun(g, s, msgs, last)
<1>1. Consume(s, msgs) = f[last]
  BY Zenon DEF Consume, IsRun, LastApplied, RaisingAt
<1>2. last \in Nat
  BY LastAppliedIsIndex
<1> HIDE DEF last
<1>3. IsRun(f, s, msgs, last)
  BY <1>2, RunExists
<1> HIDE DEF f
<1> QED BY <1>1, <1>3, Zenon DEF last

(* It is what any run over messages that begin like these comes to.        *)
LEMMA ConsumeIsAnyRun ==
  ASSUME NEW S, NEW s, NEW msgs \in Seq(S), NEW others, NEW m \in Nat,
         LastApplied(msgs) <= m,
         \A k \in 1 .. Len(msgs) : msgs[k] = others[k],
         NEW g, IsRun(g, s, others, m)
  PROVE  Consume(s, msgs) = g[LastApplied(msgs)]
<1> DEFINE last == LastApplied(msgs)
<1>1. PICK f : IsRun(f, s, msgs, last) /\ Consume(s, msgs) = f[last]
  BY ConsumeIsRun
<1>2. last \in Nat /\ last \in 0 .. last /\ last <= m
      /\ \A k \in 1 .. last : msgs[k] = others[k]
  BY LastAppliedIsIndex
<1> HIDE DEF last
<1>3. \A k \in 0 .. last : f[k] = g[k]
  BY <1>1, <1>2, RunsAgree
<1> QED BY <1>1, <1>2, <1>3 DEF last

LEMMA ConsumeNothing == \A s : Consume(s, <<>>) = s
<1> TAKE s
<1>1. <<>> \in Seq({}) /\ LastApplied(<<>>) = 0
  BY DEF LastApplied, RaisingAt
<1>2. PICK f : IsRun(f, s, <<>>, 0) /\ Consume(s, <<>>) = f[0]
  BY <1>1, ConsumeIsRun
<1> QED BY <1>2 DEF IsRun

LEMMA ConsumeAppend ==
  ASSUME NEW S, NEW s, NEW msgs \in Seq(S), NEW m \in S,
         \A k \in DOMAIN msgs : ~Raises(msgs[k])
  PROVE  Consume(s, Append(msgs, m)) = Apply(Consume(s, msgs), m)
<1> DEFINE longer == Append(msgs, m)
           n == Len(msgs)
<1>1. /\ longer \in Seq(S) /\ Len(longer) = n + 1 /\ n \in Nat
      /\ \A k \in 1 .. n : longer[k] = msgs[k]
      /\ longer[n + 1] = m
      /\ DOMAIN longer = 1 .. n + 1 /\ DOMAIN msgs = 1 .. n
  BY AppendFacts
<1> HIDE DEF longer
<1>2. LastApplied(msgs) = n
  BY DEF LastApplied, RaisingAt
<1>3. LastApplied(longer) = n + 1
  <2>1. \A k \in 1 .. n : ~Raises(longer[k])
    BY <1>1
  <2>2. CASE RaisingAt(longer) = {}
    BY <1>1, <2>2 DEF LastApplied
  <2>3. CASE RaisingAt(longer) # {}
    <3>1. RaisingAt(longer) \in SUBSET Nat
      BY <1>1 DEF RaisingAt
    <3>2. LastApplied(longer) \in RaisingAt(longer)
      BY <2>3, <3>1, MinIsLeast DEF LastApplied
    <3> QED BY <1>1, <2>1, <3>2 DEF RaisingAt
  <2> QED BY <2>2, <2>3
<1>4. PICK f : IsRun(f, s, longer, n + 1) /\ Consume(s, longer) = f[n + 1]
  BY <1>1, <1>3, ConsumeIsRun
<1>5. Consume(s, msgs) = f[n]
  <2>1. n <= n + 1 /\ n + 1 \in Nat /\ \A k \in 1 .. n : msgs[k] = longer[k]
    BY <1>1
  <2> QED BY <1>2, <1>4, <2>1, ConsumeIsAnyRun
<1>6. f[n + 1] = Apply(f[n], m)
  <2>1. n + 1 \in 0 .. n + 1 /\ n + 1 # 0 /\ (n + 1) - 1 = n
    BY <1>1
  <2>2. f[n + 1] = IF n + 1 = 0 THEN s ELSE Apply(f[(n + 1) - 1], longer[n + 1])
    BY <1>4, <2>1, Zenon DEF IsRun
  <2> QED BY <1>1, <2>1, <2>2
<1> QED BY <1>4, <1>5, <1>6, Zenon DEF longer

(* Whom the messages come from makes no difference but for the label.      *)
LEMMA ConsumeLabelled ==
  ASSUME NEW S, NEW s, Fields \subseteq DOMAIN s, NEW msgs \in Seq(S), NEW label
  PROVE  /\ Consume(Labelled(s, label), msgs) = Labelled(Consume(s, msgs), label)
         /\ DOMAIN Consume(s, msgs) = DOMAIN s
<1> DEFINE last == LastApplied(msgs)
<1>1. PICK f : IsRun(f, s, msgs, last) /\ Consume(s, msgs) = f[last]
  BY ConsumeIsRun
<1>2. last \in Nat /\ last \in 0 .. last
  BY LastAppliedIsIndex
<1> HIDE DEF last
<1>3. \A k \in 0 .. last : f[k] = IF k = 0 THEN s ELSE Apply(f[k - 1], msgs[k])
  BY <1>1, Zenon DEF IsRun
<1>4. \A k \in 0 .. last : DOMAIN f[k] = DOMAIN s
  <2> DEFINE Odd == {k \in 0 .. last : DOMAIN f[k] # DOMAIN s}
  <2>1. ASSUME Odd # {} PROVE FALSE
    <3>1. PICK k \in Odd : \A j \in Odd : k <= j
      <4>1. Odd \in SUBSET Nat
        OBVIOUS
      <4> HIDE DEF Odd
      <4> QED BY <2>1, <4>1, MinIsLeast
    <3>2. k \in 0 .. last /\ DOMAIN f[k] # DOMAIN s
      OBVIOUS
    <3>3. k # 0 /\ k - 1 \in 0 .. last /\ ~(k <= k - 1)
      BY <1>2, <1>3, <3>2
    <3>4. DOMAIN f[k - 1] = DOMAIN s
      BY <3>1, <3>3
    <3>5. f[k] = Apply(f[k - 1], msgs[k])
      BY <1>3, <3>2, <3>3
    <3> QED BY <3>2, <3>4, <3>5, ApplyLabelled
  <2> QED BY <2>1
<1> DEFINE g == [k \in 0 .. last |-> Labelled(f[k], label)]
<1>5. \A k \in 0 .. last :
        g[k] = IF k = 0 THEN Labelled(s, label) ELSE Apply(g[k - 1], msgs[k])
  <2> TAKE k \in 0 .. last
  <2>1. CASE k = 0
    BY <1>3, <2>1
  <2>2. CASE k # 0
    <3>1. k - 1 \in 0 .. last
      BY <1>2, <2>2
    <3>2. Apply(Labelled(f[k - 1], label), msgs[k])
            = Labelled(Apply(f[k - 1], msgs[k]), label)
      BY <1>4, <3>1, ApplyLabelled
    <3>3. f[k] = Apply(f[k - 1], msgs[k])
      BY <1>3, <2>2
    <3> QED BY <2>2, <3>1, <3>2, <3>3
  <2> QED BY <2>1, <2>2
<1>6. IsRun(g, Labelled(s, label), msgs, last)
  <2>1. g = [k \in 0 .. last |-> g[k]]
    OBVIOUS
  <2> HIDE DEF g
  <2> QED BY <1>5, <2>1 DEF IsRun
<1>7. Consume(Labelled(s, label), msgs) = g[last]
  <2> HIDE DEF g
  <2>1. last <= last /\ \A k \in 1 .. Len(msgs) : msgs[k] = msgs[k]
    BY <1>2
  <2> QED BY <1>2, <1>6, <2>1, ConsumeIsAnyRun DEF last
<1>8. g[last] = Labelled(f[last], label)
  BY <1>2
<1> QED BY <1>1, <1>2, <1>4, <1>7, <1>8, Zenon

-----------------------------------------------------------------------------
(* What a replay of a whole recording gives: what all its messages make of *)
(* an empty state, but for the text of one that a crash has cut off, and   *)
(* nothing at all where the cut went through a character.                  *)

Kept(n) ==
  IF n > 0 /\ file[n].end = "split" THEN 0
  ELSE IF n > 0 /\ file[n].end = "torn" THEN n - 1 ELSE n

Texts(n) == [k \in 1 .. n |-> Content(k)]

LEMMA YieldsAll ==
  IInv /\ SessionTypeOK /\ Whole /\ ~SetBack
    => Yielded = [k \in 1 .. Kept(Len(file)) |-> k]
<1> SUFFICES ASSUME IInv, SessionTypeOK, Whole, ~SetBack
             PROVE  Yielded = [k \in 1 .. Kept(Len(file)) |-> k]
  OBVIOUS
<1> DEFINE n == Len(file)
           lines == [i \in DOMAIN file |-> LineOf(i)]
<1>1. /\ n \in Nat /\ DOMAIN file = 1 .. n
      /\ \A i \in 1 .. n : file[i].end \in Ends
  BY FileType, PieceType DEF IInv, TypeOK
<1>2. /\ Len(stamps) = n /\ DOMAIN stamps = 1 .. n
      /\ \A i \in 1 .. n : stamps[i] \in Nat
  <2>1. stamps \in Seq(Times) /\ Len(stamps) = n /\ Times \subseteq Nat
    BY SessionAssumption DEF SessionTypeOK
  <2>2. DOMAIN stamps = 1 .. Len(stamps) /\ \A i \in 1 .. Len(stamps) : stamps[i] \in Times
    BY <2>1
  <2> QED BY <2>1, <2>2
<1>3. \A i \in 1 .. n : i # n => file[i].end = "line"
  <2>1. \A i \in 1 .. n - 1 : file[i].end = "line"
    BY DEF Whole
  <2> HIDE DEF n
  <2> QED BY <1>1, <2>1
<1>4. Kept(n) \in 0 .. n
  BY <1>1 DEF Kept
<1>5. \A i \in 1 .. n : LineOf(i).ts # Huge
  BY <1>2, SessionAssumption DEF LineOf
<1>6. CASE Decodes
  <2>1. ~R!Unreadable(lines)
    <3>1. \A i \in 1 .. n : LineOf(i).content # "bytes"
      BY <1>1, <1>6 DEF Decodes, LineOf
    <3>2. \A i \in 1 .. n : lines[i] = LineOf(i)
      BY <1>1
    <3>3. DOMAIN lines = 1 .. n
      BY <1>1
    <3> HIDE DEF n, lines
    <3> QED BY <1>5, <3>1, <3>2, <3>3 DEF R!Unreadable
  <2>2. \A i \in 1 .. n : file[i].end # "split"
    BY <1>1, <1>6 DEF Decodes
  <2>3. \A i \in 1 .. n : Parses(i) <=> i \in 1 .. Kept(n)
    <3>a. \A i \in DOMAIN file :
            Parses(i) <=> /\ file[i].end \in {"line", "text"}
                          /\ i = 1 \/ file[i - 1].end = "line"
                          /\ i = n \/ file[i].end = "line"
      BY DEF Parses
    <3> HIDE DEF n
    <3>1. \A i \in 1 .. n : i = 1 \/ file[i - 1].end = "line"
      BY <1>1, <1>3
    <3>2. \A i \in 1 .. n : Parses(i) <=> file[i].end # "torn"
      <4> TAKE i \in 1 .. n
      <4>1. i = n \/ file[i].end = "line"
        BY <1>3
      <4>2. file[i].end \in {"line", "text", "torn"} /\ i \in DOMAIN file
        BY <1>1, <2>2 DEF Ends
      <4> QED BY <3>1, <3>a, <4>1, <4>2
    <3>3. CASE n > 0 /\ file[n].end = "torn"
      <4>1. Kept(n) = n - 1
        BY <3>3 DEF Kept
      <4> QED BY <1>1, <1>3, <3>2, <3>3, <4>1
    <3>4. CASE ~(n > 0 /\ file[n].end = "torn")
      <4>1. Kept(n) = n
        BY <1>1, <2>2, <3>4 DEF Kept
      <4> QED BY <1>1, <1>3, <3>2, <3>4, <4>1
    <3> QED BY <3>3, <3>4
  <2>4. \A i \in 1 .. n : R!Yields(LineOf(i)) <=> Parses(i)
    <3> TAKE i \in 1 .. n
    <3>1. file[i].end # "split"
      BY <2>2
    <3> QED BY <3>1 DEF LineOf, R!Yields, R!MessageContents
  <2>5. \A i \in 1 .. n : ~R!StopsAt(i)
    <3> SUFFICES ASSUME NEW i \in 1 .. n, R!StopsAt(i) PROVE FALSE
      OBVIOUS
    <3>1. LineOf(i).content # "noraw"
      BY DEF LineOf
    <3>2. lines[i] = LineOf(i)
      BY <1>1
    <3>3. R!OutOfOrderAt(i)
      BY <3>1, <3>2 DEF R!StopsAt
    <3>4. PICK j \in 1 .. i - 1 : /\ lines[j].ts # None /\ lines[i].ts # None
                                 /\ lines[i].ts < lines[j].ts
      BY <3>3 DEF R!OutOfOrderAt, R!Stamped
    <3>5. j \in 1 .. n /\ j < i /\ lines[j] = LineOf(j)
      BY <1>1, <3>4
    <3>6. LineOf(i).ts = stamps[i] /\ LineOf(j).ts = stamps[j]
      BY <3>2, <3>4, <3>5 DEF LineOf
    <3>7. stamps[i] < stamps[j]
      BY <3>2, <3>4, <3>5, <3>6
    <3> QED BY <1>2, <3>5, <3>7 DEF SetBack
  <2>6. {i \in DOMAIN file : R!Yields(LineOf(i)) /\ \A j \in 1 .. i : ~R!StopsAt(j)}
          = 1 .. Kept(n)
    <3>1. \A i \in 1 .. n : \A j \in 1 .. i : ~R!StopsAt(j)
      BY <1>1, <2>5
    <3>2. 1 .. Kept(n) \subseteq 1 .. n
      BY <1>1, <1>4
    <3> QED BY <1>1, <2>3, <2>4, <3>1, <3>2
  <2> DEFINE m == Kept(n)
  <2>7. Yielded = CHOOSE s \in SetToSeqs(1 .. m) :
                    \A k, l \in DOMAIN s : k < l => s[k] < s[l]
    BY <2>1, <2>6, Zenon DEF Yielded, Sorted
  <2>8. m \in Nat
    BY <1>1, <1>4
  <2> HIDE DEF m
  <2>9. Yielded = [k \in 1 .. m |-> k]
    BY <2>7, <2>8, SortedInterval
  <2> QED BY <2>9 DEF m
<1>7. CASE ~Decodes
  <2>1. n > 0 /\ file[n].end = "split"
    <3>1. PICK i \in 1 .. n : file[i].end = "split"
      BY <1>1, <1>7 DEF Decodes
    <3>2. i = n
      BY <1>3, <3>1
    <3>3. n > 0
      BY <1>1, <3>2
    <3> QED BY <3>1, <3>2, <3>3
  <2>2. Kept(n) = 0
    BY <2>1 DEF Kept
  <2>3. R!Unreadable(lines)
    <3>1. n \in DOMAIN lines /\ lines[n] = LineOf(n)
      BY <1>1, <2>1
    <3>2. LineOf(n).content = "bytes"
      BY <2>1 DEF LineOf
    <3> HIDE DEF n, lines
    <3> QED BY <3>1, <3>2 DEF R!Unreadable
  <2>4. Yielded = <<>>
    BY <2>3, Zenon DEF Yielded
  <2>5. [k \in 1 .. 0 |-> k] = <<>>
    OBVIOUS
  <2> QED BY <2>2, <2>4, <2>5
<1> QED BY <1>6, <1>7

LEMMA ReplayedIsAll ==
  IInv /\ SessionTypeOK /\ Whole /\ ~SetBack
    => Replayed = Consume(Empty("REPLAY"), Texts(Kept(Len(file))))
<1> SUFFICES ASSUME IInv, SessionTypeOK, Whole, ~SetBack
             PROVE  Replayed = Consume(Empty("REPLAY"), Texts(Kept(Len(file))))
  OBVIOUS
<1>1. Yielded = [k \in 1 .. Kept(Len(file)) |-> k]
  BY YieldsAll
<1>2. [k \in DOMAIN Yielded |-> Content(Yielded[k])] = Texts(Kept(Len(file)))
  BY <1>1 DEF Texts
<1> QED BY <1>2, Zenon DEF Replayed

-----------------------------------------------------------------------------
(* The first run's recording is read back up to some message, or not at    *)
(* all.                                                                    *)

LEMMA BrokenHolds == SessionSpec => []BrokenInv
<1>1. SessionInit => BrokenInv
  BY NothingBroken DEF SessionInit
<1>2. IInv /\ BrokenInv /\ [SessionNext]_sessionAllVars => BrokenInv'
  BY Records, BrokenStep
<1>3. QED
  BY <1>1, <1>2, RecordingHolds, PTL DEF SessionSpec

LEMMA OnlyTheLast ==
  \A n \in Nat : \A i \in 1 .. n : i \notin 1 .. n - 1 => i = n /\ n > 0
  OBVIOUS

LEMMA SuffixLost == IInv /\ BrokenInv /\ SessionTypeOK => OnlyASuffixIsLost
<1> SUFFICES ASSUME IInv, BrokenInv, SessionTypeOK, base = 0, ~SetBack
             PROVE  \E n \in 0 .. Len(file) :
                      /\ IF Decodes THEN n + 1 >= Len(file) ELSE n = 0
                      /\ SameData(Replayed,
                                  Consume(Empty("LIVE"),
                                          [k \in 1 .. n |-> script[accepted[k]]]))
  BY DEF OnlyASuffixIsLost
<1> DEFINE n == Kept(Len(file))
           heard == [k \in 1 .. n |-> script[accepted[k]]]
<1>1. Len(file) \in Nat /\ Len(accepted) \in Nat /\ accepted \in Seq(Nat)
  BY FileType DEF IInv, TypeOK
<1>2. Whole
  BY <1>1 DEF BrokenInv, Whole
<1>3. Replayed = Consume(Empty("REPLAY"), Texts(n))
  BY <1>2, ReplayedIsAll
<1>4. n \in Nat /\ n <= Len(file) /\ Len(file) <= Len(accepted)
  BY <1>1 DEF Kept, IInv, RecordedInOrder
<1>5. IF Decodes THEN n + 1 >= Len(file) ELSE n = 0
  <2>a. DOMAIN file = 1 .. Len(file)
    BY FileType DEF IInv, TypeOK
  <2>1. CASE Decodes
    <3>1. ~(Len(file) > 0 /\ file[Len(file)].end = "split")
      BY <1>1, <2>a, <2>1 DEF Decodes
    <3> QED BY <1>1, <2>1, <3>1 DEF Kept
  <2>2. CASE ~Decodes
    <3>1. PICK i \in 1 .. Len(file) : file[i].end = "split"
      BY <2>a, <2>2 DEF Decodes
    <3>2. ~(i \in 1 .. Len(file) - 1)
      BY <1>2, <3>1 DEF Whole
    <3>3. i = Len(file) /\ Len(file) > 0
      BY <1>1, <3>2, OnlyTheLast
    <3> QED BY <2>2, <3>1, <3>3 DEF Kept
  <2> QED BY <2>1, <2>2
<1>6. \A k \in 1 .. Len(file) : file[k].msg = accepted[k]
  BY <1>1 DEF IInv, RecordedInOrder
<1> HIDE DEF n
<1>7. Texts(n) = heard
  BY <1>1, <1>4, <1>6 DEF Texts, Content
<1>8. heard \in Seq({script[i] : i \in Nat})
  <2>1. \A k \in 1 .. n : accepted[k] \in Nat
    BY <1>1, <1>4
  <2>2. \A k \in 1 .. n : script[accepted[k]] \in {script[i] : i \in Nat}
    BY <2>1
  <2> QED BY <1>4, <2>2
<1> HIDE DEF heard
<1> DEFINE c == Consume(Empty("LIVE"), heard)
<1>9. /\ Fields \subseteq DOMAIN c
      /\ Consume(Empty("REPLAY"), heard) = Labelled(c, "REPLAY")
      /\ Consume(Empty("LIVE"), heard) = Labelled(c, "LIVE")
  <2> DEFINE e == Empty("LIVE")
  <2>1. DOMAIN e = Fields /\ Empty("REPLAY") = Labelled(e, "REPLAY")
        /\ Empty("LIVE") = Labelled(e, "LIVE")
    BY EmptyIsLabelled
  <2> HIDE DEF e
  <2>2. /\ Consume(Labelled(e, "REPLAY"), heard) = Labelled(Consume(e, heard), "REPLAY")
        /\ Consume(Labelled(e, "LIVE"), heard) = Labelled(Consume(e, heard), "LIVE")
        /\ DOMAIN Consume(e, heard) = Fields
    BY <1>8, <2>1, ConsumeLabelled
  <2> QED BY <2>1, <2>2, Zenon DEF e
<1> HIDE DEF c
<1>10. SameData(Replayed, Consume(Empty("LIVE"), heard))
  <2>1. SameData(Labelled(c, "REPLAY"), Labelled(c, "LIVE"))
    BY <1>9, LabelledIsSame
  <2> QED BY <1>3, <1>7, <1>9, <2>1, Zenon
<1>11. n \in 0 .. Len(file)
  BY <1>1, <1>4
<1> QED BY <1>10, <1>11, <1>5, Zenon DEF heard

(* __aiter__ after _writer_loop, of a first run: whenever the program dies *)
(* or its writer fails, a replay of what is in the file gives the state    *)
(* that all the messages in it, or all but the last, have led through.     *)
(* Only a write that was cut inside a character costs them all, and the    *)
(* theorem says so: the replay is then that of an empty recording.         *)
THEOREM LosesASuffix == SessionSpec => []OnlyASuffixIsLost
  BY SuffixLost, RecordingHolds, BrokenHolds, SessionTypeCorrect, PTL

-----------------------------------------------------------------------------
(* The state a client has is what the messages of its runs, those in the   *)
(* file when this one began and those accepted since, make of an empty     *)
(* one. It takes a client that knew the file, and one that can be replayed. *)

(* Nothing in what earlier runs have left stops a replay.                  *)
GoodBase ==
  /\ \A i \in 1 .. base - 1 : file[i].end = "line"
  /\ \A i \in 1 .. base : ~Raises(Content(i))
  /\ \A i, j \in 1 .. base : i < j => ~(stamps[j] < stamps[i])

Lived ==
  [k \in 1 .. Kept(base) + Len(accepted) |->
     IF k <= Kept(base) THEN Content(k) ELSE script[accepted[k - Kept(base)]]]

StateInv ==
  known /\ ~skipped /\ GoodBase =>
    \E label : state = Labelled(Consume(Empty("LIVE"), Lived), label)

(* A message that raised was the last: the iterator has ended.             *)
DiedInv ==
  (\E k \in 1 .. Len(accepted) : Raises(script[accepted[k]]))
    => died /\ consumer # "waiting"

LEMMA DiedInvInit == SessionInit => DiedInv
  BY DEF SessionInit, Init, DiedInv

LEMMA DiedInvNext == IInv /\ DiedInv /\ [SessionNext]_sessionAllVars => DiedInv'
<1> SUFFICES ASSUME IInv, DiedInv, [SessionNext]_sessionAllVars PROVE DiedInv'
  OBVIOUS
<1> USE DEF DiedInv, innerVars, consumerVars, queueVars, writerVars, closeVars,
            runVars, sessionVars, clientVars
<1>1. accepted \in Seq(Nat) /\ consumed \in Nat /\ Len(accepted) \in Nat
  BY FileType, ConstantsAssumption DEF IInv, TypeOK
<1>2. CASE Hear
  <2>1. \A k \in 1 .. Len(accepted) : ~Raises(script[accepted[k]])
    BY <1>2 DEF Hear, TakeMessage
  <2>2. /\ script' = script /\ died' = Raises(script[consumed'])
        /\ consumer' = "holding" /\ consumed' = consumed + 1
        /\ accepted' \in {accepted, Append(accepted, consumed')}
    BY <1>2 DEF Hear, TakeMessage, AppendMessage
  <2>3. CASE accepted' = accepted
    BY <2>1, <2>2, <2>3
  <2>4. CASE accepted' = Append(accepted, consumed')
    <3>1. /\ Len(accepted') = Len(accepted) + 1
          /\ \A k \in 1 .. Len(accepted) : accepted'[k] = accepted[k]
          /\ accepted'[Len(accepted) + 1] = consumed'
      BY <1>1, <2>2, <2>4, AppendFacts
    <3>2. ASSUME NEW k \in 1 .. Len(accepted'), Raises(script[accepted'[k]])
          PROVE  died'
      <4>1. k = Len(accepted) + 1
        BY <1>1, <2>1, <3>1, <3>2
      <4> QED BY <2>2, <3>1, <3>2, <4>1
    <3> QED BY <2>2, <3>2
  <2> QED BY <2>2, <2>3, <2>4
<1>3. CASE HearNothing
  <2>1. accepted' = accepted /\ script' = script /\ died' = died
        /\ (consumer' # "waiting" \/ ~died)
    BY <1>3 DEF HearNothing, TakeMessageTooLate, TakeEnd, ConsumerContinues
  <2> QED BY <2>1
<1>4. CASE Restart
  BY <1>4 DEF Restart, Crash
<1>5. CASE UNCHANGED <<accepted, script, died, consumer>>
  BY <1>5
<1>6. CASE Server \/ Toggle \/ Record \/ Leave \/ Exit \/ UNCHANGED sessionAllVars
  BY <1>5, <1>6 DEF Server, Inner, Produce, InnerExhausts, Toggle, SetEnabled,
     Record, Writer, WriterStarts, WriterWrites, WriterFails, WriterStops,
     Leave, Close, CloseRecorder, Exit, Closing, InnerCloses, InnerCloseFails,
     CloseJoins, CloseCancelled, sessionAllVars, vars
<1> QED BY <1>2, <1>3, <1>4, <1>6 DEF SessionNext

(* A step that hears nothing and leaves the runs before it as they are.    *)
LEMMA QuietForState ==
  ASSUME IInv, StateInv, UNCHANGED <<script, state, known, base, accepted>>,
         skipped' = skipped,
         \A i \in 1 .. base : file'[i] = file[i] /\ stamps'[i] = stamps[i]
  PROVE  StateInv'
<1>1. base \in Nat /\ Len(accepted) \in Nat
  BY FileType DEF IInv, TypeOK
<1>2. Kept(base)' = Kept(base) /\ Kept(base) \in 0 .. base
  BY <1>1 DEF Kept
<1>3. \A i \in 1 .. base : Content(i)' = Content(i)
  BY DEF Content
<1>4. GoodBase' => GoodBase
  BY <1>1, <1>3 DEF GoodBase
<1>5. Lived' = Lived
  BY <1>1, <1>2, <1>3 DEF Lived
<1> QED BY <1>4, <1>5 DEF StateInv

LEMMA LivedType ==
  IInv => /\ Kept(base) \in 0 .. base
          /\ Lived \in Seq({script[i] : i \in Nat})
          /\ Len(Lived) = Kept(base) + Len(accepted)
<1> SUFFICES ASSUME IInv
             PROVE  /\ Kept(base) \in 0 .. base
                    /\ Lived \in Seq({script[i] : i \in Nat})
                    /\ Len(Lived) = Kept(base) + Len(accepted)
  OBVIOUS
<1>1. /\ base \in Nat /\ Len(accepted) \in Nat
      /\ \A i \in 1 .. base : file[i].msg \in Nat
      /\ \A k \in 1 .. Len(accepted) : accepted[k] \in Nat
  <2>1. file \in Seq(Pieces) /\ base \in 0 .. Len(file) /\ accepted \in Seq(Nat)
    BY DEF IInv, TypeOK
  <2>2. \A i \in 1 .. base : file[i] \in Pieces
    BY <2>1
  <2> QED BY <2>1, <2>2, PieceType
<1>2. Kept(base) \in 0 .. base
  BY <1>1 DEF Kept
<1> DEFINE S == {script[i] : i \in Nat}
           b == Kept(base)
           n == b + Len(accepted)
<1>3. n \in Nat /\ b \in Nat /\ b <= base
  BY <1>1, <1>2
<1> HIDE DEF b
<1>4. \A k \in 1 .. n : IF k <= b THEN Content(k) \in S
                                 ELSE script[accepted[k - b]] \in S
  <2> TAKE k \in 1 .. n
  <2>1. CASE k <= b
    BY <1>1, <1>3, <2>1 DEF Content
  <2>2. CASE ~(k <= b)
    <3>1. k - b \in 1 .. Len(accepted)
      BY <1>1, <1>3, <2>2
    <3> QED BY <1>1, <2>2, <3>1
  <2> QED BY <2>1, <2>2
<1>5. Lived = [k \in 1 .. n |-> IF k <= b THEN Content(k) ELSE script[accepted[k - b]]]
  BY DEF Lived, b
<1> HIDE DEF n, S
<1>6. Lived \in Seq(S) /\ Len(Lived) = n
  BY <1>3, <1>4, <1>5
<1> QED BY <1>2, <1>6 DEF b, n, S

LEMMA LivedTypeNext == (IInv => Lived \in Seq({script[i] : i \in Nat}))'
  BY LivedType, PTL

LEMMA PastTheBase ==
  \A i, j \in Nat : \A k \in 1 .. i + j : ~(k <= i) => k - i \in 1 .. j
  OBVIOUS

(* One more message is applied to the state and appended to what was lived. *)
LEMMA HearForState ==
  ASSUME IInv, IInv', StateInv, DiedInv, Hear
  PROVE  StateInv'
<1> USE DEF innerVars, writerVars, runVars
<1>1. CASE ~enabled
  <2>1. skipped' = TRUE
    BY <1>1 DEF Hear
  <2> QED BY <2>1 DEF StateInv
<1>2. CASE enabled
  <2> DEFINE m == script[consumed']
             b == Kept(base)
  <2>1. /\ accepted' = Append(accepted, consumed') /\ consumer = "waiting"
        /\ UNCHANGED <<script, file, base, stamps, known>>
        /\ state' = Apply(state, m) /\ (skipped' = FALSE => ~skipped)
        /\ consumed' = consumed + 1
    BY <1>2 DEF Hear, TakeMessage, AppendMessage
  <2>2. accepted \in Seq(Nat) /\ consumed' \in Nat /\ Len(accepted) \in Nat
        /\ base \in Nat
    BY <2>1, FileType, ConstantsAssumption DEF IInv, TypeOK
  <2>3. /\ Len(accepted') = Len(accepted) + 1
        /\ \A k \in 1 .. Len(accepted) : accepted'[k] = accepted[k]
        /\ accepted'[Len(accepted) + 1] = consumed'
    BY <2>1, <2>2, AppendFacts
  <2>4. b \in 0 .. base /\ Lived \in Seq({script[i] : i \in Nat})
        /\ Len(Lived) = b + Len(accepted)
    BY LivedType
  <2>5. Kept(base)' = b /\ \A i \in 1 .. base : Content(i)' = Content(i)
    BY <2>1 DEF Kept, Content
  <2>6. GoodBase' => GoodBase
    BY <2>1, <2>5 DEF GoodBase
  <2>7. Lived' = Append(Lived, m)
    <3> DEFINE n == b + Len(accepted)
    <3>1. Lived' = [k \in 1 .. n + 1 |-> IF k <= b THEN Content(k)
                                         ELSE script[accepted'[k - b]]]
      <4>1. Lived' = [k \in 1 .. b + Len(accepted') |->
                        IF k <= b THEN Content(k)' ELSE script[accepted'[k - b]]]
        BY <2>1, <2>5 DEF Lived
      <4>2. b + Len(accepted') = n + 1
        BY <2>2, <2>3, <2>4
      <4>3. \A k \in 1 .. n + 1 : k <= b => Content(k)' = Content(k)
        BY <2>1 DEF Content
      <4> QED BY <4>1, <4>2, <4>3
    <3>2. Lived = [k \in 1 .. n |-> IF k <= b THEN Content(k)
                                    ELSE script[accepted[k - b]]]
      BY DEF Lived
    <3> HIDE DEF b
    <3>3. \A k \in 1 .. n : Lived'[k] = Lived[k]
      <4> TAKE k \in 1 .. n
      <4>1. k \in 1 .. n + 1
        BY <2>2, <2>4
      <4>2. ~(k <= b) => k - b \in 1 .. Len(accepted)
        BY <2>2, <2>4, PastTheBase
      <4> QED BY <2>3, <3>1, <3>2, <4>1, <4>2
    <3>4. Lived'[n + 1] = m
      <4>1. n + 1 \in 1 .. n + 1 /\ ~(n + 1 <= b) /\ (n + 1) - b = Len(accepted) + 1
        BY <2>2, <2>4
      <4>2. Lived'[n + 1] = script[accepted'[(n + 1) - b]]
        BY <3>1, <4>1
      <4> QED BY <2>3, <4>1, <4>2
    <3>5. n \in Nat /\ Len(Lived) = n
      BY <2>2, <2>4
    <3> DEFINE S == {script[i] : i \in Nat}
    <3>6. m \in S /\ Lived \in Seq(S)
      BY <2>1, <2>2, <2>4
    <3>7. Lived' = [k \in 1 .. n + 1 |-> Lived'[k]]
      BY <3>1
    <3> HIDE DEF n, m, S
    <3> DEFINE longer == Append(Lived, m)
    <3>8. /\ longer \in Seq(S) /\ Len(longer) = n + 1
          /\ \A k \in 1 .. n : longer[k] = Lived[k]
          /\ longer[n + 1] = m
      BY <3>5, <3>6, AppendFacts
    <3> HIDE DEF longer
    <3>9. longer = [k \in 1 .. n + 1 |-> longer[k]]
      BY <3>8
    <3>10. \A k \in 1 .. n + 1 : k = n + 1 \/ k \in 1 .. n
      BY <3>5
    <3> QED BY <3>3, <3>4, <3>7, <3>8, <3>9, <3>10 DEF longer
  <2>8. ASSUME known', ~skipped', GoodBase'
        PROVE  \E label : state' = Labelled(Consume(Empty("LIVE"), Lived'), label)
    <3>1. PICK label : state = Labelled(Consume(Empty("LIVE"), Lived), label)
      BY <2>1, <2>6, <2>8 DEF StateInv
    <3>2. \A k \in DOMAIN Lived : ~Raises(Lived[k])
      <4> TAKE k \in DOMAIN Lived
      <4>1. k \in 1 .. b + Len(accepted)
            /\ Lived[k] = IF k <= b THEN Content(k) ELSE script[accepted[k - b]]
        BY DEF Lived
      <4>2. CASE k <= b
        BY <2>2, <2>4, <2>6, <2>8, <4>1, <4>2 DEF GoodBase
      <4>3. CASE ~(k <= b)
        <5> HIDE DEF b
        <5>a. b \in Nat /\ Len(accepted) \in Nat
          BY <2>2, <2>4
        <5>b. k \in 1 .. b + Len(accepted)
          BY <4>1
        <5>1. k - b \in 1 .. Len(accepted)
          BY <4>3, <5>a, <5>b, PastTheBase
        <5> QED BY <2>1, <4>1, <4>3, <5>1 DEF DiedInv
      <4> QED BY <4>2, <4>3
    <3> DEFINE c == Consume(Empty("LIVE"), Lived)
    <3>3. m \in {script[i] : i \in Nat}
      BY <2>2
    <3> HIDE DEF m
    <3>4. Consume(Empty("LIVE"), Append(Lived, m)) = Apply(c, m)
      <4> DEFINE S == {script[i] : i \in Nat}
                 e == Empty("LIVE")
      <4>1. Lived \in Seq(S) /\ m \in S
        BY <2>4, <3>3
      <4> HIDE DEF S, e
      <4>2. Consume(e, Append(Lived, m)) = Apply(Consume(e, Lived), m)
        BY <3>2, <4>1, ConsumeAppend
      <4> QED BY <4>2 DEF e
    <3>5. Fields \subseteq DOMAIN c
      <4> DEFINE S == {script[i] : i \in Nat}
                 e == Empty("LIVE")
      <4>1. Lived \in Seq(S) /\ DOMAIN e = Fields
        BY <2>4, EmptyIsLabelled
      <4> HIDE DEF S, e
      <4>2. DOMAIN Consume(e, Lived) = DOMAIN e
        BY <4>1, ConsumeLabelled
      <4> QED BY <4>1, <4>2 DEF e
    <3> HIDE DEF c
    <3>6. Apply(Labelled(c, label), m) = Labelled(Apply(c, m), label)
      BY <3>5, ApplyLabelled
    <3>7. state = Labelled(c, label)
      BY <3>1 DEF c
    <3>8. state' = Apply(state, m)
      BY <2>1 DEF m
    <3>9. state' = Labelled(Consume(Empty("LIVE"), Lived'), label)
      BY <2>7, <3>4, <3>6, <3>7, <3>8, Zenon
    <3> QED BY <3>9
  <2> QED BY <2>8 DEF StateInv
<1> QED BY <1>1, <1>2

(* A run begins with an empty state and file, or with what a replay gives. *)
LEMMA ReplayedNext ==
  (IInv /\ SessionTypeOK /\ Whole /\ ~SetBack
     => Replayed = Consume(Empty("REPLAY"), Texts(Kept(Len(file)))))'
  BY ReplayedIsAll, PTL

LEMMA LivedWithoutRun ==
  ASSUME IInv', accepted' = <<>>
  PROVE  Lived' = Texts(Kept(base))'
<1>1. (base \in Nat)'
  BY DEF IInv, TypeOK
<1>2. Kept(base)' \in Nat /\ Len(accepted') = 0
  <2>1. (\A n \in Nat : Kept(n) \in Nat)'
    BY DEF Kept
  <2>2. Len(accepted') = 0
    OBVIOUS
  <2> QED BY <1>1, <2>1, <2>2
<1>3. Lived' = [k \in 1 .. Kept(base)' |-> Content(k)']
  BY <1>2 DEF Lived
<1>4. Texts(Kept(base))' = [k \in 1 .. Kept(base)' |-> Content(k)']
  BY DEF Texts
<1> QED BY <1>3, <1>4, Zenon

LEMMA RestartForState ==
  ASSUME IInv', SessionTypeOK', Restart
  PROVE  StateInv'
<1>1. accepted' = <<>> /\ base' = Len(file')
  BY DEF Restart, Crash
<1>2. Lived' = Texts(Kept(base))'
  BY <1>1, LivedWithoutRun
<1>3. CASE state' = Empty("LIVE") /\ known' = (file' = <<>>)
  <2> SUFFICES ASSUME known'
               PROVE  \E label : state' = Labelled(Consume(Empty("LIVE"), Lived'), label)
    BY DEF StateInv
  <2>1. base' = 0
    BY <1>1, <1>3
  <2>2. Texts(Kept(base))' = <<>>
    BY <2>1 DEF Kept, Texts
  <2>3. Consume(Empty("LIVE"), Lived') = Empty("LIVE")
    BY <1>2, <2>2, ConsumeNothing
  <2>4. Empty("LIVE") = Labelled(Empty("LIVE"), "LIVE")
    BY EmptyIsLabelled
  <2> QED BY <1>3, <2>3, <2>4
<1>4. CASE state' = Replayed' /\ known' = TRUE
  <2> SUFFICES ASSUME GoodBase'
               PROVE  \E label : state' = Labelled(Consume(Empty("LIVE"), Lived'), label)
    BY DEF StateInv
  <2>1. Whole'
    BY <1>1 DEF GoodBase, Whole
  <2>2. ~SetBack'
    <3>1. DOMAIN stamps' = 1 .. base'
      <4>1. stamps' \in Seq(Times) /\ Len(stamps') = Len(file')
        BY DEF SessionTypeOK
      <4> QED BY <1>1, <4>1
    <3> QED BY <3>1 DEF GoodBase, SetBack
  <2>3. Replayed' = Consume(Empty("REPLAY"), Texts(Kept(Len(file))))'
    BY <2>1, <2>2, ReplayedNext
  <2>4. Replayed' = Consume(Empty("REPLAY"), Lived')
    BY <1>1, <1>2, <2>3
  <2>5. Lived' \in Seq({script'[i] : i \in Nat})
    BY LivedTypeNext
  <2> DEFINE e == Empty("LIVE")
             S == {script'[i] : i \in Nat}
  <2>6. DOMAIN e = Fields /\ Empty("REPLAY") = Labelled(e, "REPLAY")
    BY EmptyIsLabelled
  <2> HIDE DEF e, S
  <2>7. Consume(Labelled(e, "REPLAY"), Lived') = Labelled(Consume(e, Lived'), "REPLAY")
    BY <2>5, <2>6, ConsumeLabelled DEF S
  <2> QED BY <1>4, <2>4, <2>6, <2>7 DEF e
<1> QED BY <1>3, <1>4 DEF Restart

LEMMA StateInvInit == SessionInit => StateInv
<1> SUFFICES ASSUME SessionInit PROVE StateInv
  OBVIOUS
<1>1. base = 0 /\ accepted = <<>> /\ state = Empty("LIVE")
  BY DEF SessionInit, Init
<1>2. Kept(base) = 0 /\ Len(accepted) = 0
  BY <1>1 DEF Kept
<1>3. Lived = <<>>
  BY <1>2 DEF Lived
<1>4. Consume(Empty("LIVE"), Lived) = Empty("LIVE")
  BY <1>3, ConsumeNothing
<1>5. Empty("LIVE") = Labelled(Empty("LIVE"), "LIVE")
  BY EmptyIsLabelled
<1> QED BY <1>1, <1>4, <1>5 DEF StateInv

LEMMA StateInvNext ==
  IInv /\ SessionTypeOK /\ DiedInv /\ StateInv /\ IInv' /\ SessionTypeOK'
    /\ [SessionNext]_sessionAllVars => StateInv'
<1> SUFFICES ASSUME IInv, SessionTypeOK, DiedInv, StateInv,
                    [SessionNext]_sessionAllVars, IInv', SessionTypeOK'
             PROVE  StateInv'
  OBVIOUS
<1>1. CASE Hear
  BY <1>1, HearForState
<1>2. CASE Restart
  BY <1>2, RestartForState
<1>3. CASE UNCHANGED <<script, state, known, skipped, base, accepted, file, stamps>>
  BY <1>3, QuietForState
<1>4. CASE HearNothing \/ Server \/ Toggle \/ Leave \/ Exit \/ UNCHANGED sessionAllVars
  BY <1>3, <1>4 DEF innerVars, consumerVars, queueVars, writerVars, closeVars,
     runVars, sessionVars, clientVars, HearNothing, TakeMessageTooLate, TakeEnd,
     ConsumerContinues, Server, Inner, Produce, InnerExhausts, Toggle, SetEnabled,
     Leave, Close, CloseRecorder, Exit, Closing, InnerCloses, InnerCloseFails,
     CloseJoins, CloseCancelled, sessionAllVars, vars
<1>5. CASE Record
  <2>1. UNCHANGED <<script, state, known, skipped, base, accepted>>
    BY <1>5 DEF Record, Writer, WriterStarts, WriterWrites, WriterFails,
       WriterStops, consumerVars, queueVars, runVars, clientVars
  <2>2. /\ file \in Seq(Pieces) /\ base \in 0 .. Len(file)
        /\ stamps \in Seq(Times) /\ Len(stamps) = Len(file)
    BY DEF IInv, TypeOK, SessionTypeOK
  <2>3. file' = file \/ \E p \in Pieces : file' = Append(file, p)
    BY <1>5, OnePiece DEF Record
  <2>4. CASE file' = file
    <3>1. stamps' = stamps
      BY <1>5, <2>2, <2>4 DEF Record, Stamp
    <3> QED BY <2>1, <2>4, <3>1, QuietForState
  <2>5. ASSUME NEW p \in Pieces, file' = Append(file, p) PROVE StateInv'
    <3>1. /\ Len(file') = Len(file) + 1 /\ Len(file) \in Nat
          /\ \A i \in 1 .. Len(file) : file'[i] = file[i]
      BY <2>2, <2>5, AppendFacts
    <3>2. PICK now \in Times : stamps' = Append(stamps, now)
      BY <1>5, <3>1 DEF Record, Stamp
    <3>3. \A i \in 1 .. Len(stamps) : stamps'[i] = stamps[i]
      BY <2>2, <3>2, AppendFacts
    <3>4. \A i \in 1 .. base : file'[i] = file[i] /\ stamps'[i] = stamps[i]
      BY <2>2, <3>1, <3>3
    <3> QED BY <2>1, <3>4, QuietForState
  <2> QED BY <2>3, <2>4, <2>5
<1> QED BY <1>1, <1>2, <1>4, <1>5 DEF SessionNext

LEMMA SameOffline ==
  IInv /\ SessionTypeOK /\ ExitInv /\ StateInv => OfflineIsLive
<1> SUFFICES ASSUME IInv, SessionTypeOK, ExitInv, StateInv, exit = "left",
                    ~swallowed, known, ~skipped, Whole, ~OldPoison, ~SetBack
             PROVE  SameData(Replayed, state)
  BY DEF OfflineIsLive
<1> DEFINE n == Len(file)
           L == Len(accepted)
<1>1. AllWritten
  BY WrittenWhenLeft DEF LeavingTellsLoss
<1>2. n \in Nat /\ base \in 0 .. n /\ L \in Nat
  BY FileType DEF IInv, TypeOK
<1>3. n = base + L
  <2>1. n - base <= L
    BY DEF IInv, RecordedInOrder
  <2>2. L > 0 => base + L <= n
    <3>1. L > 0 => L \in 1 .. L
      BY <1>2
    <3> HIDE DEF L
    <3>2. \A k \in 1 .. L : base + k <= n
      BY <1>1 DEF AllWritten, L
    <3> QED BY <3>1, <3>2
  <2> QED BY <1>2, <2>1, <2>2
<1>4. \A k \in 1 .. L :
        file[base + k].end = "line" /\ file[base + k].msg = accepted[k]
  <2> TAKE k \in 1 .. L
  <2> DEFINE written == file[base + k]
  <2>1. written = [msg |-> accepted[k], end |-> "line"]
    BY <1>1 DEF AllWritten
  <2> HIDE DEF written
  <2>2. written.end = "line" /\ written.msg = accepted[k]
    BY <2>1
  <2> QED BY <2>2 DEF written
<1>5. GoodBase
  <2>1. \A i \in 1 .. base - 1 : file[i].end = "line"
    BY <1>2 DEF Whole
  <2>2. \A i \in 1 .. base : ~Raises(Content(i))
    BY DEF OldPoison
  <2>3. DOMAIN stamps = 1 .. n
    <3>1. stamps \in Seq(Times) /\ Len(stamps) = n
      BY DEF SessionTypeOK
    <3> QED BY <3>1
  <2>4. \A i, j \in 1 .. base : i < j => ~(stamps[j] < stamps[i])
    BY <1>2, <2>3 DEF SetBack
  <2> QED BY <2>1, <2>2, <2>4 DEF GoodBase
<1>6. PICK label : state = Labelled(Consume(Empty("LIVE"), Lived), label)
  BY <1>5 DEF StateInv
<1>7. Lived = Texts(Kept(n))
  <2>1. CASE L = 0
    <3>1. n = base
      BY <1>2, <1>3, <2>1
    <3>2. Kept(base) \in Nat /\ Kept(base) + L = Kept(base)
      BY <1>2, <2>1 DEF Kept
    <3> QED BY <3>1, <3>2 DEF Lived, Texts
  <2>2. CASE L > 0
    <3>1. file[n].end = "line"
      <4>1. L \in 1 .. L
        BY <1>2, <2>2
      <4>2. file[base + L].end = "line"
        BY <1>4, <4>1, Zenon
      <4> HIDE DEF n, L
      <4> QED BY <1>3, <4>2
    <3>2. Kept(n) = n
      BY <3>1 DEF Kept
    <3>3. base > 0 => file[base].end = "line"
      <4>1. base > 0 => base \in 1 .. n - 1
        BY <1>2, <1>3, <2>2
      <4> QED BY <4>1 DEF Whole
    <3>4. Kept(base) = base
      BY <3>3 DEF Kept
    <3>5. \A k \in 1 .. n : ~(k <= base) => Content(k) = script[accepted[k - base]]
      <4> SUFFICES ASSUME NEW k \in 1 .. n, ~(k <= base)
                   PROVE  Content(k) = script[accepted[k - base]]
        OBVIOUS
      <4>1. k - base \in 1 .. L /\ base + (k - base) = k
        BY <1>2, <1>3
      <4>a. file[base + (k - base)].msg = accepted[k - base]
        BY <1>4, <4>1, Zenon
      <4>2. file[k].msg = accepted[k - base]
        BY <4>1, <4>a, Zenon
      <4> QED BY <4>2 DEF Content
    <3> HIDE DEF n, L
    <3>6. Lived = [k \in 1 .. n |-> IF k <= base THEN Content(k)
                                    ELSE script[accepted[k - base]]]
      BY <1>3, <3>4 DEF Lived, L
    <3> QED BY <3>2, <3>5, <3>6 DEF Texts
  <2> QED BY <1>2, <2>1, <2>2
<1>8. Replayed = Consume(Empty("REPLAY"), Lived)
  BY <1>7, ReplayedIsAll
<1> DEFINE e == Empty("LIVE")
           S == {script[i] : i \in Nat}
           c == Consume(e, Lived)
<1>9. Lived \in Seq(S) /\ DOMAIN e = Fields /\ Empty("REPLAY") = Labelled(e, "REPLAY")
  BY LivedType, EmptyIsLabelled
<1>10. state = Labelled(c, label)
  BY <1>6
<1> HIDE DEF e, S
<1>11. Consume(Labelled(e, "REPLAY"), Lived) = Labelled(c, "REPLAY") /\ DOMAIN c = Fields
  BY <1>9, ConsumeLabelled
<1> HIDE DEF c
<1>12. SameData(Labelled(c, "REPLAY"), Labelled(c, label))
  BY <1>11, LabelledIsSame
<1> QED BY <1>8, <1>9, <1>10, <1>11, <1>12, Zenon

(* client.py:127 with messages(), the recorder and a replay: a client that *)
(* left its block quietly has the state that a replay of the recording     *)
(* gives, run after run, for any script of messages, as long as none of    *)
(* the three things that OfflineIsLive names came to pass.                 *)
THEOREM OfflineEqualsLive == SessionSpec => []OfflineIsLive
<1>1. SessionSpec => []DiedInv
  BY DiedInvInit, DiedInvNext, RecordingHolds, PTL DEF SessionSpec
<1>2. SessionSpec => []StateInv
  BY <1>1, StateInvInit, StateInvNext, RecordingHolds, SessionTypeCorrect, PTL
     DEF SessionSpec
<1>3. SessionSpec => []ExitInv
  BY ExitInvInit, ExitInvNext, PTL DEF SessionSpec
<1> QED BY <1>2, <1>3, SameOffline, RecordingHolds, SessionTypeCorrect, PTL
=============================================================================
