-------------------------- MODULE RecordingProofs --------------------------
(* Proofs about Recording: its inductive invariant and what follows from it. *)
EXTENDS Recording, SequenceTheorems, FunctionTheorems, FiniteSetTheorems, TLAPS

(* What append does to the length and the elements of a sequence. *)
LEMMA AppendFacts ==
  ASSUME NEW S, NEW s \in Seq(S), NEW e \in S
  PROVE  /\ Append(s, e) \in Seq(S)
         /\ Len(Append(s, e)) = Len(s) + 1
         /\ \A i \in 1..Len(s) : Append(s, e)[i] = s[i]
         /\ Append(s, e)[Len(s) + 1] = e
  OBVIOUS

LEMMA PieceType ==
  ASSUME NEW p \in Pieces
  PROVE  p.msg \in Nat /\ p.end \in Ends
  BY DEF Pieces

LEMMA FileType ==
  ASSUME IInv
  PROVE  /\ Len(file) \in Nat
         /\ base \in 0..Len(file)
         /\ got \in 0..Len(accepted)
         /\ Len(accepted) \in Nat
         /\ \A i \in 1..Len(file) : file[i] \in Pieces /\ file[i].msg \in Nat
<1>1. file \in Seq(Pieces) /\ accepted \in Seq(Nat)
  BY DEF IInv, TypeOK
<1>2. \A i \in 1..Len(file) : file[i] \in Pieces
  BY <1>1
<1>3. QED
  BY <1>1, <1>2, PieceType DEF IInv, TypeOK

(* The piece the writer is about to write has a message of its own, newer  *)
(* than everything in the file.                                            *)
LEMMA NextPiece ==
  ASSUME IInv, HasMessage, NEW end \in Ends
  PROVE  /\ Piece(end) \in Pieces
         /\ Piece(end).msg = accepted[got + 1]
         /\ Piece(end).end = end
         /\ got + 1 \in 1..Len(accepted)
         /\ accepted[got + 1] <= consumed
         /\ \A i \in 1..Len(file) : file[i].msg < accepted[got + 1]
<1>1. /\ got + 1 \in 1..Len(accepted)
      /\ accepted[got + 1] \in Nat
      /\ Len(file) - base <= got
      /\ base \in 0..Len(file)
      /\ Len(file) \in Nat
      /\ got \in Nat
  BY DEF IInv, TypeOK, HasMessage, WriterInv
<1>2. ASSUME NEW i \in 1..Len(file)
      PROVE  file[i].msg < accepted[got + 1]
  <2>1. CASE i <= base
    BY <1>1, <1>2, <2>1 DEF IInv, OrderInv
  <2>2. CASE i > base
    <3>1. i - base \in 1..(Len(file) - base) /\ base + (i - base) = i
      BY <1>1, <1>2, <2>2
    <3>2. file[i].msg = accepted[i - base]
      BY <3>1 DEF IInv, RecordedInOrder
    <3>3. i - base \in 1..Len(accepted) /\ i - base < got + 1
      BY <1>1, <1>2, <2>2
    <3>4. QED
      BY <1>1, <3>2, <3>3 DEF IInv, OrderInv
  <2>3. QED
    BY <1>1, <1>2, <2>1, <2>2
<1>3. QED
  BY <1>1, <1>2 DEF IInv, OrderInv, Piece, Pieces

(* The file with that piece. *)
Longer(end) == Append(file, Piece(end))

LEMMA FileWithPiece ==
  ASSUME IInv, HasMessage, NEW end \in Ends
  PROVE  /\ Longer(end) \in Seq(Pieces)
         /\ Len(Longer(end)) = Len(file) + 1
         /\ Len(Longer(end)) - base = got + 1
         /\ \A i \in 1..Len(file) : Longer(end)[i] = file[i]
         /\ Longer(end)[Len(Longer(end))].end = end
         /\ \A k \in 1..(Len(Longer(end)) - base) : Longer(end)[base + k].msg = accepted[k]
         /\ \A i, j \in 1..Len(Longer(end)) : i < j => Longer(end)[i].msg < Longer(end)[j].msg
         /\ \A i \in 1..Len(Longer(end)) : Longer(end)[i].msg <= consumed
<1>1. /\ Piece(end) \in Pieces
      /\ Piece(end).msg = accepted[got + 1]
      /\ Piece(end).end = end
      /\ accepted[got + 1] <= consumed
      /\ \A i \in 1..Len(file) : file[i].msg < accepted[got + 1]
  BY NextPiece
<1>2. /\ file \in Seq(Pieces)
      /\ Len(file) \in Nat
      /\ base \in 0..Len(file)
      /\ got \in Nat
      /\ Len(file) - base = got
  BY FileType DEF IInv, TypeOK, WriterInv, HasMessage
<1>3. /\ Longer(end) \in Seq(Pieces)
      /\ Len(Longer(end)) = Len(file) + 1
      /\ \A i \in 1..Len(file) : Longer(end)[i] = file[i]
      /\ Longer(end)[Len(Longer(end))] = Piece(end)
  BY <1>1, <1>2, AppendFacts DEF Longer
<1>4. Len(Longer(end)) - base = got + 1
  BY <1>2, <1>3
<1>5. ASSUME NEW k \in 1..(Len(Longer(end)) - base)
      PROVE  Longer(end)[base + k].msg = accepted[k]
  <2>1. CASE k = got + 1
    <3>1. base + k = Len(Longer(end))
      BY <1>2, <1>3, <2>1
    <3>2. QED
      BY <1>1, <1>3, <2>1, <3>1
  <2>2. CASE k # got + 1
    <3>1. k \in 1..(Len(file) - base) /\ base + k \in 1..Len(file)
      BY <1>2, <1>4, <1>5, <2>2
    <3>2. QED
      BY <1>3, <3>1 DEF IInv, RecordedInOrder
  <2>3. QED
    BY <2>1, <2>2
<1>6. ASSUME NEW i \in 1..Len(Longer(end)), NEW j \in 1..Len(Longer(end)), i < j
      PROVE  Longer(end)[i].msg < Longer(end)[j].msg
  <2>1. i \in 1..Len(file)
    BY <1>2, <1>3, <1>6
  <2>2. CASE j = Len(Longer(end))
    BY <1>1, <1>3, <2>1, <2>2
  <2>3. CASE j # Len(Longer(end))
    <3>1. j \in 1..Len(file)
      BY <1>2, <1>3, <1>6, <2>3
    <3>2. QED
      BY <1>3, <1>6, <2>1, <3>1 DEF IInv, RecordedInOrder
  <2>4. QED
    BY <2>2, <2>3
<1>7. ASSUME NEW i \in 1..Len(Longer(end))
      PROVE  Longer(end)[i].msg <= consumed
  <2>1. CASE i = Len(Longer(end))
    BY <1>1, <1>3, <2>1
  <2>2. CASE i # Len(Longer(end))
    <3>1. i \in 1..Len(file)
      BY <1>2, <1>3, <1>7, <2>2
    <3>2. QED
      BY <1>3, <3>1 DEF IInv, OrderInv
  <2>3. QED
    BY <2>1, <2>2
<1>8. QED
  BY <1>1, <1>3, <1>4, <1>5, <1>6, <1>7

LEMMA Initially == Init => IInv
<1> SUFFICES ASSUME Init PROVE IInv
  OBVIOUS
<1>1. accepted \in Seq(Nat) /\ file \in Seq(Pieces) /\ Len(accepted) = 0 /\ Len(file) = 0
  BY DEF Init
<1>2. TypeOK
  <2>1. 1 \in 1..MaxRuns /\ 0 \in 0..MaxMessages /\ 0 \in 0..0
    BY ConstantsAssumption
  <2>2. QED
    BY <1>1, <2>1 DEF Init, TypeOK
<1>3. RecordedInOrder /\ OrderInv /\ WriterInv
  BY <1>1 DEF Init, RecordedInOrder, OrderInv, WriterInv
<1>4. QED
  BY <1>2, <1>3 DEF IInv

(* Steps that leave the file and what was accepted and taken alone. *)
LEMMA QuietStep ==
  ASSUME IInv, UNCHANGED <<accepted, got, file, base>>,
         consumed' >= consumed, consumed' \in Nat, TypeOK',
         task' # "failed" => task # "failed",
         task' = "none" => task = "none" /\ (sentinel' => sentinel),
         task' = "finished" =>
           got = Len(accepted) /\ sentinel',
         sentinel' => closed'
  PROVE  IInv'
<1>1. consumed \in Nat
  BY DEF IInv, TypeOK
<1>2. RecordedInOrder'
  BY DEF IInv, RecordedInOrder
<1>3. OrderInv'
  <2>1. \A k \in 1..Len(accepted) : accepted[k] \in Nat
    BY DEF IInv, TypeOK
  <2>2. \A i \in 1..Len(file) : file[i].msg \in Nat
    BY FileType
  <2>3. QED
    BY <1>1, <2>1, <2>2 DEF IInv, OrderInv
<1>4. WriterInv'
  BY DEF IInv, WriterInv
<1>5. QED
  BY <1>2, <1>3, <1>4 DEF IInv

LEMMA TakeMessageStep == IInv /\ TakeMessage => IInv'
<1> SUFFICES ASSUME IInv, TakeMessage PROVE IInv'
  OBVIOUS
<1>1. /\ accepted \in Seq(Nat)
      /\ Len(accepted) \in Nat
      /\ got \in 0..Len(accepted)
      /\ consumed \in Nat
      /\ consumed' = consumed + 1
      /\ produced \in Nat
      /\ consumed' \in 0..produced'
      /\ UNCHANGED <<got, file, base, sentinel, closed>>
      /\ ~closed
  BY ConstantsAssumption
  DEF IInv, TypeOK, TakeMessage, innerVars, runVars
<1>2. CASE ~enabled
  <2>1. UNCHANGED <<accepted, task>>
    BY <1>2 DEF TakeMessage, AppendMessage
  <2>2. TypeOK'
    BY <1>1, <2>1 DEF IInv, TypeOK, TakeMessage, innerVars, runVars, closeVars
  <2>3. QED
    BY <1>1, <2>1, <2>2, QuietStep DEF IInv, WriterInv
<1>3. CASE enabled
  <2>1. /\ accepted' = Append(accepted, consumed + 1)
        /\ task' = IF task = "none" THEN "created" ELSE task
    BY <1>1, <1>3 DEF TakeMessage, AppendMessage
  <2>2. /\ accepted' \in Seq(Nat)
        /\ Len(accepted') = Len(accepted) + 1
        /\ \A k \in 1..Len(accepted) : accepted'[k] = accepted[k]
        /\ accepted'[Len(accepted) + 1] = consumed + 1
    BY <1>1, <2>1, AppendFacts
  <2>3. TypeOK'
    BY <1>1, <2>1, <2>2
    DEF IInv, TypeOK, TakeMessage, innerVars, runVars, closeVars
  <2>4. RecordedInOrder'
    <3>1. Len(file) - base <= Len(accepted) /\ Len(file) \in Nat /\ base \in Nat
      BY FileType DEF IInv, RecordedInOrder
    <3>2. \A k \in 1..(Len(file) - base) : k \in 1..Len(accepted)
      BY <1>1, <3>1
    <3>3. \A k \in 1..(Len(file) - base) : file[base + k].msg = accepted'[k]
      BY <2>2, <3>2 DEF IInv, RecordedInOrder
    <3>4. Len(file) - base <= Len(accepted')
      BY <1>1, <2>2, <3>1
    <3>5. QED
      BY <1>1, <3>3, <3>4 DEF IInv, RecordedInOrder
  <2>5. OrderInv'
    <3>1. ASSUME NEW i \in 1..Len(accepted'), NEW j \in 1..Len(accepted'), i < j
          PROVE  accepted'[i] < accepted'[j]
      <4>0. Len(accepted) \in Nat /\ i \in 1..Len(accepted)
        BY <1>1, <2>2, <3>1
      <4>1. i \in 1..Len(accepted) /\ accepted[i] <= consumed /\ accepted[i] \in Nat
        BY <1>1, <4>0 DEF IInv, OrderInv
      <4>2. CASE j = Len(accepted) + 1
        BY <1>1, <2>2, <4>1, <4>2
      <4>3. CASE j # Len(accepted) + 1
        <5>1. j \in 1..Len(accepted)
          <6>1. Len(accepted) \in Nat /\ Len(accepted') = Len(accepted) + 1
            BY <1>1, <2>2
          <6>2. QED
            BY <3>1, <4>3, <6>1
        <5>2. QED
          BY <2>2, <3>1, <4>1, <5>1 DEF IInv, OrderInv
      <4>4. QED
        BY <4>2, <4>3
    <3>2. ASSUME NEW k \in 1..Len(accepted')
          PROVE  accepted'[k] <= consumed'
      <4>1. CASE k = Len(accepted) + 1
        BY <1>1, <2>2, <4>1
      <4>2. CASE k # Len(accepted) + 1
        <5>1. k \in 1..Len(accepted) /\ accepted[k] \in Nat
          BY <1>1, <2>2, <3>2, <4>2
        <5>2. QED
          BY <1>1, <2>2, <5>1 DEF IInv, OrderInv
      <4>3. QED
        BY <4>1, <4>2
    <3>3. \A i \in 1..Len(file) : file[i].msg \in Nat /\ file[i].msg <= consumed
      BY FileType DEF IInv, OrderInv
    <3>4. base \in 0..Len(file) /\ Len(file) \in Nat
      BY DEF IInv, TypeOK
    <3>5. ASSUME NEW i \in 1..base, NEW k \in 1..Len(accepted')
          PROVE  file[i].msg < accepted'[k]
      <4>1. i \in 1..Len(file)
        BY <3>4
      <4>2. CASE k = Len(accepted) + 1
        BY <1>1, <2>2, <3>3, <4>1, <4>2
      <4>3. CASE k # Len(accepted) + 1
        <5>1. k \in 1..Len(accepted)
          BY <1>1, <2>2, <3>5, <4>3
        <5>2. QED
          BY <2>2, <5>1 DEF IInv, OrderInv
      <4>4. QED
        BY <4>2, <4>3
    <3>6. QED
      BY <1>1, <3>1, <3>2, <3>3, <3>5 DEF OrderInv
  <2>6. WriterInv'
    BY <1>1, <2>1, <2>2 DEF IInv, WriterInv
  <2>7. QED
    BY <2>3, <2>4, <2>5, <2>6 DEF IInv
<1>4. QED
  BY <1>2, <1>3

LEMMA WriterWritesStep == IInv /\ WriterWrites => IInv'
<1> SUFFICES ASSUME IInv, WriterWrites PROVE IInv'
  OBVIOUS
<1>1. /\ HasMessage
      /\ task # "failed"
      /\ got' = got + 1
      /\ file' = Append(file, Piece("line"))
      /\ task' \in {"waiting", "draining"}
      /\ UNCHANGED <<accepted, consumed, base, sentinel, closed>>
  BY DEF WriterWrites, HasMessage, NextState, queueVars, consumerVars, runVars
<1>2. "line" \in Ends
  BY DEF Ends
<1>3. /\ file' \in Seq(Pieces)
      /\ Len(file') = Len(file) + 1
      /\ Len(file') - base = got + 1
      /\ \A i \in 1..Len(file) : file'[i] = file[i]
      /\ file'[Len(file')].end = "line"
      /\ \A k \in 1..(Len(file') - base) : file'[base + k].msg = accepted[k]
      /\ \A i, j \in 1..Len(file') : i < j => file'[i].msg < file'[j].msg
      /\ \A i \in 1..Len(file') : file'[i].msg <= consumed
  BY <1>1, <1>2, FileWithPiece DEF Longer
<1>4. /\ got + 1 \in 1..Len(accepted)
      /\ got \in Nat
      /\ Len(accepted) \in Nat
      /\ Len(file) \in Nat
      /\ base \in 0..Len(file)
  BY <1>1, <1>2, NextPiece DEF IInv, TypeOK
<1>5. TypeOK'
  BY <1>1, <1>3, <1>4
  DEF IInv, TypeOK, WriterWrites, innerVars, consumerVars, queueVars, closeVars,
      runVars
<1>6. RecordedInOrder'
  BY <1>1, <1>3, <1>4 DEF RecordedInOrder
<1>7. OrderInv'
  BY <1>1, <1>3, <1>4 DEF IInv, OrderInv
<1>8. WriterInv'
  <2>1. ASSUME NEW k \in 1..got'
        PROVE  file'[base + k].end = "line"
    <3>1. CASE k = got'
      BY <1>1, <1>3, <1>4, <3>1
    <3>2. CASE k # got'
      <4>1. k \in 1..got /\ base + k \in 1..Len(file)
        BY <1>1, <1>3, <1>4, <2>1, <3>2
      <4>2. QED
        BY <1>1, <1>3, <4>1 DEF IInv, WriterInv
    <3>3. QED
      BY <3>1, <3>2
  <2>2. Len(file') - base' <= got' /\ Len(file') - base' = got'
    BY <1>1, <1>3, <1>4
  <2>3. sentinel' => closed'
    BY <1>1 DEF IInv, WriterInv
  <2>4. task' # "none" /\ task' # "finished"
    BY <1>1
  <2>5. \A k \in 1..got' : file'[base' + k].end = "line"
    BY <1>1, <2>1
  <2>6. QED
    BY <2>2, <2>3, <2>4, <2>5 DEF WriterInv
<1>9. QED
  BY <1>5, <1>6, <1>7, <1>8 DEF IInv

LEMMA WriterFailsStep == IInv /\ WriterFails => IInv'
<1> SUFFICES ASSUME IInv, WriterFails PROVE IInv'
  OBVIOUS
<1>1. /\ HasMessage
      /\ task # "failed"
      /\ got' = got + 1
      /\ task' = "failed"
      /\ UNCHANGED <<accepted, consumed, base, sentinel, closed>>
  BY DEF WriterFails, HasMessage, queueVars, consumerVars, runVars
<1>2. /\ got + 1 \in 1..Len(accepted)
      /\ got \in Nat
      /\ Len(accepted) \in Nat
      /\ Len(file) \in Nat
      /\ base \in 0..Len(file)
      /\ Len(file) - base = got
  BY <1>1, NextPiece DEF IInv, TypeOK, WriterInv, Ends
<1>3. /\ file' \in Seq(Pieces)
      /\ Len(file') \in {Len(file), Len(file) + 1}
      /\ \A i \in 1..Len(file) : file'[i] = file[i]
      /\ \A k \in 1..(Len(file') - base) : file'[base + k].msg = accepted[k]
      /\ \A i, j \in 1..Len(file') : i < j => file'[i].msg < file'[j].msg
      /\ \A i \in 1..Len(file') : file'[i].msg <= consumed
  <2>1. CASE file' = file
    BY <2>1 DEF IInv, TypeOK, RecordedInOrder, OrderInv
  <2>2. CASE \E end \in Ends : file' = Append(file, Piece(end))
    <3>1. PICK end \in Ends : file' = Append(file, Piece(end))
      BY <2>2
    <3>2. QED
      BY <1>1, <3>1, FileWithPiece DEF Longer
  <2>3. QED
    BY <2>1, <2>2 DEF WriterFails
<1>4. TypeOK'
  BY <1>1, <1>2, <1>3
  DEF IInv, TypeOK, WriterFails, innerVars, consumerVars, queueVars, closeVars,
      runVars
<1>5. RecordedInOrder'
  BY <1>1, <1>2, <1>3 DEF RecordedInOrder
<1>6. OrderInv'
  BY <1>1, <1>2, <1>3 DEF IInv, OrderInv
<1>7. WriterInv'
  BY <1>1, <1>2, <1>3 DEF IInv, WriterInv
<1>8. QED
  BY <1>4, <1>5, <1>6, <1>7 DEF IInv

LEMMA CrashStep == IInv /\ Crash => IInv'
<1> SUFFICES ASSUME IInv, Crash PROVE IInv'
  OBVIOUS
<1>1. /\ accepted' = <<>>
      /\ got' = 0
      /\ base' = Len(file')
      /\ consumed' = produced
      /\ consumed <= produced
      /\ consumed \in Nat
      /\ produced \in Nat
      /\ produced' = produced
      /\ task' = "none"
      /\ sentinel' = FALSE
      /\ closed' = FALSE
  BY DEF IInv, TypeOK, Crash
<1>2. /\ file' \in Seq(Pieces)
      /\ Len(file') \in Nat
      /\ \A i, j \in 1..Len(file') : i < j => file'[i].msg < file'[j].msg
      /\ \A i \in 1..Len(file') : file'[i].msg <= consumed
  <2>1. CASE file' = file
    BY <2>1 DEF IInv, TypeOK, RecordedInOrder, OrderInv
  <2>2. CASE HasMessage /\ \E end \in Ends : file' = Append(file, Piece(end))
    <3>1. PICK end \in Ends : file' = Append(file, Piece(end))
      BY <2>2
    <3>2. task # "failed"
      BY <2>2 DEF HasMessage
    <3>3. QED
      BY <2>2, <3>1, <3>2, FileWithPiece DEF Longer
  <2>3. QED
    BY <2>1, <2>2 DEF Crash
<1>3. TypeOK'
  <2>1. runs' \in 1..MaxRuns
    BY ConstantsAssumption DEF IInv, TypeOK, Crash
  <2>2. /\ consumed' \in 0..produced'
        /\ produced' \in 0..MaxMessages
        /\ accepted' \in Seq(Nat)
        /\ got' \in 0..Len(accepted')
        /\ base' \in 0..Len(file')
    BY <1>1, <1>2 DEF IInv, TypeOK
  <2>3. QED
    BY <1>2, <2>1, <2>2 DEF TypeOK, Crash
<1>4. RecordedInOrder'
  BY <1>1, <1>2 DEF RecordedInOrder
<1>5. OrderInv'
  <2>1. \A i \in 1..Len(file') : file'[i].msg \in Nat
    <3>1. \A i \in 1..Len(file') : file'[i] \in Pieces
      BY <1>2
    <3>2. QED
      BY <3>1, PieceType
  <2>2. QED
    BY <1>1, <1>2, <2>1 DEF OrderInv
<1>6. WriterInv'
  BY <1>1, <1>2 DEF WriterInv
<1>7. QED
  BY <1>3, <1>4, <1>5, <1>6 DEF IInv

(* The invariant is inductive: one step per action. *)
LEMMA Inductive == IInv /\ [Next]_vars => IInv'
<1> SUFFICES ASSUME IInv, [Next]_vars PROVE IInv'
  OBVIOUS
<1> USE DEF innerVars, consumerVars, queueVars, writerVars, closeVars, runVars
<1>1. CASE TakeMessage
  BY <1>1, TakeMessageStep
<1>2. CASE WriterWrites
  BY <1>2, WriterWritesStep
<1>3. CASE WriterFails
  BY <1>3, WriterFailsStep
<1>4. CASE Crash
  BY <1>4, CrashStep
<1>5. CASE \/ Inner \/ TakeMessageTooLate \/ TakeEnd \/ ConsumerContinues
           \/ SetEnabled \/ Close \/ Closing \/ CloseCancelled
           \/ WriterStarts \/ WriterStops \/ UNCHANGED vars
  <2>1. /\ UNCHANGED <<accepted, got, file, base>>
        /\ consumed' \in {consumed, consumed + 1}
        /\ consumed \in Nat
    BY <1>5 DEF IInv, TypeOK, Inner, Produce, InnerExhausts, TakeMessageTooLate,
       TakeEnd, ConsumerContinues, SetEnabled, Close, CloseRecorder, Closing,
       InnerCloses, InnerCloseFails, CloseJoins, CloseCancelled, WriterStarts,
       WriterStops, vars
  <2>2. TypeOK'
    <3>1. CASE Produce
      <4>1. produced' \in 0..MaxMessages /\ consumed' \in 0..produced'
        BY <3>1, ConstantsAssumption DEF IInv, TypeOK, Produce
      <4>2. QED
        BY <2>1, <3>1, <4>1 DEF IInv, TypeOK, Produce
    <3>2. CASE TakeMessageTooLate
      <4>1. consumed' \in 0..produced'
        BY <3>2, ConstantsAssumption DEF IInv, TypeOK, TakeMessageTooLate
      <4>2. consumer' = "error" /\ UNCHANGED <<runVars, innerVars, queueVars,
                                               writerVars, closeVars>>
        BY <3>2 DEF TakeMessageTooLate
      <4>3. /\ produced' \in 0..MaxMessages
            /\ got' \in 0..Len(accepted')
            /\ base' \in 0..Len(file')
            /\ runs' \in 1..MaxRuns
        BY <4>2 DEF IInv, TypeOK
      <4>4. QED
        BY <4>1, <4>2, <4>3 DEF IInv, TypeOK
    <3>3. CASE \/ InnerExhausts \/ TakeEnd \/ ConsumerContinues \/ SetEnabled
               \/ UNCHANGED vars
      <4>1. /\ UNCHANGED <<runVars, closeVars, closed, sentinel, accepted,
                            writerVars, produced, consumed>>
            /\ enabled' \in {enabled, ~enabled}
            /\ inner' \in {inner, "exhausted"}
            /\ ended' \in {ended, TRUE}
            /\ consumer' \in {consumer, "ended", "waiting"}
        BY <3>3 DEF InnerExhausts, TakeEnd, ConsumerContinues, SetEnabled, vars
      <4>2. /\ enabled' \in BOOLEAN
            /\ ended' \in BOOLEAN
            /\ closed' \in BOOLEAN
            /\ sentinel' \in BOOLEAN
        <5>1. enabled \in BOOLEAN /\ (~enabled) \in BOOLEAN
          BY DEF IInv, TypeOK
        <5>2. enabled' \in BOOLEAN
          BY <4>1, <5>1, Zenon
        <5>3. QED
          BY <4>1, <5>2 DEF IInv, TypeOK
      <4>3. /\ produced' \in 0..MaxMessages
            /\ consumed' \in 0..produced'
            /\ got' \in 0..Len(accepted')
            /\ base' \in 0..Len(file')
            /\ runs' \in 1..MaxRuns
        BY <4>1 DEF IInv, TypeOK
      <4>4. accepted' \in Seq(Nat) /\ file' \in Seq(Pieces)
        BY <4>1 DEF IInv, TypeOK
      <4>5. QED
        BY <4>1, <4>2, <4>3, <4>4 DEF IInv, TypeOK
    <3>4. CASE Close \/ Closing \/ CloseCancelled
      BY ZenonT(60), <2>1, <3>4 DEF IInv, TypeOK, Close, CloseRecorder, Closing, InnerCloses,
         InnerCloseFails, CloseJoins, CloseCancelled
    <3>5. CASE WriterStarts \/ WriterStops
      BY <2>1, <3>5 DEF IInv, TypeOK, WriterStarts, WriterStops, NextState
    <3>6. QED
      BY <1>5, <3>1, <3>2, <3>3, <3>4, <3>5 DEF Inner
  <2>3. /\ task' # "failed" => task # "failed"
        /\ task' = "none" => task = "none" /\ (sentinel' => sentinel)
        /\ task' = "finished" => got = Len(accepted) /\ sentinel'
        /\ sentinel' => closed'
    <3>1. CASE Inner \/ TakeMessageTooLate \/ TakeEnd \/ ConsumerContinues
               \/ SetEnabled \/ UNCHANGED vars
      BY <3>1 DEF IInv, WriterInv, Inner, Produce, InnerExhausts,
         TakeMessageTooLate, TakeEnd, ConsumerContinues, SetEnabled, vars
    <3>2. CASE Close \/ Closing \/ CloseCancelled
      BY <3>2 DEF IInv, WriterInv, Close, CloseRecorder, Closing, InnerCloses,
         InnerCloseFails, CloseJoins, CloseCancelled
    <3>3. CASE WriterStarts \/ WriterStops
      BY <3>3 DEF IInv, WriterInv, WriterStarts, WriterStops, NextState
    <3>4. QED
      BY <1>5, <3>1, <3>2, <3>3
  <2>4. consumed' >= consumed /\ consumed' \in Nat
    BY <2>1
  <2>5. QED
    BY <2>1, <2>2, <2>3, <2>4, QuietStep
<1>6. QED
  BY <1>1, <1>2, <1>3, <1>4, <1>5 DEF Next, Consumer, Writer

(* The inductive invariant holds in every reachable state. *)
THEOREM Invariant == Spec => []IInv
  BY Initially, Inductive, PTL DEF Spec

(* Type correctness of the recorder. *)
THEOREM TypeCorrect == Spec => []TypeOK
<1>1. IInv => TypeOK
  BY DEF IInv
<1>2. QED
  BY <1>1, Invariant, PTL

(* The file holds what was accepted, in order and once, over any number of *)
(* runs and crashes.                                                       *)
THEOREM InOrder == Spec => []RecordedInOrder
<1>1. IInv => RecordedInOrder
  BY DEF IInv
<1>2. QED
  BY <1>1, Invariant, PTL

LEMMA FlushedWhenFinished == IInv => FinishedMeansFlushed
<1> SUFFICES ASSUME IInv, task = "finished", NEW k \in 1..Len(accepted)
             PROVE  /\ base + k <= Len(file)
                    /\ file[base + k] = [msg |-> accepted[k], end |-> "line"]
  BY DEF FinishedMeansFlushed, AllWritten
<1>1. /\ Len(file) - base = Len(accepted)
      /\ Len(file) \in Nat
      /\ base \in 0..Len(file)
      /\ file[base + k].msg = accepted[k]
      /\ file[base + k].end = "line"
  <2>1. Len(file) - base = got /\ got = Len(accepted)
    BY DEF IInv, WriterInv
  <2>2. k \in 1..got /\ k \in 1..(Len(file) - base)
    BY <2>1
  <2>3. file[base + k].msg = accepted[k]
    BY <2>2 DEF IInv, RecordedInOrder
  <2>4. file[base + k].end = "line"
    BY <2>2 DEF IInv, WriterInv
  <2>5. QED
    BY <2>1, <2>3, <2>4, FileType
<1>2. base + k \in 1..Len(file)
  BY <1>1
<1>3. file[base + k] \in Pieces
  BY <1>2 DEF IInv, TypeOK
<1>4. QED
  BY <1>1, <1>2, <1>3 DEF Pieces

(* A writer that ran to its end has written all that was accepted. *)
THEOREM Flushed == Spec => []FinishedMeansFlushed
  BY FlushedWhenFinished, Invariant, PTL

(* No step changes or removes what is in the file. *)
THEOREM GrowsOnly == Spec => FileOnlyGrows
<1>1. IInv /\ [Next]_vars =>
        [ /\ Len(file) <= Len(file')
          /\ \A i \in 1..Len(file) : file'[i] = file[i] ]_vars
  <2> SUFFICES ASSUME IInv, Next
               PROVE  /\ Len(file) <= Len(file')
                      /\ \A i \in 1..Len(file) : file'[i] = file[i]
    OBVIOUS
  <2>1. file \in Seq(Pieces) /\ Len(file) \in Nat
    BY DEF IInv, TypeOK
  <2>2. \/ file' = file
        \/ HasMessage /\ \E end \in Ends : file' = Append(file, Piece(end))
    BY DEF Next, Inner, Produce, InnerExhausts, Consumer, TakeMessage,
       TakeMessageTooLate, TakeEnd, ConsumerContinues, SetEnabled, Writer,
       WriterStarts, WriterWrites, WriterFails, WriterStops, Close, Closing,
       InnerCloses, InnerCloseFails, CloseJoins, CloseCancelled, Crash,
       writerVars, Ends
  <2>3. CASE file' = file
    BY <2>1, <2>3
  <2>4. CASE HasMessage /\ \E end \in Ends : file' = Append(file, Piece(end))
    <3>1. PICK end \in Ends : file' = Append(file, Piece(end))
      BY <2>4
    <3>2. QED
      BY <2>1, <2>4, <3>1, NextPiece, AppendFacts
  <2>5. QED
    BY <2>2, <2>3, <2>4
<1>2. QED
  BY <1>1, Invariant, PTL DEF Spec, FileOnlyGrows

(* How close() goes from the inner transport to the recorder.              *)
LEMMA CloseInvariant == Spec => []CloseInv
<1>1. Init => CloseInv
  BY DEF Init, CloseInv
<1>2. TypeOK /\ CloseInv /\ [Next]_vars => CloseInv'
  <2> SUFFICES ASSUME TypeOK, CloseInv, [Next]_vars PROVE CloseInv'
    OBVIOUS
  <2>0. inner \in {"open", "exhausted", "closing", "closed", "broken"}
    BY DEF TypeOK
  <2> USE DEF CloseInv, innerVars, consumerVars, queueVars, writerVars,
              closeVars, runVars
  <2>1. CASE Close \/ Closing \/ CloseCancelled
    BY <2>0, <2>1 DEF Close, CloseRecorder, Closing, InnerCloses,
       InnerCloseFails, CloseJoins, CloseCancelled
  <2>2. CASE Crash
    BY <2>2 DEF Crash
  <2>3. CASE Inner \/ Consumer \/ SetEnabled \/ Writer \/ UNCHANGED vars
    BY <2>3 DEF Inner, Produce, InnerExhausts, Consumer, TakeMessage,
       TakeMessageTooLate, TakeEnd, ConsumerContinues, SetEnabled, Writer,
       WriterStarts, WriterWrites, WriterFails, WriterStops, vars
  <2>4. QED
    BY <2>1, <2>2, <2>3 DEF Next
<1>3. QED
  BY <1>1, <1>2, TypeCorrect, PTL DEF Spec

(* A close() that waited and came back without an exception has flushed.   *)
THEOREM CloseTells == Spec => CloseReports
<1>1. IInv' /\ FinishedMeansFlushed' /\ CloseInv /\ [Next]_vars =>
        [ closer # "none" /\ closer' = "none" /\ result' = "ok"
            => AllWritten' ]_vars
  <2> SUFFICES ASSUME IInv', FinishedMeansFlushed', CloseInv, Next,
                      closer # "none", closer' = "none", result' = "ok"
               PROVE  AllWritten'
    OBVIOUS
  <2>1. \/ task' = "none"
        \/ task' = "finished"
    BY DEF CloseInv, Next, Inner, Produce, InnerExhausts, Consumer, TakeMessage,
       TakeMessageTooLate, TakeEnd, ConsumerContinues, SetEnabled, Writer,
       WriterStarts, WriterWrites, WriterFails, WriterStops, Close, Closing,
       CloseRecorder, InnerCloses, InnerCloseFails, CloseJoins, CloseCancelled,
       Crash, closeVars, writerVars
  <2>2. CASE task' = "none"
    <3>1. accepted' = <<>>
      BY <2>2 DEF IInv, WriterInv
    <3>2. QED
      BY <3>1 DEF AllWritten
  <2>3. CASE task' = "finished"
    BY <2>3 DEF FinishedMeansFlushed
  <2>4. QED
    BY <2>1, <2>2, <2>3
<1>2. QED
  BY <1>1, Invariant, Flushed, CloseInvariant, PTL DEF Spec, CloseReports

-----------------------------------------------------------------------------
(* What an interrupted run costs. *)

LEMMA BrokenFinite == IInv => IsFiniteSet(BrokenBefore)
<1>1. ASSUME IInv PROVE IsFiniteSet(BrokenBefore)
  <2>1. base \in Int
    BY <1>1, FileType
  <2>2. IsFiniteSet(1..base)
    BY <2>1, FS_Interval
  <2>3. BrokenBefore \in SUBSET (1..base)
    BY DEF BrokenBefore
  <2>4. QED
    BY <2>2, <2>3, FS_Subset
<1>2. QED
  BY <1>1

(* The piece a run leaves behind when it dies, if it is not a whole line,  *)
(* is the last one.                                                        *)
LEMMA CrashBreaksOne ==
  ASSUME IInv, BrokenInv, Crash
  PROVE  BrokenBefore' \subseteq BrokenBefore \cup {Len(file')}
<1>1. /\ Len(file) \in Nat /\ base \in 0..Len(file)
      /\ base' = Len(file')
  BY FileType DEF Crash
<1>2. CASE file' = file
  BY <1>1, <1>2 DEF BrokenBefore, BrokenInv
<1>3. CASE HasMessage /\ \E end \in Ends : file' = Append(file, Piece(end))
  <2>1. PICK end \in Ends : file' = Longer(end)
    BY <1>3 DEF Longer
  <2>2. /\ Len(file') = Len(file) + 1
        /\ \A i \in 1..Len(file) : file'[i] = file[i]
    BY <1>3, <2>1, FileWithPiece
  <2>3. task # "failed"
    BY <1>3 DEF HasMessage
  <2>4. QED
    BY <1>1, <2>2, <2>3 DEF BrokenBefore, BrokenInv
<1>4. QED
  BY <1>2, <1>3 DEF Crash

LEMMA BrokenStep ==
  ASSUME IInv, BrokenInv, [Next]_vars
  PROVE  BrokenInv'
<1> USE DEF innerVars, consumerVars, queueVars, writerVars, closeVars, runVars
<1>1. /\ Len(file) \in Nat /\ base \in 0..Len(file)
      /\ runs \in Nat
  BY FileType, ConstantsAssumption DEF IInv, TypeOK
<1>2. CASE Crash
  <2>1. /\ IsFiniteSet(BrokenBefore \cup {Len(file')})
        /\ Cardinality(BrokenBefore \cup {Len(file')}) <= Cardinality(BrokenBefore) + 1
        /\ Cardinality(BrokenBefore) \in Nat
        /\ Cardinality(BrokenBefore \cup {Len(file')}) \in Nat
    BY BrokenFinite, FS_AddElement, FS_CardinalityType
  <2>2. /\ IsFiniteSet(BrokenBefore')
        /\ Cardinality(BrokenBefore') <= Cardinality(BrokenBefore \cup {Len(file')})
    BY <1>2, <2>1, CrashBreaksOne, FS_Subset
  <2>3. Cardinality(BrokenBefore') \in Nat
    BY <2>2, FS_CardinalityType
  <2>4. Cardinality(BrokenBefore') <= runs' - 1
    BY <1>1, <1>2, <2>1, <2>2, <2>3 DEF BrokenInv, Crash
  <2>5. base' = Len(file')
    BY <1>2 DEF Crash
  <2>6. QED
    BY <2>4, <2>5 DEF BrokenInv
<1>3. CASE WriterWrites \/ WriterFails
  <2>1. /\ HasMessage /\ task # "failed"
        /\ runs' = runs /\ base' = base
    BY <1>3 DEF WriterWrites, WriterFails, HasMessage
  <2>2. \/ file' = file
        \/ \E end \in Ends : file' = Longer(end) /\ (end # "line" => task' = "failed")
    BY <1>3 DEF WriterWrites, WriterFails, Longer, Ends
  <2>3. /\ Len(file') \in {Len(file), Len(file) + 1}
        /\ \A i \in 1..Len(file) : file'[i] = file[i]
        /\ Len(file') = Len(file) + 1 /\ file'[Len(file')].end # "line"
             => task' = "failed"
    <3>1. CASE file' = file
      BY <1>1, <3>1
    <3>2. CASE \E end \in Ends : file' = Longer(end) /\ (end # "line" => task' = "failed")
      BY <2>1, <3>2, FileWithPiece
    <3>3. QED
      BY <2>2, <3>1, <3>2
  <2>4. \A i \in 1..Len(file') :
          i > base' /\ file'[i].end # "line" => i = Len(file') /\ task' = "failed"
    BY <1>1, <2>1, <2>3 DEF BrokenInv
  <2>5. BrokenBefore' = BrokenBefore
    BY <1>1, <2>1, <2>3 DEF BrokenBefore
  <2>6. QED
    BY <2>1, <2>4, <2>5 DEF BrokenInv
<1>4. CASE \/ Inner \/ Consumer \/ SetEnabled \/ Close \/ Closing
           \/ CloseCancelled \/ WriterStarts \/ WriterStops
           \/ UNCHANGED vars
  <2>1. UNCHANGED <<runs, base, file>>
    BY <1>4 DEF Inner, Produce, InnerExhausts, Consumer, TakeMessage,
       TakeMessageTooLate, TakeEnd, ConsumerContinues, SetEnabled, Close,
       Closing, InnerCloses, InnerCloseFails, CloseJoins, CloseCancelled,
       WriterStarts, WriterStops, vars
  <2>2. task = "failed" => task' = "failed"
    BY <1>4 DEF Inner, Produce, InnerExhausts, Consumer, TakeMessage,
       TakeMessageTooLate, TakeEnd, ConsumerContinues, AppendMessage, SetEnabled,
       Close, Closing, InnerCloses, InnerCloseFails, CloseJoins,
       CloseCancelled, WriterStarts, WriterStops, vars
  <2>3. QED
    BY <2>1, <2>2 DEF BrokenInv, BrokenBefore
<1>5. QED
  BY <1>2, <1>3, <1>4 DEF Next, Writer

(* In a file that can be decoded, a whole line that cannot be read follows *)
(* a broken piece of an earlier run, and no two lines follow the same. A   *)
(* file that cannot be decoded has a broken piece.                         *)
LEMMA LossFollowsBreak ==
  ASSUME IInv, BrokenInv
  PROVE  LossIsBounded
<1> DEFINE Lost == {i \in 1..Len(file) : file[i].end = "line" /\ ~Readable(i)}
           before == [i \in Lost |-> i - 1]
<1>1. /\ Len(file) \in Nat /\ base \in 0..Len(file)
      /\ runs \in Nat
  BY FileType, ConstantsAssumption DEF IInv, TypeOK
<1>2. ASSUME Decodes, NEW i \in Lost
      PROVE  i - 1 \in BrokenBefore
  <2>1. i \in 1..Len(file) /\ i # 1 /\ file[i - 1].end # "line"
    BY <1>2 DEF Readable, Parses
  <2>2. i - 1 \in 1..Len(file) /\ i - 1 # Len(file)
    BY <1>1, <2>1
  <2>3. i - 1 <= base
    BY <1>1, <2>1, <2>2 DEF BrokenInv
  <2>4. QED
    BY <2>1, <2>2, <2>3 DEF BrokenBefore
<1>3. ASSUME Decodes
      PROVE  Cardinality(Lost) <= runs - 1
  <2>1. before \in [Lost -> BrokenBefore]
    BY <1>2, <1>3
  <2>2. \A i, j \in Lost : before[i] = before[j] => i = j
    BY <1>1
  <2>3. before \in Injection(Lost, BrokenBefore)
    BY <2>1, <2>2, Fun_IsInj
  <2>4. /\ IsFiniteSet(Lost)
        /\ Cardinality(Lost) <= Cardinality(BrokenBefore)
    BY <2>3, BrokenFinite, FS_Injection
  <2>5. Cardinality(Lost) \in Nat /\ Cardinality(BrokenBefore) \in Nat
    BY <2>4, BrokenFinite, FS_CardinalityType
  <2>6. QED
    BY <1>1, <2>4, <2>5 DEF BrokenInv
<1>4. ASSUME ~Decodes
      PROVE  runs > 1 \/ task = "failed"
  <2>1. PICK i \in 1..Len(file) : file[i].end # "line"
    BY <1>1, <1>4 DEF Decodes
  <2>2. CASE i > base
    BY <2>1, <2>2 DEF BrokenInv
  <2>3. CASE i <= base
    <3>1. BrokenBefore # {}
      BY <1>1, <2>1, <2>3 DEF BrokenBefore
    <3>2. Cardinality(BrokenBefore) \in Nat \ {0}
      BY <3>1, BrokenFinite, FS_CardinalityType, FS_EmptySet
    <3>3. QED
      BY <1>1, <3>2 DEF BrokenInv
  <2>4. QED
    BY <1>1, <2>2, <2>3
<1>5. QED
  BY <1>3, <1>4 DEF LossIsBounded

LEMMA NothingBroken == Init => BrokenInv
<1>1. ASSUME Init PROVE BrokenInv
  <2>1. Len(file) = 0 /\ base = 0 /\ runs = 1
    BY <1>1 DEF Init
  <2>2. BrokenBefore = {}
    BY <2>1 DEF BrokenBefore
  <2>3. QED
    BY <2>1, <2>2, FS_EmptySet DEF BrokenInv
<1>2. QED
  BY <1>1

(* Over any number of runs and crashes: of a file that can be decoded a    *)
(* replay misses at most one whole line for each earlier run, and only a   *)
(* crash or a failing write leaves a file that cannot.                     *)
THEOREM OneLineLostPerRun == Spec => []LossIsBounded
<1>1. Init => BrokenInv
  BY NothingBroken
<1>2. IInv /\ BrokenInv /\ [Next]_vars => BrokenInv'
  BY BrokenStep
<1>3. IInv /\ BrokenInv => LossIsBounded
  BY LossFollowsBreak
<1>4. QED
  BY <1>1, <1>2, <1>3, Invariant, PTL DEF Spec

=============================================================================
