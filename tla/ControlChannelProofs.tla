------------------------ MODULE ControlChannelProofs ------------------------
(***************************************************************************)
(* For every message size, buffer capacity and heartbeat setting: however  *)
(* select! cancels the reads of a control connection, its readers get a    *)
(* prefix of what was written to them, and break off only for the reasons  *)
(* ErrorsExplained names; and the heartbeat spares a container that        *)
(* answers in time.                                                        *)
(***************************************************************************)
EXTENDS ControlChannel, SequenceTheorems, FiniteSetTheorems, TLAPS

\* The reader at e: what it has delivered is what the lines it has consumed
\* said, as long as it has not given up; its String is what it has consumed of
\* the current line unless a read was cancelled there, and is being drained only
\* for a line that is too long.
EndInv(e) ==
  /\ lines[e] <= Len(sent[e])
  /\ Len(delivered[e]) <= lines[e]
  /\ ended[e] = "no" => Len(delivered[e]) = lines[e]
  /\ \A i \in 1..Len(delivered[e]) : delivered[e][i] = sent[e][i]
  /\ line[e] <= pos[e]
  /\ pos[e] > 0 => HasLine(e) /\ pos[e] <= Current(e).size
  /\ draining[e] => pos[e] > 0 /\ Current(e).size > MaxMessageSize
  /\ ~torn[e] /\ ~draining[e] => line[e] = pos[e]
  /\ ended[e] = "size" => lines[e] >= 1 /\ sent[e][lines[e]].size >= MaxMessageSize
  /\ ended[e] = "parse" => torn[e]
  /\ ended[e] = "utf8" => HasLine(e) /\ Current(e).mid # {}

ChannelInv == TypeOK /\ \A e \in Ends : EndInv(e)

\* The types of one end, as the steps below use them.
EndType(e) ==
  /\ sent[e] \in Seq(Messages) /\ delivered[e] \in Seq(Messages)
  /\ Len(sent[e]) \in Nat /\ Len(delivered[e]) \in Nat
  /\ lines[e] \in Nat /\ pos[e] \in Nat /\ line[e] \in Nat
  /\ draining[e] \in BOOLEAN /\ torn[e] \in BOOLEAN
  /\ \A i \in 1..Len(sent[e]) : sent[e][i] \in Messages /\ sent[e][i].size \in Nat
  /\ HasLine(e) => Current(e) \in Messages /\ Current(e).size \in Nat

\* What another task may do to the lines written to e.
Grows(e) == sent'[e] = sent[e] \/ \E msg \in Messages : sent'[e] = Append(sent[e], msg)

\* What a step may do to the reader at e: nothing but end it, or cancel its read.
Stays(e) ==
  /\ delivered'[e] = delivered[e] /\ lines'[e] = lines[e] /\ pos'[e] = pos[e]
  /\ ended'[e] \in {ended[e], "closed", "heartbeat"}
  /\ \/ line'[e] = line[e] /\ draining'[e] = draining[e] /\ torn'[e] = torn[e]
     \/ line'[e] = 0 /\ draining'[e] = FALSE /\ torn'[e] = (torn[e] \/ pos[e] > 0)
------------------------------------------------------------------------------
LEMMA TypeOfEnd ==
  ASSUME TypeOK, NEW e \in Ends
  PROVE  EndType(e)
<1>1. /\ sent[e] \in Seq(Messages) /\ delivered[e] \in Seq(Messages)
      /\ lines[e] \in Nat /\ pos[e] \in Nat /\ line[e] \in 0..MaxMessageSize
      /\ draining[e] \in BOOLEAN /\ torn[e] \in BOOLEAN
  BY DEF TypeOK
<1>2. Len(sent[e]) \in Nat /\ Len(delivered[e]) \in Nat
  BY <1>1
<1>3. \A i \in 1..Len(sent[e]) : sent[e][i] \in Messages /\ sent[e][i].size \in Nat
  <2>1. \A i \in 1..Len(sent[e]) : sent[e][i] \in Messages
    BY <1>1, ElementOfSeq
  <2>2. \A msg \in Messages : msg.size \in Nat
    BY DEF Messages
  <2>3. QED
    BY <2>1, <2>2
<1>4. HasLine(e) => Current(e) \in Messages /\ Current(e).size \in Nat
  BY <1>1, <1>2, <1>3 DEF HasLine, Current
<1>5. line[e] \in Nat
  BY <1>1, ChannelAssumption
<1>6. QED
  BY <1>1, <1>2, <1>3, <1>4, <1>5 DEF EndType

\* Lines already written stay as they are.
LEMMA GrowsKeeps ==
  ASSUME NEW e \in Ends, EndType(e), Grows(e)
  PROVE  /\ Len(sent'[e]) \in Nat /\ Len(sent[e]) <= Len(sent'[e])
         /\ \A i \in 1..Len(sent[e]) : sent'[e][i] = sent[e][i]
<1>1. CASE sent'[e] = sent[e]
  BY <1>1 DEF EndType
<1>2. ASSUME NEW msg \in Messages, sent'[e] = Append(sent[e], msg)
      PROVE  /\ Len(sent'[e]) \in Nat /\ Len(sent[e]) <= Len(sent'[e])
             /\ \A i \in 1..Len(sent[e]) : sent'[e][i] = sent[e][i]
  BY <1>2, AppendProperties DEF EndType
<1>3. QED
  BY <1>1, <1>2 DEF Grows

\* So does the line that is being read.
LEMMA GrowsKeepsCurrent ==
  ASSUME NEW e \in Ends, EndType(e), Grows(e), lines'[e] = lines[e], HasLine(e)
  PROVE  HasLine(e)' /\ Current(e)' = Current(e)
<1>1. lines[e] + 1 \in 1..Len(sent[e])
  BY DEF EndType, HasLine
<1>2. QED
  BY <1>1, GrowsKeeps, SMTT(30) DEF EndType, HasLine, Current

LEMMA StaysPreserves ==
  ASSUME NEW e \in Ends, EndType(e), EndInv(e), Grows(e), Stays(e)
  PROVE  EndInv(e)'
<1>1. /\ Len(sent'[e]) \in Nat /\ Len(sent[e]) <= Len(sent'[e])
      /\ \A i \in 1..Len(sent[e]) : sent'[e][i] = sent[e][i]
  BY GrowsKeeps
<1>2. HasLine(e) => HasLine(e)' /\ Current(e)' = Current(e)
  BY GrowsKeepsCurrent DEF Stays
<1>3. (lines[e] <= Len(sent[e]))' /\ (Len(delivered[e]) <= lines[e])'
  BY <1>1 DEF EndType, EndInv, Stays
<1>4. (ended[e] = "no" => Len(delivered[e]) = lines[e])'
  BY DEF EndInv, Stays
<1>5. (\A i \in 1..Len(delivered[e]) : delivered[e][i] = sent[e][i])'
  <2>1. \A i \in 1..Len(delivered[e]) : i \in 1..Len(sent[e])
    BY DEF EndType, EndInv
  <2>2. QED
    BY <1>1, <2>1 DEF EndInv, Stays
<1>6. (line[e] <= pos[e])'
  BY DEF EndType, EndInv, Stays
<1>7. (pos[e] > 0 => HasLine(e) /\ pos[e] <= Current(e).size)'
  BY <1>2 DEF EndInv, Stays
<1>8. (draining[e] => pos[e] > 0 /\ Current(e).size > MaxMessageSize)'
  BY <1>2 DEF EndInv, Stays
<1>9. (~torn[e] /\ ~draining[e] => line[e] = pos[e])'
  <2>1. CASE line'[e] = line[e] /\ draining'[e] = draining[e] /\ torn'[e] = torn[e]
    BY <2>1 DEF EndInv, Stays
  <2>2. CASE line'[e] = 0 /\ draining'[e] = FALSE /\ torn'[e] = (torn[e] \/ pos[e] > 0)
    <3>1. ~torn'[e] => ~(pos[e] > 0)
      BY <2>2, Zenon
    <3>2. ~(pos[e] > 0) => pos[e] = 0
      BY DEF EndType
    <3>3. QED
      BY <2>2, <3>1, <3>2 DEF Stays
  <2>3. QED
    BY <2>1, <2>2 DEF Stays
<1>10. (ended[e] = "size" => lines[e] >= 1 /\ sent[e][lines[e]].size >= MaxMessageSize)'
  <2>1. SUFFICES ASSUME ended'[e] = "size"
                 PROVE  lines'[e] >= 1 /\ sent'[e][lines'[e]].size >= MaxMessageSize
    OBVIOUS
  <2>2. lines'[e] = lines[e] /\ lines[e] >= 1 /\ sent[e][lines[e]].size >= MaxMessageSize
    BY <2>1 DEF EndInv, Stays
  <2>3. lines[e] \in 1..Len(sent[e])
    BY <2>2 DEF EndType, EndInv
  <2>4. QED
    BY <1>1, <2>2, <2>3
<1>11. (ended[e] = "parse" => torn[e])'
  BY DEF EndType, EndInv, Stays
<1>12. (ended[e] = "utf8" => HasLine(e) /\ Current(e).mid # {})'
  BY <1>2 DEF EndInv, Stays
<1>13. QED
  BY <1>3, <1>4, <1>5, <1>6, <1>7, <1>8, <1>9, <1>10, <1>11, <1>12 DEF EndInv

LEMMA ChunkPreserves ==
  ASSUME TypeOK, NEW e \in Ends, EndInv(e), ReadChunk(e)
  PROVE  EndInv(e)'
<1> USE ChannelAssumption
<1>1. EndType(e)
  BY TypeOfEnd
<1>2. PICK k \in 1..Capacity :
        /\ pos[e] + k <= Current(e).size
        /\ pos' = [pos EXCEPT ![e] = @ + k]
        /\ IF draining[e] \/ line[e] + k > MaxMessageSize
           THEN draining' = [draining EXCEPT ![e] = TRUE] /\ UNCHANGED line
           ELSE line' = [line EXCEPT ![e] = @ + k] /\ UNCHANGED draining
  BY DEF ReadChunk
<1>3. /\ HasLine(e) /\ k \in Nat \ {0}
      /\ sent' = sent /\ delivered' = delivered /\ lines' = lines /\ ended' = ended /\ torn' = torn
  BY DEF ReadChunk
<1>4. pos'[e] = pos[e] + k /\ HasLine(e)' /\ Current(e)' = Current(e)
  BY <1>2, <1>3 DEF TypeOK, HasLine, Current
<1>5. CASE draining[e] \/ line[e] + k > MaxMessageSize
  <2>1. draining'[e] = TRUE /\ line'[e] = line[e]
    BY <1>2, <1>5 DEF TypeOK
  <2>2. Current(e).size > MaxMessageSize
    BY <1>1, <1>2, <1>3, <1>5 DEF EndInv, EndType
  <2>3. QED
    BY <1>1, <1>2, <1>3, <1>4, <2>1, <2>2 DEF EndInv, EndType
<1>6. CASE ~(draining[e] \/ line[e] + k > MaxMessageSize)
  <2>1. draining'[e] = draining[e] /\ line'[e] = line[e] + k
    BY <1>2, <1>6 DEF TypeOK
  <2>2. QED
    BY <1>1, <1>2, <1>3, <1>4, <1>6, <2>1 DEF EndInv, EndType
<1>7. QED
  BY <1>5, <1>6

\* A chunk that is no UTF-8 only ends the loop, and cuts a character of the line.
LEMMA InvalidPreserves ==
  ASSUME TypeOK, NEW e \in Ends, EndInv(e), ChunkInvalid(e)
  PROVE  EndInv(e)'
<1>1. EndType(e)
  BY TypeOfEnd
<1>2. /\ HasLine(e) /\ ended[e] = "no" /\ ended'[e] = "utf8"
      /\ sent' = sent /\ delivered' = delivered /\ lines' = lines /\ pos' = pos
      /\ line' = line /\ draining' = draining /\ torn' = torn
  BY DEF ChunkInvalid, Running, TypeOK, readVars
<1>3. Current(e).mid # {}
  BY DEF ChunkInvalid, Decodes, Valid
<1>4. HasLine(e)' /\ Current(e)' = Current(e)
  BY <1>2 DEF HasLine, Current
<1>5. QED
  BY <1>1, <1>2, <1>3, <1>4 DEF EndInv, EndType

\* The end of a line, delivered or not: the next one is read from its start.
LEMMA SkipIs ==
  ASSUME TypeOK, NEW e \in Ends, Skip(e)
  PROVE  /\ lines'[e] = lines[e] + 1 /\ pos'[e] = 0 /\ line'[e] = 0 /\ draining'[e] = FALSE
         /\ \A d \in Ends \ {e} : /\ lines'[d] = lines[d] /\ pos'[d] = pos[d]
                                  /\ line'[d] = line[d] /\ draining'[d] = draining[d]
  BY DEF TypeOK, Skip

LEMMA ErrorPreserves ==
  ASSUME TypeOK, NEW e \in Ends, EndInv(e), ReadError(e)
  PROVE  EndInv(e)'
<1> USE ChannelAssumption
<1>1. EndType(e) /\ ended \in [Ends -> {"no", "size", "parse", "utf8", "closed", "heartbeat"}]
  BY TypeOfEnd DEF TypeOK
<1>2. /\ HasLine(e) /\ ended[e] = "no"
      /\ sent' = sent /\ delivered' = delivered /\ torn' = torn
  BY DEF ReadError, AtNewline, Running
<1>3. lines'[e] = lines[e] + 1 /\ pos'[e] = 0 /\ line'[e] = 0 /\ draining'[e] = FALSE
  BY SkipIs DEF ReadError
<1>4. Current(e) = sent[e][lines[e] + 1] /\ lines[e] + 1 <= Len(sent[e])
  BY <1>1, <1>2 DEF EndType, HasLine, Current
<1>5. CASE TooLong(e) /\ ended' = [ended EXCEPT ![e] = "size"]
  <2>1. Current(e).size >= MaxMessageSize
    BY <1>1, <1>2, <1>5 DEF TooLong, LineLen, EndInv, EndType
  <2>2. ended'[e] = "size"
    BY <1>1, <1>5
  <2>3. QED
    BY <1>1, <1>2, <1>3, <1>4, <2>1, <2>2 DEF EndInv, EndType
<1>6. CASE ~TooLong(e) /\ ~Whole(e) /\ ended' = [ended EXCEPT ![e] = "parse"]
  <2>1. torn[e]
    BY <1>1, <1>6 DEF TooLong, Whole, EndInv, EndType
  <2>2. ended'[e] = "parse"
    BY <1>1, <1>6
  <2>3. QED
    BY <1>1, <1>2, <1>3, <1>4, <2>1, <2>2 DEF EndInv, EndType
<1>7. QED
  BY <1>5, <1>6 DEF ReadError

LEMMA DeliverPreserves ==
  ASSUME TypeOK, NEW e \in Ends, EndInv(e), Deliver(e), Grows(e)
  PROVE  EndInv(e)'
<1>1. EndType(e)
  BY TypeOfEnd
<1>2. /\ HasLine(e) /\ ended[e] = "no" /\ ended' = ended /\ torn' = torn
      /\ delivered'[e] = Append(delivered[e], Current(e))
  BY DEF Deliver, AtNewline, Running, TypeOK
<1>3. lines'[e] = lines[e] + 1 /\ pos'[e] = 0 /\ line'[e] = 0 /\ draining'[e] = FALSE
  BY SkipIs DEF Deliver
<1>4. /\ Len(sent'[e]) \in Nat /\ Len(sent[e]) <= Len(sent'[e])
      /\ \A i \in 1..Len(sent[e]) : sent'[e][i] = sent[e][i]
  BY <1>1, GrowsKeeps
<1>5. Current(e) = sent[e][lines[e] + 1] /\ Current(e) \in Messages /\ lines[e] + 1 <= Len(sent[e])
  BY <1>1, <1>2 DEF EndType, HasLine, Current
<1>6. Len(delivered[e]) = lines[e]
  BY <1>2 DEF EndInv
<1>7. /\ Len(delivered'[e]) = lines[e] + 1
      /\ \A i \in 1..lines[e] : delivered'[e][i] = delivered[e][i]
      /\ delivered'[e][lines[e] + 1] = Current(e)
  BY <1>1, <1>2, <1>5, <1>6, AppendProperties DEF EndType
<1>8. \A i \in 1..Len(delivered'[e]) : delivered'[e][i] = sent'[e][i]
  <2>1. TAKE i \in 1..Len(delivered'[e])
  <2>2. i \in 1..Len(sent[e]) /\ (i \in 1..lines[e] \/ i = lines[e] + 1)
    BY <1>1, <1>5, <1>7 DEF EndType
  <2>3. QED
    BY <1>4, <1>5, <1>6, <1>7, <2>2 DEF EndInv
<1>9. QED
  BY <1>1, <1>2, <1>3, <1>4, <1>5, <1>7, <1>8, SMTT(30) DEF EndInv, EndType
------------------------------------------------------------------------------
(* The steps, end by end *)

LEMMA InitInv == Init => ChannelInv
<1>1. SUFFICES ASSUME Init PROVE ChannelInv
  OBVIOUS
<1>2. TypeOK
  BY <1>1, ChannelAssumption DEF Init, TypeOK
<1>3. \A e \in Ends : EndInv(e)
  BY <1>1 DEF Init, EndInv
<1>4. QED
  BY <1>2, <1>3 DEF ChannelInv

\* Whatever a task writes is a message, and only its peer's lines grow.
LEMMA PutGrows ==
  ASSUME TypeOK, NEW e \in Ends, NEW msg \in Messages, Put(e, msg)
  PROVE  sent' \in [Ends -> Seq(Messages)] /\ \A d \in Ends : Grows(d)
<1>1. Peer(e) \in Ends /\ sent' = [sent EXCEPT ![Peer(e)] = Append(@, msg)]
  BY DEF Put, Peer, Ends
<1>2. sent[Peer(e)] \in Seq(Messages)
  BY <1>1 DEF TypeOK
<1>3. Append(sent[Peer(e)], msg) \in Seq(Messages)
  BY <1>2, AppendProperties
<1>4. sent' \in [Ends -> Seq(Messages)]
  BY <1>1, <1>3 DEF TypeOK
<1>5. \A d \in Ends : Grows(d)
  BY <1>1 DEF TypeOK, Grows
<1>6. QED
  BY <1>4, <1>5

\* A cancelled read, and the reader at the other end.
LEMMA CancelIs ==
  ASSUME TypeOK, NEW e \in Ends, Cancel(e)
  PROVE  /\ line' \in [Ends -> 0..MaxMessageSize]
         /\ draining' \in [Ends -> BOOLEAN] /\ torn' \in [Ends -> BOOLEAN]
         /\ line'[e] = 0 /\ draining'[e] = FALSE /\ torn'[e] = (torn[e] \/ pos[e] > 0)
         /\ \A d \in Ends \ {e} :
              line'[d] = line[d] /\ draining'[d] = draining[d] /\ torn'[d] = torn[d]
  BY ChannelAssumption DEF TypeOK, Cancel

\* A step that leaves the readers alone, or cancels one of them.
LEMMA AllStay ==
  ASSUME ChannelInv, TypeOK', \A d \in Ends : Grows(d) /\ Stays(d)
  PROVE  ChannelInv'
  BY StaysPreserves, TypeOfEnd DEF ChannelInv

\* A step of the reader at e.
LEMMA OneReads ==
  ASSUME ChannelInv, TypeOK', NEW e \in Ends, EndInv(e)',
         \A d \in Ends \ {e} : Grows(d) /\ Stays(d)
  PROVE  ChannelInv'
  BY StaysPreserves, TypeOfEnd DEF ChannelInv

LEMMA DataIsMessage ==
  ASSUME NEW n \in Bodies
  PROVE  Data(n) \in Messages
  BY ChannelAssumption DEF Messages, Data

LEMMA WritePreserves ==
  ASSUME ChannelInv, NEW e \in Ends, NEW n \in Bodies, Write(e, n)
  PROVE  ChannelInv'
<1>1. TypeOK
  BY DEF ChannelInv
<1>2. sent' \in [Ends -> Seq(Messages)] /\ \A d \in Ends : Grows(d)
  BY <1>1, DataIsMessage, PutGrows DEF Write
<1>3. /\ line' \in [Ends -> 0..MaxMessageSize]
      /\ draining' \in [Ends -> BOOLEAN] /\ torn' \in [Ends -> BOOLEAN]
      /\ line'[e] = 0 /\ draining'[e] = FALSE /\ torn'[e] = (torn[e] \/ pos[e] > 0)
      /\ \A d \in Ends \ {e} :
           line'[d] = line[d] /\ draining'[d] = draining[d] /\ torn'[d] = torn[d]
  BY <1>1, CancelIs DEF Write
<1>4. /\ delivered' = delivered /\ lines' = lines /\ pos' = pos /\ ended' = ended
      /\ UNCHANGED beatVars /\ written' = written + 1
  BY DEF Write
<1>5. TypeOK'
  BY <1>1, <1>2, <1>3, <1>4 DEF TypeOK, beatVars
<1>6. \A d \in Ends : Stays(d)
  BY <1>3, <1>4 DEF Stays
<1>7. QED
  BY <1>2, <1>5, <1>6, AllStay

LEMMA InterruptPreserves ==
  ASSUME ChannelInv, NEW e \in Ends, Interrupt(e)
  PROVE  ChannelInv'
<1>1. TypeOK
  BY DEF ChannelInv
<1>2. /\ line' \in [Ends -> 0..MaxMessageSize]
      /\ draining' \in [Ends -> BOOLEAN] /\ torn' \in [Ends -> BOOLEAN]
      /\ line'[e] = 0 /\ draining'[e] = FALSE /\ torn'[e] = (torn[e] \/ pos[e] > 0)
      /\ \A d \in Ends \ {e} :
           line'[d] = line[d] /\ draining'[d] = draining[d] /\ torn'[d] = torn[d]
  BY <1>1, CancelIs DEF Interrupt
<1>3. /\ sent' = sent /\ delivered' = delivered /\ lines' = lines /\ pos' = pos /\ ended' = ended
      /\ UNCHANGED beatVars /\ written' = written
  BY DEF Interrupt
<1>4. TypeOK'
  BY <1>1, <1>2, <1>3 DEF TypeOK, beatVars
<1>5. \A d \in Ends : Grows(d) /\ Stays(d)
  BY <1>2, <1>3 DEF Stays, Grows
<1>6. QED
  BY <1>4, <1>5, AllStay

LEMMA ForeignWritePreserves ==
  ASSUME ChannelInv, NEW n \in Bodies, ForeignWrite(n)
  PROVE  ChannelInv'
<1>1. TypeOK /\ "host" \in Ends
  BY DEF ChannelInv, Ends
<1>2. sent' = [sent EXCEPT !["host"] = Append(@, Data(n))]
  BY DEF ForeignWrite
<1>3. Append(sent["host"], Data(n)) \in Seq(Messages)
  BY <1>1, DataIsMessage, AppendProperties DEF TypeOK
<1>4. /\ UNCHANGED readVars /\ ended' = ended /\ torn' = torn
      /\ UNCHANGED beatVars /\ written' = written + 1
  BY DEF ForeignWrite
<1>5. TypeOK'
  BY <1>1, <1>2, <1>3, <1>4 DEF TypeOK, beatVars, readVars
<1>6. \A d \in Ends : Grows(d)
  BY <1>1, <1>2, DataIsMessage DEF TypeOK, Grows
<1>7. \A d \in Ends : Stays(d)
  BY <1>4 DEF Stays, readVars
<1>8. QED
  BY <1>5, <1>6, <1>7, AllStay

LEMMA ClosedPreserves ==
  ASSUME ChannelInv, NEW e \in Ends, RecvClosed(e)
  PROVE  ChannelInv'
<1>1. TypeOK
  BY DEF ChannelInv
<1>2. /\ ended' = [ended EXCEPT ![e] = "closed"] /\ sent' = sent /\ UNCHANGED readVars
      /\ torn' = torn /\ UNCHANGED beatVars /\ written' = written
  BY DEF RecvClosed
<1>3. TypeOK'
  BY <1>1, <1>2 DEF TypeOK, beatVars, readVars
<1>4. \A d \in Ends : Grows(d) /\ Stays(d)
  BY <1>1, <1>2 DEF TypeOK, Stays, Grows, readVars
<1>5. QED
  BY <1>3, <1>4, AllStay

LEMMA ReadChunkPreserves ==
  ASSUME ChannelInv, NEW e \in Ends, ReadChunk(e)
  PROVE  ChannelInv'
<1> USE ChannelAssumption
<1>1. TypeOK /\ EndInv(e) /\ EndType(e)
  BY TypeOfEnd DEF ChannelInv
<1>2. PICK k \in 1..Capacity :
        /\ pos' = [pos EXCEPT ![e] = @ + k]
        /\ IF draining[e] \/ line[e] + k > MaxMessageSize
           THEN draining' = [draining EXCEPT ![e] = TRUE] /\ UNCHANGED line
           ELSE line' = [line EXCEPT ![e] = @ + k] /\ UNCHANGED draining
  BY DEF ReadChunk
<1>3. /\ sent' = sent /\ delivered' = delivered /\ lines' = lines /\ ended' = ended
      /\ torn' = torn /\ UNCHANGED beatVars /\ written' = written
  BY DEF ReadChunk
<1>4. pos' \in [Ends -> Nat]
  BY <1>1, <1>2 DEF TypeOK
<1>5. draining' \in [Ends -> BOOLEAN] /\ line' \in [Ends -> 0..MaxMessageSize]
  <2>1. CASE draining[e] \/ line[e] + k > MaxMessageSize
    BY <1>1, <1>2, <2>1 DEF TypeOK
  <2>2. CASE ~(draining[e] \/ line[e] + k > MaxMessageSize)
    <3>1. line[e] + k \in 0..MaxMessageSize
      BY <1>1, <2>2 DEF EndType
    <3>2. QED
      BY <1>1, <1>2, <2>2, <3>1 DEF TypeOK
  <2>3. QED
    BY <2>1, <2>2
<1>6. TypeOK'
  BY <1>1, <1>3, <1>4, <1>5 DEF TypeOK, beatVars
<1>7. EndInv(e)'
  BY <1>1, ChunkPreserves
<1>8. \A d \in Ends \ {e} : Grows(d) /\ Stays(d)
  BY <1>1, <1>2, <1>3 DEF TypeOK, Stays, Grows
<1>9. QED
  BY <1>6, <1>7, <1>8, OneReads

LEMMA ChunkInvalidPreserves ==
  ASSUME ChannelInv, NEW e \in Ends, ChunkInvalid(e)
  PROVE  ChannelInv'
<1>1. TypeOK /\ EndInv(e)
  BY DEF ChannelInv
<1>2. /\ ended' = [ended EXCEPT ![e] = "utf8"] /\ sent' = sent /\ UNCHANGED readVars
      /\ torn' = torn /\ UNCHANGED beatVars /\ written' = written
  BY DEF ChunkInvalid
<1>3. TypeOK'
  BY <1>1, <1>2 DEF TypeOK, beatVars, readVars
<1>4. EndInv(e)'
  BY <1>1, InvalidPreserves
<1>5. \A d \in Ends \ {e} : Grows(d) /\ Stays(d)
  BY <1>1, <1>2 DEF TypeOK, Stays, Grows, readVars
<1>6. QED
  BY <1>3, <1>4, <1>5, OneReads

LEMMA ReadErrorPreserves ==
  ASSUME ChannelInv, NEW e \in Ends, ReadError(e)
  PROVE  ChannelInv'
<1> USE ChannelAssumption
<1>1. TypeOK /\ EndInv(e)
  BY DEF ChannelInv
<1>2. /\ sent' = sent /\ delivered' = delivered /\ torn' = torn /\ UNCHANGED beatVars
      /\ written' = written
      /\ ended' = [ended EXCEPT ![e] = "size"] \/ ended' = [ended EXCEPT ![e] = "parse"]
  BY DEF ReadError
<1>3. Skip(e)
  BY DEF ReadError
<1>4. TypeOK'
  <2>1. /\ lines' \in [Ends -> Nat] /\ pos' \in [Ends -> Nat]
        /\ line' \in [Ends -> 0..MaxMessageSize] /\ draining' \in [Ends -> BOOLEAN]
    BY <1>1, <1>3 DEF TypeOK, Skip
  <2>2. ended' \in [Ends -> {"no", "size", "parse", "utf8", "closed", "heartbeat"}]
    BY <1>1, <1>2 DEF TypeOK
  <2>3. QED
    BY <1>1, <1>2, <2>1, <2>2 DEF TypeOK, beatVars
<1>5. EndInv(e)'
  BY <1>1, ErrorPreserves
<1>6. \A d \in Ends \ {e} : Grows(d) /\ Stays(d)
  BY <1>1, <1>2, <1>3, SkipIs, ZenonT(30) DEF TypeOK, Stays, Grows
<1>7. QED
  BY <1>4, <1>5, <1>6, OneReads

\* A delivery at e, with whatever the handler then writes and counts.
LEMMA DeliverySteps ==
  ASSUME ChannelInv, NEW e \in Ends, HasLine(e), Deliver(e),
         sent' \in [Ends -> Seq(Messages)], \A d \in Ends : Grows(d),
         missed' \in Nat, unanswered' \in Int, alive' = alive, ticks' = ticks
  PROVE  ChannelInv'
<1> USE ChannelAssumption
<1>1. TypeOK /\ EndInv(e) /\ EndType(e)
  BY TypeOfEnd DEF ChannelInv
<1>2. /\ Skip(e) /\ delivered' = [delivered EXCEPT ![e] = Append(@, Current(e))]
      /\ ended' = ended /\ torn' = torn /\ written' = written
  BY DEF Deliver
<1>3. Append(delivered[e], Current(e)) \in Seq(Messages)
  BY <1>1, AppendProperties DEF EndType
<1>4. delivered' \in [Ends -> Seq(Messages)]
  BY <1>1, <1>2, <1>3 DEF TypeOK
<1>5. /\ lines' \in [Ends -> Nat] /\ pos' \in [Ends -> Nat]
      /\ line' \in [Ends -> 0..MaxMessageSize] /\ draining' \in [Ends -> BOOLEAN]
  BY <1>1, <1>2, SMTT(30) DEF TypeOK, Skip
<1>6. TypeOK'
  BY <1>1, <1>2, <1>4, <1>5 DEF TypeOK
<1>7. EndInv(e)'
  BY <1>1, DeliverPreserves
<1>8. \A d \in Ends \ {e} : Grows(d) /\ Stays(d)
  BY <1>1, <1>2, SkipIs DEF TypeOK, Stays
<1>9. QED
  BY <1>6, <1>7, <1>8, OneReads

LEMMA RecvPreserves ==
  ASSUME ChannelInv, RecvPong \/ RecvPing \/ \E e \in Ends : RecvOther(e)
  PROVE  ChannelInv'
<1>1. TypeOK /\ "host" \in Ends /\ "container" \in Ends
  BY DEF ChannelInv, Ends
<1>2. CASE RecvPong
  <2>1. /\ sent' = sent /\ HasLine("host") /\ Deliver("host")
        /\ missed' = 0 /\ unanswered' = unanswered - 1 /\ alive' = alive /\ ticks' = ticks
    BY <1>2 DEF RecvPong
  <2>2. /\ sent' \in [Ends -> Seq(Messages)] /\ \A d \in Ends : Grows(d)
        /\ missed' \in Nat /\ unanswered' \in Int
    BY <1>1, <2>1 DEF TypeOK, Grows
  <2>3. QED
    BY <1>1, <2>1, <2>2, DeliverySteps
<1>3. CASE RecvPing
  <2>1. /\ HasLine("container") /\ Deliver("container") /\ Put("container", Pong)
        /\ missed' = missed /\ unanswered' = unanswered /\ alive' = alive /\ ticks' = ticks
    BY <1>3 DEF RecvPing, beatVars
  <2>2. Pong \in Messages
    BY ChannelAssumption DEF Pong, Messages
  <2>3. sent' \in [Ends -> Seq(Messages)] /\ \A d \in Ends : Grows(d)
    BY <1>1, <2>1, <2>2, PutGrows
  <2>4. QED
    BY <1>1, <2>1, <2>3, DeliverySteps DEF TypeOK
<1>4. ASSUME NEW e \in Ends, RecvOther(e) PROVE ChannelInv'
  <2>1. /\ sent' = sent /\ HasLine(e) /\ Deliver(e)
        /\ missed' = missed /\ unanswered' = unanswered /\ alive' = alive /\ ticks' = ticks
    BY <1>4 DEF RecvOther, beatVars
  <2>2. sent' \in [Ends -> Seq(Messages)] /\ \A d \in Ends : Grows(d)
    BY <1>1, <2>1 DEF TypeOK, Grows
  <2>3. QED
    BY <1>1, <2>1, <2>2, DeliverySteps DEF TypeOK
<1>5. QED
  BY <1>2, <1>3, <1>4

LEMMA TickPreserves ==
  ASSUME ChannelInv, Tick
  PROVE  ChannelInv'
<1> USE ChannelAssumption
<1>1. TypeOK /\ "host" \in Ends
  BY DEF ChannelInv, Ends
<1>2. /\ line' \in [Ends -> 0..MaxMessageSize]
      /\ draining' \in [Ends -> BOOLEAN] /\ torn' \in [Ends -> BOOLEAN]
      /\ line'["host"] = 0 /\ draining'["host"] = FALSE
      /\ torn'["host"] = (torn["host"] \/ pos["host"] > 0)
      /\ \A d \in Ends \ {"host"} :
           line'[d] = line[d] /\ draining'[d] = draining[d] /\ torn'[d] = torn[d]
  BY <1>1, CancelIs DEF Tick
<1>3. /\ delivered' = delivered /\ lines' = lines /\ pos' = pos /\ alive' = alive
      /\ written' = written /\ missed' = missed + 1 /\ ticks' \in Nat
  BY <1>1 DEF Tick, Clock, TypeOK
<1>4. CASE missed' > MaxMissedPongs
  <2>1. /\ ended' = [ended EXCEPT !["host"] = "heartbeat"]
        /\ sent' = sent /\ unanswered' = unanswered
    BY <1>4 DEF Tick
  <2>2. TypeOK'
    BY <1>1, <1>2, <1>3, <2>1 DEF TypeOK
  <2>3. \A d \in Ends : Grows(d) /\ Stays(d)
    BY <1>1, <1>2, <1>3, <2>1 DEF TypeOK, Grows, Stays
  <2>4. QED
    BY <2>2, <2>3, AllStay
<1>5. CASE ~(missed' > MaxMissedPongs)
  <2>1. Put("host", Ping) /\ unanswered' = unanswered + 1 /\ ended' = ended
    BY <1>5 DEF Tick
  <2>2. Ping \in Messages
    BY DEF Ping, Messages
  <2>3. sent' \in [Ends -> Seq(Messages)] /\ \A d \in Ends : Grows(d)
    BY <1>1, <2>1, <2>2, PutGrows
  <2>4. TypeOK'
    BY <1>1, <1>2, <1>3, <2>1, <2>3 DEF TypeOK
  <2>5. \A d \in Ends : Stays(d)
    BY <1>1, <1>2, <1>3, <2>1 DEF Stays
  <2>6. QED
    BY <2>3, <2>4, <2>5, AllStay
<1>6. QED
  BY <1>4, <1>5

LEMMA StepPreserves == ChannelInv /\ [Next]_vars => ChannelInv'
<1>1. SUFFICES ASSUME ChannelInv, [Next]_vars PROVE ChannelInv'
  OBVIOUS
<1>2. ASSUME NEW e \in Ends, Reading(e) PROVE ChannelInv'
  BY <1>1, <1>2, ReadChunkPreserves, ChunkInvalidPreserves, ReadErrorPreserves, RecvPreserves, ClosedPreserves DEF Reading
<1>3. ASSUME NEW e \in Ends, Interrupt(e) PROVE ChannelInv'
  BY <1>1, <1>3, InterruptPreserves
<1>4. ASSUME NEW e \in Ends, NEW n \in Bodies, Write(e, n) PROVE ChannelInv'
  BY <1>1, <1>4, WritePreserves
<1>5. ASSUME NEW n \in Bodies, ForeignWrite(n) PROVE ChannelInv'
  BY <1>1, <1>5, ForeignWritePreserves
<1>6. CASE Protocol
  BY <1>1, <1>6, RecvPreserves, TickPreserves DEF Protocol
<1>7. CASE Freeze \/ UNCHANGED vars
  <2>1. /\ sent' = sent /\ UNCHANGED readVars /\ ended' = ended /\ torn' = torn
        /\ missed' = missed /\ unanswered' = unanswered /\ written' = written /\ ticks' = ticks
        /\ alive' \in {alive, FALSE}
    BY <1>7 DEF Freeze, vars, readVars
  <2>2. TypeOK'
    BY <1>1, <2>1 DEF ChannelInv, TypeOK, readVars
  <2>3. \A d \in Ends : Grows(d) /\ Stays(d)
    BY <2>1 DEF Grows, Stays, readVars
  <2>4. QED
    BY <1>1, <2>2, <2>3, AllStay
<1>8. QED
  BY <1>1, <1>2, <1>3, <1>4, <1>5, <1>6, <1>7 DEF Next
------------------------------------------------------------------------------
\* The state of a control connection keeps its types; in particular the String
\* of read_message never grows beyond MAX_MESSAGE_SIZE.
THEOREM ChannelTypeCorrect == Spec => []TypeOK
<1>1. ChannelInv => TypeOK
  BY DEF ChannelInv
<1>2. QED
  BY <1>1, InitInv, StepPreserves, PTL DEF Spec

\* read_message under select!: for every sequence of writes, chunks and
\* cancellations, a reader is given a prefix of what was written to it.
THEOREM ReadersGetPrefix == Spec => []DeliveredPrefix
<1>1. ChannelInv => DeliveredPrefix
  <2>1. SUFFICES ASSUME ChannelInv, NEW e \in Ends
                 PROVE  /\ Len(delivered[e]) <= Len(sent[e])
                        /\ \A i \in 1..Len(delivered[e]) : delivered[e][i] = sent[e][i]
    BY DEF DeliveredPrefix
  <2>2. TypeOK /\ EndInv(e)
    BY <2>1 DEF ChannelInv
  <2>3. EndType(e)
    BY <2>2, TypeOfEnd
  <2>4. QED
    BY <2>2, <2>3 DEF EndInv, EndType
<1>2. QED
  BY <1>1, InitInv, StepPreserves, PTL DEF Spec

\* read_message: a line is refused for its size only if its JSON has reached
\* MAX_MESSAGE_SIZE, and fails to parse only after a cancelled read.
THEOREM ErrorsHaveCause == Spec => []ErrorsExplained
<1>1. ChannelInv => ErrorsExplained
  BY DEF ChannelInv, EndInv, ErrorsExplained
<1>2. QED
  BY <1>1, InitInv, StepPreserves, PTL DEF Spec
------------------------------------------------------------------------------
(* The heartbeat *)

\* The lines of that kind that e has not consumed, by their place.
Unread(e, kind) == {i \in 1..Len(sent[e]) : i > lines[e] /\ sent[e][i].kind = kind}
Pings == Cardinality(Unread("container", "ping"))
Pongs == Cardinality(Unread("host", "pong"))

\* Every Ping or Pong on its way is accounted for, so that a Pong the host
\* reads answers a Ping it has sent, and it never counts more misses than there
\* are Pings without an answer.
BeatInv ==
  /\ Pings + Pongs <= unanswered
  /\ ended["host"] = "no" => missed <= unanswered
  /\ HeartbeatSparesLive

LEMMA UnreadFinite ==
  ASSUME TypeOK, NEW e \in Ends, NEW kind
  PROVE  IsFiniteSet(Unread(e, kind)) /\ Cardinality(Unread(e, kind)) \in Nat
<1>1. EndType(e)
  BY TypeOfEnd
<1>2. IsFiniteSet(1..Len(sent[e])) /\ Unread(e, kind) \subseteq 1..Len(sent[e])
  <2>1. 1 \in Int /\ Len(sent[e]) \in Int
    BY <1>1 DEF EndType
  <2>q. QED BY <2>1, FS_Interval DEF Unread
<1>3. IsFiniteSet(Unread(e, kind))
  BY <1>2, FS_Subset
<1>q. QED BY <1>3, FS_CardinalityType

LEMMA UnreadSame ==
  ASSUME NEW e \in Ends, NEW kind, sent'[e] = sent[e], lines'[e] = lines[e]
  PROVE  Unread(e, kind)' = Unread(e, kind)
BY DEF Unread

LEMMA UnreadAppend ==
  ASSUME ChannelInv, NEW e \in Ends, NEW kind, NEW msg \in Messages,
         sent'[e] = Append(sent[e], msg), lines'[e] = lines[e]
  PROVE  Cardinality(Unread(e, kind)') = Cardinality(Unread(e, kind)) + IF msg.kind = kind THEN 1 ELSE 0
<1> DEFINE n == Len(sent[e]) + 1
<1>1. TypeOK /\ EndInv(e) /\ EndType(e)
  BY TypeOfEnd DEF ChannelInv
<1>2. Len(sent[e]) \in Nat /\ lines[e] \in Nat /\ lines[e] <= Len(sent[e])
  BY <1>1 DEF EndInv, EndType
<1>3. /\ Len(sent'[e]) = n /\ sent'[e][n] = msg
      /\ \A i \in 1..Len(sent[e]) : sent'[e][i] = sent[e][i]
  BY <1>1, AppendProperties DEF EndType
<1>4. /\ \A i : i \in 1..n <=> i \in 1..Len(sent[e]) \/ i = n
      /\ n > lines[e] /\ n \notin 1..Len(sent[e])
  BY <1>2
<1>5. Unread(e, kind)' = Unread(e, kind) \cup IF msg.kind = kind THEN {n} ELSE {}
  BY <1>3, <1>4 DEF Unread
<1>6. n \notin Unread(e, kind) /\ IsFiniteSet(Unread(e, kind)) /\ Cardinality(Unread(e, kind)) \in Nat
  BY <1>1, <1>4, UnreadFinite DEF Unread
<1>7. CASE msg.kind = kind
  <2>1. Cardinality(Unread(e, kind) \cup {n}) = Cardinality(Unread(e, kind)) + 1
    BY <1>6, FS_AddElement
  <2>q. QED BY <2>1, <1>5, <1>7
<1>8. CASE msg.kind # kind
  <2>1. Unread(e, kind)' = Unread(e, kind)
    BY <1>5, <1>8
  <2>q. QED BY <2>1, <1>6, <1>8
<1>q. QED BY <1>7, <1>8

LEMMA UnreadSkip ==
  ASSUME ChannelInv, NEW e \in Ends, NEW kind, HasLine(e), sent'[e] = sent[e], lines'[e] = lines[e] + 1
  PROVE  Cardinality(Unread(e, kind)') = Cardinality(Unread(e, kind)) - IF Current(e).kind = kind THEN 1 ELSE 0
<1> DEFINE n == lines[e] + 1
<1>1. TypeOK /\ EndType(e)
  BY TypeOfEnd DEF ChannelInv
<1>2. Len(sent[e]) \in Nat /\ lines[e] \in Nat /\ n \in 1..Len(sent[e])
  BY <1>1 DEF EndType, HasLine
<1>3. \A i \in 1..Len(sent[e]) : i > n <=> i > lines[e] /\ i # n
  BY <1>2
<1>4. Unread(e, kind)' = Unread(e, kind) \ {n}
  BY <1>3 DEF Unread
<1>5. IsFiniteSet(Unread(e, kind)) /\ Cardinality(Unread(e, kind)) \in Nat
  BY <1>1, UnreadFinite
<1>6. CASE Current(e).kind = kind
  <2>1. n \in Unread(e, kind)
    BY <1>2, <1>6 DEF Unread, Current
  <2>2. Cardinality(Unread(e, kind) \ {n}) = Cardinality(Unread(e, kind)) - 1
    BY <2>1, <1>5, FS_RemoveElement, ZenonT(30)
  <2>q. QED BY <2>2, <1>4, <1>6
<1>7. CASE Current(e).kind # kind
  <2>1. n \notin Unread(e, kind)
    BY <1>7 DEF Unread, Current
  <2>2. Unread(e, kind)' = Unread(e, kind)
    BY <2>1, <1>4
  <2>q. QED BY <2>2, <1>5, <1>7
<1>q. QED BY <1>6, <1>7

\* Counting what a step of a writer or a reader does to what is on its way.
LEMMA CountsTyped == ASSUME ChannelInv PROVE Pings \in Nat /\ Pongs \in Nat /\ unanswered \in Int /\ missed \in Nat
BY UnreadFinite DEF ChannelInv, TypeOK, Pings, Pongs, Ends

LEMMA CountsTypedState == TypeOK => Pings \in Nat /\ Pongs \in Nat
BY UnreadFinite DEF Pings, Pongs, Ends

LEMMA CountsTypedNext == (TypeOK => Pings \in Nat /\ Pongs \in Nat)'
BY CountsTypedState, PTL

LEMMA Sums ==
  /\ \A a, b, c, d \in Nat : c <= a /\ d <= b => c + d <= a + b
  /\ \A a, b, c, d \in Nat : \A u \in Int : c + d <= a + b /\ a + b <= u => c + d <= u
OBVIOUS

LEMMA CountsSame ==
  ASSUME sent' = sent, lines' = lines
  PROVE  Pings' = Pings /\ Pongs' = Pongs
BY UnreadSame DEF Pings, Pongs, Ends

LEMMA CountsWrite ==
  ASSUME ChannelInv, NEW e \in Ends, NEW msg \in Messages,
         sent' = [sent EXCEPT ![e] = Append(@, msg)], lines' = lines
  PROVE  /\ Pings' = Pings + IF e = "container" /\ msg.kind = "ping" THEN 1 ELSE 0
         /\ Pongs' = Pongs + IF e = "host" /\ msg.kind = "pong" THEN 1 ELSE 0
<1>1. DOMAIN sent = Ends /\ Pings \in Nat /\ Pongs \in Nat
  BY CountsTyped DEF ChannelInv, TypeOK
<1>2. sent'[e] = Append(sent[e], msg) /\ \A d \in Ends : d # e => sent'[d] = sent[d]
  BY <1>1
<1>3. Pings' = Pings + IF e = "container" /\ msg.kind = "ping" THEN 1 ELSE 0
  <2>1. CASE e = "container"
    BY <2>1, <1>2, UnreadAppend DEF Pings
  <2>2. CASE e # "container"
    BY <2>2, <1>1, <1>2, UnreadSame DEF Pings, Ends
  <2>q. QED BY <2>1, <2>2
<1>4. Pongs' = Pongs + IF e = "host" /\ msg.kind = "pong" THEN 1 ELSE 0
  <2>1. CASE e = "host"
    BY <2>1, <1>2, UnreadAppend DEF Pongs
  <2>2. CASE e # "host"
    BY <2>2, <1>1, <1>2, UnreadSame DEF Pongs, Ends
  <2>q. QED BY <2>1, <2>2
<1>q. QED BY <1>3, <1>4

LEMMA CountsSkip ==
  ASSUME ChannelInv, NEW e \in Ends, HasLine(e), sent' = sent, lines' = [lines EXCEPT ![e] = @ + 1]
  PROVE  /\ Pings' = Pings - IF e = "container" /\ Current(e).kind = "ping" THEN 1 ELSE 0
         /\ Pongs' = Pongs - IF e = "host" /\ Current(e).kind = "pong" THEN 1 ELSE 0
<1>1. DOMAIN lines = Ends /\ Pings \in Nat /\ Pongs \in Nat
  BY CountsTyped DEF ChannelInv, TypeOK
<1>2. lines'[e] = lines[e] + 1 /\ \A d \in Ends : d # e => lines'[d] = lines[d]
  BY <1>1
<1>3. Pings' = Pings - IF e = "container" /\ Current(e).kind = "ping" THEN 1 ELSE 0
  <2>1. CASE e = "container"
    BY <2>1, <1>2, UnreadSkip DEF Pings
  <2>2. CASE e # "container"
    BY <2>2, <1>1, <1>2, UnreadSame DEF Pings, Ends
  <2>q. QED BY <2>1, <2>2
<1>4. Pongs' = Pongs - IF e = "host" /\ Current(e).kind = "pong" THEN 1 ELSE 0
  <2>1. CASE e = "host"
    BY <2>1, <1>2, UnreadSkip DEF Pongs
  <2>2. CASE e # "host"
    BY <2>2, <1>1, <1>2, UnreadSame DEF Pongs, Ends
  <2>q. QED BY <2>1, <2>2
<1>q. QED BY <1>3, <1>4

\* A step that loses or keeps what is on its way, and ends a loop at most for
\* another reason.
LEMMA BeatGoesOn ==
  ASSUME ChannelInv, BeatInv, Pings' \in Nat, Pongs' \in Nat, Pings' + Pongs' <= Pings + Pongs,
         missed' = missed, unanswered' = unanswered, alive' \in {alive, FALSE},
         \A e \in Ends : ended'[e] \in {ended[e], "size", "parse", "utf8", "closed"}
  PROVE  BeatInv'
<1>1. Pings \in Nat /\ Pongs \in Nat /\ unanswered \in Int
  BY CountsTyped
<1>2. Pings' + Pongs' <= unanswered'
  BY <1>1, Sums DEF BeatInv
<1>3. ended'["host"] = "no" => missed' <= unanswered'
  BY DEF BeatInv, Ends
<1>4. HeartbeatSparesLive'
  BY DEF BeatInv, HeartbeatSparesLive, Ends, ChannelInv, TypeOK
<1>q. QED BY <1>2, <1>3, <1>4 DEF BeatInv

LEMMA InitBeat == ASSUME Init PROVE BeatInv
<1>1. Unread("container", "ping") = {} /\ Unread("host", "pong") = {}
  BY DEF Init, Unread, Ends
<1>2. Pings = 0 /\ Pongs = 0
  BY <1>1, FS_EmptySet DEF Pings, Pongs
<1>q. QED BY <1>2 DEF Init, BeatInv, HeartbeatSparesLive, Ends

LEMMA QuietSteps ==
  ASSUME ChannelInv, BeatInv, NEW e \in Ends,
         ReadChunk(e) \/ ChunkInvalid(e) \/ RecvClosed(e) \/ Interrupt(e) \/ Freeze \/ UNCHANGED vars
  PROVE  BeatInv'
<1>1. /\ sent' = sent /\ lines' = lines /\ missed' = missed /\ unanswered' = unanswered
      /\ alive' \in {alive, FALSE} /\ (\/ ended' = ended \/ ended' = [ended EXCEPT ![e] = "closed"]
                                   \/ ended' = [ended EXCEPT ![e] = "utf8"])
  BY DEF ReadChunk, ChunkInvalid, RecvClosed, Interrupt, Freeze, vars, beatVars, readVars
<1>2. \A d \in Ends : ended'[d] \in {ended[d], "size", "parse", "utf8", "closed"}
  BY <1>1 DEF ChannelInv, TypeOK
<1>3. Pings' = Pings /\ Pongs' = Pongs /\ Pings \in Nat /\ Pongs \in Nat
  BY <1>1, CountsSame, CountsTyped
<1>4. Pings' + Pongs' <= Pings + Pongs
  BY <1>3
<1>q. QED BY <1>1, <1>2, <1>3, <1>4, BeatGoesOn

LEMMA WriteBeat ==
  ASSUME ChannelInv, BeatInv, NEW n \in Bodies, (\E e \in Ends : Write(e, n)) \/ ForeignWrite(n)
  PROVE  BeatInv'
<1> DEFINE msg == Data(n)
<1>1. PICK d \in Ends : sent' = [sent EXCEPT ![d] = Append(@, msg)]
  BY DEF Write, Put, ForeignWrite, Peer, Ends
<1>2. /\ lines' = lines /\ missed' = missed /\ unanswered' = unanswered /\ alive' = alive /\ ended' = ended
  BY DEF Write, ForeignWrite, beatVars, readVars
<1>3. msg \in Messages /\ msg.kind # "ping" /\ msg.kind # "pong"
  BY DataIsMessage DEF Data
<1>4. Pings \in Nat /\ Pongs \in Nat
  BY CountsTyped
<1>5. Pings' = Pings /\ Pongs' = Pongs
  <2>1. Pings' = Pings + 0 /\ Pongs' = Pongs + 0
    BY <1>1, <1>2, <1>3, CountsWrite
  <2>q. QED BY <2>1, <1>4
<1>6. Pings' + Pongs' <= Pings + Pongs
  BY <1>4, <1>5
<1>q. QED BY <1>2, <1>4, <1>5, <1>6, BeatGoesOn

LEMMA ReadErrorBeat ==
  ASSUME ChannelInv, BeatInv, NEW e \in Ends, ReadError(e)
  PROVE  BeatInv'
<1>1. /\ HasLine(e) /\ sent' = sent /\ lines' = [lines EXCEPT ![e] = @ + 1]
      /\ missed' = missed /\ unanswered' = unanswered /\ alive' = alive
      /\ ended' = [ended EXCEPT ![e] = "size"] \/ ended' = [ended EXCEPT ![e] = "parse"]
  BY DEF ReadError, AtNewline, Skip, beatVars
<1>2. \A d \in Ends : ended'[d] \in {ended[d], "size", "parse", "utf8", "closed"}
  BY <1>1 DEF ChannelInv, TypeOK
<1>3. Pings \in Nat /\ Pongs \in Nat
  BY CountsTyped
<1>4. Pings' \in Nat /\ Pongs' \in Nat
  <2>1. TypeOK'
    BY ReadErrorPreserves DEF ChannelInv
  <2>q. QED BY <2>1, CountsTypedNext
<1>5. Pings' <= Pings /\ Pongs' <= Pongs
  <2>1. Pings' \in {Pings - 1, Pings - 0} /\ Pongs' \in {Pongs - 1, Pongs - 0}
    BY <1>1, CountsSkip
  <2>q. QED BY <2>1, <1>3
<1>6. Pings' + Pongs' <= Pings + Pongs
  BY <1>3, <1>4, <1>5, Sums
<1>q. QED BY <1>1, <1>2, <1>4, <1>6, BeatGoesOn

LEMMA RecvBeat ==
  ASSUME ChannelInv, BeatInv, RecvPong \/ RecvPing \/ \E e \in Ends : RecvOther(e)
  PROVE  BeatInv'
<1>1. Pings \in Nat /\ Pongs \in Nat /\ unanswered \in Int /\ "host" \in Ends /\ "container" \in Ends
  BY CountsTyped DEF Ends
<1>2. CASE RecvPong
  <2>1. /\ HasLine("host") /\ Current("host").kind = "pong" /\ sent' = sent
        /\ lines' = [lines EXCEPT !["host"] = @ + 1] /\ ended' = ended /\ alive' = alive
        /\ missed' = 0 /\ unanswered' = unanswered - 1
    BY <1>2 DEF RecvPong, Deliver, Skip
  <2>2. Pings' = Pings /\ Pongs' = Pongs - 1 /\ Pongs' \in Nat
    <3>1. Pings' = Pings - 0 /\ Pongs' = Pongs - 1
      BY <2>1, <1>1, CountsSkip
    <3>2. TypeOK'
      BY <1>2, RecvPreserves DEF ChannelInv
    <3>q. QED BY <3>1, <3>2, <1>1, CountsTypedNext
  <2>3. Pings' + Pongs' <= unanswered' /\ missed' <= unanswered'
    BY <2>1, <2>2, <1>1 DEF BeatInv
  <2>4. HeartbeatSparesLive'
    BY <2>1 DEF BeatInv, HeartbeatSparesLive
  <2>q. QED BY <2>3, <2>4 DEF BeatInv
<1>3. CASE RecvPing
  <2>1. /\ HasLine("container") /\ Current("container").kind = "ping"
        /\ sent' = [sent EXCEPT !["host"] = Append(@, Pong)]
        /\ lines' = [lines EXCEPT !["container"] = @ + 1] /\ ended' = ended
        /\ missed' = missed /\ unanswered' = unanswered /\ alive' = alive
    BY <1>3 DEF RecvPing, Deliver, Skip, Put, Peer, beatVars
  <2>2. Pong \in Messages /\ Pong.kind = "pong" /\ DOMAIN sent = Ends /\ DOMAIN lines = Ends
    BY ChannelAssumption DEF Pong, Messages, ChannelInv, TypeOK
  <2>3. /\ sent'["host"] = Append(sent["host"], Pong) /\ lines'["host"] = lines["host"]
        /\ sent'["container"] = sent["container"] /\ lines'["container"] = lines["container"] + 1
    BY <2>1, <2>2, <1>1
  <2>4. Pongs' = Pongs + 1
    BY <2>2, <2>3, <1>1, UnreadAppend DEF Pongs
  <2>5. Pings' = Pings - 1
    BY <2>1, <2>3, <1>1, UnreadSkip DEF Pings
  <2>6. Pings' + Pongs' <= unanswered'
    BY <2>1, <2>4, <2>5, <1>1 DEF BeatInv
  <2>7. HeartbeatSparesLive' /\ (ended'["host"] = "no" => missed' <= unanswered')
    BY <2>1 DEF BeatInv, HeartbeatSparesLive
  <2>q. QED BY <2>6, <2>7 DEF BeatInv
<1>4. ASSUME NEW e \in Ends, RecvOther(e) PROVE BeatInv'
  <2>1. /\ HasLine(e) /\ Current(e).kind = "data" /\ sent' = sent
        /\ lines' = [lines EXCEPT ![e] = @ + 1] /\ ended' = ended
        /\ missed' = missed /\ unanswered' = unanswered /\ alive' = alive
    BY <1>4 DEF RecvOther, Deliver, Skip, beatVars
  <2>2. Pings' = Pings /\ Pongs' = Pongs
    <3>1. Pings' = Pings - 0 /\ Pongs' = Pongs - 0
      BY <2>1, CountsSkip
    <3>q. QED BY <3>1, <1>1
  <2>3. Pings' + Pongs' <= Pings + Pongs
    BY <2>2, <1>1
  <2>q. QED BY <2>1, <2>2, <2>3, <1>1, BeatGoesOn
<1>q. QED BY <1>2, <1>3, <1>4

\* The heart of the matter: the tick that gives up finds more unanswered Pings
\* than a live container leaves.
LEMMA TickBeat ==
  ASSUME ChannelInv, BeatInv, Tick
  PROVE  BeatInv'
<1>1. /\ ended["host"] = "no" /\ InTime /\ lines' = lines /\ alive' = alive /\ missed' = missed + 1
      /\ missed <= unanswered
  BY DEF Tick, BeatInv
<1>2. Pings \in Nat /\ Pongs \in Nat /\ unanswered \in Int /\ missed \in Nat /\ "container" \in Ends
  BY CountsTyped DEF Ends
<1>3. CASE missed' > MaxMissedPongs
  <2>1. ended' = [ended EXCEPT !["host"] = "heartbeat"] /\ sent' = sent /\ unanswered' = unanswered
    BY <1>3 DEF Tick
  <2>2. ended'["host"] = "heartbeat" /\ ended'["container"] = ended["container"]
    BY <2>1 DEF ChannelInv, TypeOK, Ends
  <2>3. ~(unanswered <= Lag)
    BY <1>1, <1>2, <1>3, ChannelAssumption
  <2>4. HeartbeatSparesLive'
    BY <2>2, <2>3, <1>1 DEF InTime, HeartbeatSparesLive
  <2>5. Pings' = Pings /\ Pongs' = Pongs
    BY <2>1, <1>1, CountsSame
  <2>q. QED BY <2>1, <2>2, <2>4, <2>5 DEF BeatInv
<1>4. CASE ~(missed' > MaxMissedPongs)
  <2>1. /\ sent' = [sent EXCEPT !["container"] = Append(@, Ping)]
        /\ unanswered' = unanswered + 1 /\ ended' = ended
    BY <1>4 DEF Tick, Put, Peer
  <2>2. Ping \in Messages /\ Ping.kind = "ping"
    BY ChannelAssumption DEF Ping, Messages
  <2>3. Pings' = Pings + 1 /\ Pongs' = Pongs
    <3>1. Pings' = Pings + 1 /\ Pongs' = Pongs + 0
      BY <2>1, <2>2, <1>1, <1>2, CountsWrite
    <3>q. QED BY <3>1, <1>2
  <2>4. Pings' + Pongs' <= unanswered' /\ missed' <= unanswered'
    BY <2>1, <2>3, <1>1, <1>2 DEF BeatInv
  <2>5. HeartbeatSparesLive'
    BY <2>1, <1>1 DEF HeartbeatSparesLive
  <2>q. QED BY <2>4, <2>5 DEF BeatInv
<1>q. QED BY <1>3, <1>4

LEMMA StepBeat == ASSUME ChannelInv, BeatInv, [Next]_vars PROVE BeatInv'
<1>1. ASSUME NEW e \in Ends, Reading(e) PROVE BeatInv'
  BY <1>1, QuietSteps, ReadErrorBeat, RecvBeat DEF Reading
<1>2. ASSUME NEW e \in Ends, Interrupt(e) PROVE BeatInv'
  BY <1>2, QuietSteps
<1>3. ASSUME NEW e \in Ends, NEW n \in Bodies, Write(e, n) PROVE BeatInv'
  BY <1>3, WriteBeat
<1>4. ASSUME NEW n \in Bodies, ForeignWrite(n) PROVE BeatInv'
  BY <1>4, WriteBeat
<1>5. CASE Protocol
  BY <1>5, RecvBeat, TickBeat DEF Protocol
<1>6. CASE Freeze \/ UNCHANGED vars
  <2>1. "host" \in Ends
    BY DEF Ends
  <2>q. QED BY <2>1, <1>6, QuietSteps
<1>q. QED BY <1>1, <1>2, <1>3, <1>4, <1>5, <1>6 DEF Next

\* handle_container_messages: whatever is written, cancelled or skipped on the
\* connection, for every MAX_MISSED_PONGS and every delay below it, the
\* heartbeat never drops a container that answers in time.
THEOREM HeartbeatSparesLiveHolds == Spec => []HeartbeatSparesLive
<1>1. Init => ChannelInv /\ BeatInv
  BY InitInv, InitBeat
<1>2. ChannelInv /\ BeatInv /\ [Next]_vars => ChannelInv' /\ BeatInv'
  BY StepPreserves, StepBeat
<1>3. BeatInv => HeartbeatSparesLive
  BY DEF BeatInv
<1>q. QED BY <1>1, <1>2, <1>3, PTL DEF Spec
=============================================================================
