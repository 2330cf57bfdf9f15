---------------------------- MODULE CalibrationProofs ----------------------------
(* Theorems about Calibration, for every value of its constants.           *)
EXTENDS Calibration, TLAPS, CommonLemmas, FiniteSetTheorems
--------------------------------------------------------------------------------
(* Types.                                                                  *)

\* Taking a report leaves a queue of reports and nothing else.
LEMMA TakesType ==
  ASSUME TypeOK, Takes
  PROVE  /\ Head(in) \in Report /\ Head(in) = in[1] /\ 1 \in DOMAIN in
         /\ in' \in Seq(Report) /\ Len(in') <= InCap
         /\ UNCHANGED <<kind, board, refused, relinked, statuses>>
  <1>1. /\ in \in Seq(Report) /\ in # <<>> /\ in' = Tail(in)
        /\ Len(in) <= InCap /\ InCap \in Nat
    BY CalibrationAssumption DEF TypeOK, Takes
  <1>2. Len(in') <= InCap
    BY <1>1, TailFacts, QueueFacts
  <1>. QED  BY <1>1, <1>2, TailFacts DEF Takes

\* A report that is sent or lost.
LEMMA SendsType ==
  ASSUME TypeOK, NEW o \in Outputs, Sends(o)
  PROVE  out' \in Seq(Outputs) /\ lost' \in BOOLEAN
  <1>1. CASE out' = Append(out, o) /\ UNCHANGED lost
    BY <1>1 DEF TypeOK
  <1>2. CASE lost' = TRUE /\ UNCHANGED out
    BY <1>2 DEF TypeOK
  <1>. QED  BY <1>1, <1>2 DEF Sends

\* What a report carries fits where the object stores it.
LEMMA OnDataType ==
  ASSUME TypeOK, OnData
  PROVE  TypeOK'
  <1>. USE DEF object
  <1>1. Takes
    BY DEF OnData, Weigh, StartQuery, DisableEncryption, Acked, CheckId, TakeLow, TakeHigh,
           TakeTemperature, Ignore, Handles
  <1>2. /\ Head(in) \in Report /\ in' \in Seq(Report) /\ Len(in') <= InCap
        /\ UNCHANGED <<kind, board, refused, relinked, statuses>>
    BY <1>1, TakesType
  <1>3. Head(in).block \in Blocks /\ Head(in).byte \in Byte
    BY <1>2 DEF Report
  <1>4. ASSUME NEW state \in 0 .. 6, NEW o \in Outputs, Await(state, o)
        PROVE  queryState' \in 0 .. 6 /\ out' \in Seq(Outputs) /\ lost' \in BOOLEAN
    BY <1>4, SendsType DEF Await
  <1>5. Abandon => queryState' \in 0 .. 6 /\ out' \in Seq(Outputs) /\ lost' \in BOOLEAN
    BY DEF Abandon, TypeOK
  <1>6. /\ {"Write1", "Write2", "ReadId", "ReadLow", "ReadHigh", "ReadTemperature",
             "SetMode"} \subseteq Outputs
        /\ {0, 1, 2, 3, 4, 5, 6} \subseteq 0 .. 6
    BY DEF Outputs, Requests
  <1>7. CASE Weigh \/ Ignore
    BY <1>2, <1>7 DEF Weigh, Ignore, TypeOK
  <1>8. CASE StartQuery
    BY <1>2, <1>4, <1>6, <1>8 DEF StartQuery, TypeOK
  <1>9. CASE DisableEncryption
    BY <1>2, <1>4, <1>5, <1>6, <1>9 DEF DisableEncryption, Acked, TypeOK
  <1>10. CASE CheckId
    BY <1>2, <1>4, <1>5, <1>6, <1>10 DEF CheckId, TypeOK
  <1>11. CASE TakeLow
    BY <1>2, <1>3, <1>4, <1>6, <1>11 DEF TakeLow, TypeOK
  <1>12. CASE TakeHigh
    BY <1>2, <1>3, <1>4, <1>6, <1>12 DEF TakeHigh, TypeOK
  <1>13. CASE TakeTemperature
    BY <1>2, <1>3, <1>4, <1>6, <1>13 DEF TakeTemperature, TypeOK
  <1>. QED  BY <1>7, <1>8, <1>9, <1>10, <1>11, <1>12, <1>13 DEF OnData

\* A report that the board sends.
LEMMA DeliversType ==
  ASSUME TypeOK, NEW id \in {"status", "ack", "read", "weights", "buttons"},
         NEW ok \in BOOLEAN, NEW block \in Blocks, NEW byte \in Byte,
         Delivers(id, ok, block, byte)
  PROVE  in' \in Seq(Report) /\ Len(in') <= InCap
  <1>. DEFINE r == [id |-> id, ok |-> ok, block |-> block, byte |-> byte]
  <1>1. r \in Report
    BY DEF Report
  <1>2. in \in Seq(Report) /\ in' = Append(in, r) /\ Len(in) < InCap /\ InCap \in Nat
    BY CalibrationAssumption DEF TypeOK, Delivers
  <1>. HIDE DEF r
  <1>3. in' \in Seq(Report) /\ Len(in') = Len(in) + 1 /\ Len(in) \in Nat
    BY <1>1, <1>2, AppendFacts, QueueFacts
  <1>. QED  BY <1>2, <1>3

\* A step of the board.
BoardSteps ==
  \/ BoardAnswers
  \/ \E extension \in BOOLEAN, byte \in Bytes : BoardStatus(extension, byte)
  \/ \E byte \in Bytes : BoardButtons(byte) \/ BoardWeights(byte)
  \/ Reconnect

LEMMA BoardStepsType ==
  ASSUME TypeOK, BoardSteps
  PROVE  TypeOK'
  <1>. USE DEF object
  <1>1. /\ Bytes \subseteq Byte /\ BoardTemperature \in Byte /\ 0 \in Byte
        /\ {"none", "id", "low", "high", "temperature"} = Blocks
        /\ InCap \in Nat
    BY CalibrationAssumption DEF Byte, Blocks
  <1>2. board \in Board /\ refused \subseteq Requests
    BY DEF TypeOK
  <1>3. ASSUME NEW o, Executes(o)
        PROVE  /\ out' \in Seq(Outputs)
               /\ UNCHANGED <<object, lost, kind, relinked, statuses>>
    BY <1>3, TailFacts DEF Executes, TypeOK
  <1>4. ASSUME NEW o \in {"Write1", "Write2"}, BoardWrites(o)
        PROVE  TypeOK'
    <2>1. in' \in Seq(Report) /\ Len(in') <= InCap
      BY <1>1, <1>4, DeliversType DEF BoardWrites
    <2>2. board' \in Board
      <3>1. Disables(o) \in 0 .. 2
        BY DEF Disables
      <3>. QED  BY <1>2, <1>4, <3>1 DEF BoardWrites, Board
    <2>3. refused' \subseteq Requests
      BY <1>2, <1>4 DEF BoardWrites, Refuses, Requests
    <2>. QED  BY <1>3, <1>4, <2>1, <2>2, <2>3 DEF BoardWrites, TypeOK
  <1>5. ASSUME BoardReadsId
        PROVE  TypeOK'
    <2>1. in' \in Seq(Report) /\ Len(in') <= InCap
      BY <1>1, <1>5, DeliversType DEF BoardReadsId
    <2>2. board' \in Board /\ refused' \subseteq Requests
      BY <1>2, <1>5 DEF BoardReadsId, Refuses, Board, Requests
    <2>. QED  BY <1>3, <1>5, <2>1, <2>2 DEF BoardReadsId, TypeOK
  <1>6. ASSUME NEW o \in Reads, NEW block \in Blocks, NEW byte \in Byte,
               BoardReads(o, block, byte)
        PROVE  TypeOK'
    <2>1. in' \in Seq(Report) /\ Len(in') <= InCap
      BY <1>1, <1>6, DeliversType DEF BoardReads
    <2>2. refused' \subseteq Requests
      BY <1>2, <1>6 DEF BoardReads, Refuses, Reads, Requests
    <2>. QED  BY <1>3, <1>6, <2>1, <2>2 DEF BoardReads, TypeOK
  <1>7. ASSUME BoardSetsMode
        PROVE  TypeOK'
    <2>1. board' \in Board
      BY <1>2, <1>7 DEF BoardSetsMode, Board
    <2>. QED  BY <1>3, <1>7, <2>1 DEF BoardSetsMode, TypeOK
  <1>8. CASE BoardAnswers
    <2>1. {"ReadLow", "ReadHigh", "ReadTemperature"} = Reads
      BY DEF Reads
    <2>2. \A byte \in Bytes : BoardReads("ReadLow", "low", byte) => TypeOK'
      BY <1>1, <1>6, <2>1
    <2>3. \A byte \in Bytes : BoardReads("ReadHigh", "high", byte) => TypeOK'
      BY <1>1, <1>6, <2>1
    <2>4. BoardReads("ReadTemperature", "temperature", BoardTemperature) => TypeOK'
      BY <1>1, <1>6, <2>1
    <2>. QED  BY <1>4, <1>5, <1>7, <1>8, <2>2, <2>3, <2>4 DEF BoardAnswers
  <1>9. ASSUME NEW extension \in BOOLEAN, NEW byte \in Bytes,
               BoardStatus(extension, byte) \/ BoardButtons(byte) \/ BoardWeights(byte)
        PROVE  TypeOK'
    <2>1. in' \in Seq(Report) /\ Len(in') <= InCap
      BY <1>1, <1>9, DeliversType DEF BoardStatus, BoardButtons, BoardWeights
    <2>2. statuses' = statuses + 1 \/ statuses' = statuses
      BY <1>9 DEF BoardStatus, BoardButtons, BoardWeights
    <2>3. UNCHANGED <<object, out, lost, kind, board, refused, relinked>>
      BY <1>9 DEF BoardStatus, BoardButtons, BoardWeights
    <2>4. statuses' \in Nat
      BY <2>2 DEF TypeOK
    <2>. QED  BY <2>1, <2>3, <2>4 DEF TypeOK
  <1>10. CASE Reconnect
    <2>1. board' \in Board
      BY <1>10 DEF Reconnect, Board
    <2>2. lost' \in BOOLEAN /\ relinked' \in BOOLEAN /\ statuses' \in Nat
      BY <1>10 DEF Reconnect, TypeOK
    <2>. QED  BY <1>1, <1>10, <2>1, <2>2 DEF Reconnect, TypeOK
  <1>. QED  BY <1>8, <1>9, <1>10 DEF BoardSteps

\* The state of the dialogue is one of seven, what it stores comes from
\* reports, and the queues keep to their bounds.
THEOREM TypeCorrect == Spec => []TypeOK
  <1>1. Init => TypeOK
    <2>. SUFFICES ASSUME Init PROVE TypeOK
      OBVIOUS
    <2>1. /\ board \in Board /\ queryState \in 0 .. 6 /\ referenceTemperature \in Byte
          /\ low \in Blocks /\ high \in Blocks /\ kind \in Kinds /\ statuses \in Nat
      BY DEF Init, Board, Byte, Blocks
    <2>2. out \in Seq(Outputs) /\ in \in Seq(Report) /\ Len(in) <= InCap
      BY CalibrationAssumption DEF Init
    <2>3. lost \in BOOLEAN /\ relinked \in BOOLEAN /\ refused \subseteq Requests
      BY DEF Init
    <2>. QED  BY <2>1, <2>2, <2>3 DEF TypeOK
  <1>2. TypeOK /\ [Next]_vars => TypeOK'
    <2>1. CASE UNCHANGED vars
      BY <2>1 DEF vars, object, TypeOK
    <2>. QED  BY <2>1, OnDataType, BoardStepsType DEF Next, BoardSteps
  <1>. QED  BY <1>1, <1>2, PTL DEF Spec
--------------------------------------------------------------------------------
(* The inductive invariant of the dialogue, as long as it is undisturbed.  *)

IsAnswer(r) == r.id \in {"ack", "read"}

NoAnswer == \A i \in DOMAIN in : ~IsAnswer(in[i])
NoRefusal == \A i \in DOMAIN in : IsAnswer(in[i]) => in[i].ok

\* A request on its way is the last thing that was sent, it is the one that
\* the object waits for, and it has no answer yet.
OneRequest ==
  \A i \in DOMAIN out : out[i] # "SetMode" =>
    i = Len(out) /\ queryState # 0 /\ out[i] = Awaited[queryState] /\ NoAnswer

OneAnswer == \A i, j \in DOMAIN in : IsAnswer(in[i]) /\ IsAnswer(in[j]) => i = j

\* What an answer on its way says, by the state that waits for it.
AnswerFits(r) ==
  /\ queryState # 0 /\ (r.id = "ack" <=> queryState \in 1 .. 2)
  /\ queryState = 3 /\ r.block = "id" => r.ok /\ kind = "balance" /\ board.disabled = 2
  /\ queryState >= 4 => r.ok
  /\ queryState = 4 => r.block = "low"
  /\ queryState = 5 => r.block = "high"
  /\ queryState = 6 => r.byte = BoardTemperature

AnswersFit == \A i \in DOMAIN in : IsAnswer(in[i]) => AnswerFits(in[i])

\* The board knows that it is in the middle of a dialogue, and everything it
\* sent before has been handled, from the second request on ...
Quiet ==
  queryState >= 2 /\ NoRefusal =>
    board.busy /\ \A i \in DOMAIN in : in[i].id = "weights" \/ IsAnswer(in[i])

\* ... since from its first answer on it sent nothing else.
QuietAfterAck ==
  \A i \in DOMAIN in : queryState = 1 /\ in[i].id = "ack" /\ in[i].ok =>
    board.busy /\ \A j \in DOMAIN in : i < j => in[j].id = "weights"

\* The order to send weights is on its way only between two dialogues.
ModeSetBetween ==
  (\E i \in DOMAIN out : out[i] = "SetMode") => queryState \in 0 .. 1 /\ NoAnswer

\* Weights are not taken for answers: they come only to a calibrated object.
WeightsWeighed ==
  \/ \E i \in DOMAIN out : out[i] = "SetMode"
  \/ board.weighing
  \/ \E i \in DOMAIN in : in[i].id = "weights"
  => referenceTemperature # 0

\* What has been read so far.
ReadSoFar ==
  /\ queryState >= 4 => kind = "balance" /\ board.disabled = 2
  /\ queryState >= 5 \/ referenceTemperature # 0 => low = "low"
  /\ queryState = 6 \/ referenceTemperature # 0 => high = "high" /\ kind = "balance"

\* Nothing gets stuck but by a loss.
SomethingPending ==
  ~lost /\ queryState # 0 => \/ \E i \in DOMAIN out : out[i] # "SetMode"
                             \/ \E i \in DOMAIN in : IsAnswer(in[i])

DialogueInv ==
  /\ OneRequest /\ OneAnswer /\ AnswersFit
  /\ Quiet /\ QuietAfterAck /\ ModeSetBetween /\ WeightsWeighed
  /\ ReadSoFar /\ SomethingPending

Inv == TypeOK /\ (Undisturbed => DialogueInv)
--------------------------------------------------------------------------------
(* Steps of the object.                                                    *)

\* The report at the head is the first, the others move up.
LEMMA TakesFacts ==
  ASSUME TypeOK, Takes
  PROVE  /\ Len(in) \in Nat /\ DOMAIN in = 1 .. Len(in) /\ 1 \in DOMAIN in
         /\ Head(in) = in[1]
         /\ DOMAIN in' = 1 .. Len(in) - 1
         /\ \A i \in DOMAIN in' : i + 1 \in DOMAIN in /\ i + 1 # 1 /\ in'[i] = in[i + 1]
         /\ UNCHANGED <<kind, board>>
  <1>1. in \in Seq(Report) /\ in # <<>> /\ in' = Tail(in) /\ UNCHANGED <<kind, board>>
    BY DEF TypeOK, Takes
  <1>. QED  BY <1>1, QueueFacts, TailFacts

\* When the answer is taken, no other is on its way, and no request.
LEMMA AnswerTaken ==
  ASSUME TypeOK, DialogueInv, Takes, IsAnswer(Head(in))
  PROVE  out = <<>> /\ NoAnswer' /\ queryState \in 1 .. 6
  <1>1. ~NoAnswer
    BY TakesFacts DEF NoAnswer
  <1>2. DOMAIN out = {}
    BY <1>1 DEF DialogueInv, OneRequest, ModeSetBetween
  <1>3. out = <<>>
    BY <1>2, QueueFacts DEF TypeOK
  <1>4. NoAnswer'
    BY TakesFacts DEF NoAnswer, DialogueInv, OneAnswer
  <1>5. queryState # 0
    BY TakesFacts DEF DialogueInv, AnswersFit, AnswerFits
  <1>. QED  BY <1>3, <1>4, <1>5 DEF TypeOK

\* A report that is no answer changes nothing that matters.
LEMMA Discarded ==
  ASSUME TypeOK, DialogueInv, Takes, ~IsAnswer(Head(in)), UNCHANGED <<object, out, lost>>
  PROVE  DialogueInv'
  <1>0. UNCHANGED <<queryState, low, high, referenceTemperature, out, lost, kind, board>>
    BY TakesFacts DEF object
  <1>1. NoAnswer' <=> NoAnswer
    <2>1. ASSUME NEW i \in DOMAIN in, IsAnswer(in[i])
          PROVE  i - 1 \in DOMAIN in' /\ in'[i - 1] = in[i]
      BY <2>1, TakesFacts
    <2>. QED  BY <2>1, TakesFacts DEF NoAnswer
  <1>2. NoRefusal' => NoRefusal
    <2>1. ASSUME NEW i \in DOMAIN in, IsAnswer(in[i])
          PROVE  i - 1 \in DOMAIN in' /\ in'[i - 1] = in[i]
      BY <2>1, TakesFacts
    <2>. QED  BY <2>1 DEF NoRefusal
  <1>3. OneRequest' /\ ModeSetBetween'
    BY <1>0, <1>1 DEF DialogueInv, OneRequest, ModeSetBetween
  <1>4. OneAnswer'
    <2>. SUFFICES ASSUME NEW i \in DOMAIN in', NEW j \in DOMAIN in',
                         IsAnswer(in'[i]), IsAnswer(in'[j])
                  PROVE  i = j
      BY DEF OneAnswer
    <2>1. i + 1 = j + 1
      BY TakesFacts DEF DialogueInv, OneAnswer
    <2>. QED  BY <2>1, TakesFacts
  <1>5. AnswersFit'
    BY <1>0, TakesFacts DEF DialogueInv, AnswersFit, AnswerFits
  <1>6. Quiet'
    BY <1>0, <1>2, TakesFacts DEF DialogueInv, Quiet
  <1>7. QuietAfterAck'
    <2>. SUFFICES ASSUME NEW i \in DOMAIN in', queryState' = 1, in'[i].id = "ack", in'[i].ok
                  PROVE  board'.busy /\ \A j \in DOMAIN in' : i < j => in'[j].id = "weights"
      BY DEF QuietAfterAck
    <2>1. board.busy /\ \A j \in DOMAIN in : i + 1 < j => in[j].id = "weights"
      BY <1>0, TakesFacts DEF DialogueInv, QuietAfterAck
    <2>. QED  BY <1>0, <2>1, TakesFacts
  <1>8. WeightsWeighed'
    BY <1>0, TakesFacts DEF DialogueInv, WeightsWeighed
  <1>9. ReadSoFar'
    BY <1>0 DEF DialogueInv, ReadSoFar
  <1>10. SomethingPending'
    BY <1>0, <1>1 DEF DialogueInv, SomethingPending, NoAnswer
  <1>. QED  BY <1>3, <1>4, <1>5, <1>6, <1>7, <1>8, <1>9, <1>10 DEF DialogueInv

\* The conjuncts that do not speak of what has been read.
RequestInv ==
  /\ OneRequest /\ OneAnswer /\ AnswersFit
  /\ Quiet /\ QuietAfterAck /\ ModeSetBetween /\ WeightsWeighed /\ SomethingPending

\* A good answer leads to the next request.
LEMMA RequestSent ==
  ASSUME TypeOK, DialogueInv, Takes, IsAnswer(Head(in)), Head(in).ok,
         NEW state \in 2 .. 6, queryState = state - 1, Await(state, Awaited[state]),
         UNCHANGED referenceTemperature
  PROVE  RequestInv'
  <1>1. out = <<>> /\ NoAnswer' /\ queryState' = state
    BY AnswerTaken DEF Await
  <1>2. \/ out' = <<Awaited[state]>> /\ lost' = lost
        \/ out' = <<>> /\ lost'
    BY <1>1 DEF Await, Sends
  <1>3. Awaited[state] # "SetMode"
    BY DEF Awaited
  <1>4. OneRequest' /\ ModeSetBetween' /\ SomethingPending'
    <2>1. CASE out' = <<>> /\ lost'
      BY <2>1 DEF OneRequest, ModeSetBetween, SomethingPending
    <2>2. CASE out' = <<Awaited[state]>>
      <3>1. DOMAIN out' = {1} /\ Len(out') = 1 /\ out'[1] = Awaited[state]
        BY <2>2
      <3>2. OneRequest'
        BY <1>1, <3>1 DEF OneRequest
      <3>3. ModeSetBetween' /\ SomethingPending'
        BY <1>3, <3>1 DEF ModeSetBetween, SomethingPending
      <3>. QED  BY <3>2, <3>3
    <2>. QED  BY <1>2, <2>1, <2>2
  <1>5. OneAnswer' /\ AnswersFit' /\ QuietAfterAck'
    BY <1>1 DEF NoAnswer, OneAnswer, AnswersFit, QuietAfterAck, IsAnswer
  <1>6. board.busy /\ \A j \in DOMAIN in : j # 1 => in[j].id = "weights"
    <2>1. CASE state = 2
      <3>1. in[1].id = "ack"
        BY <2>1, TakesFacts DEF DialogueInv, AnswersFit, AnswerFits
      <3>. QED  BY <2>1, <3>1, TakesFacts DEF DialogueInv, QuietAfterAck
    <2>2. CASE state # 2
      <3>1. \A i \in DOMAIN in : IsAnswer(in[i]) => i = 1
        BY TakesFacts DEF DialogueInv, OneAnswer
      <3>2. NoRefusal
        BY <3>1, TakesFacts DEF NoRefusal
      <3>. QED  BY <2>2, <3>1, <3>2 DEF DialogueInv, Quiet
    <2>. QED  BY <2>1, <2>2
  <1>7. Quiet'
    BY <1>6, TakesFacts DEF Quiet
  <1>8. WeightsWeighed'
    BY <1>2, <1>3, TakesFacts DEF DialogueInv, WeightsWeighed
  <1>. QED  BY <1>4, <1>5, <1>7, <1>8 DEF RequestInv

\* After an answer that ends the dialogue, with what out' then is.
LEMMA DialogueOver ==
  ASSUME TypeOK, DialogueInv, Takes, IsAnswer(Head(in)), queryState' = 0,
         \A i \in DOMAIN out' : out'[i] = "SetMode",
         out' # <<>> => referenceTemperature' # 0,
         referenceTemperature # 0 => referenceTemperature' # 0
  PROVE  RequestInv'
  <1>1. NoAnswer'
    BY AnswerTaken
  <1>2. OneRequest' /\ ModeSetBetween' /\ SomethingPending'
    BY <1>1 DEF OneRequest, ModeSetBetween, SomethingPending
  <1>3. OneAnswer' /\ AnswersFit' /\ QuietAfterAck' /\ Quiet'
    BY <1>1 DEF NoAnswer, OneAnswer, AnswersFit, QuietAfterAck, Quiet, IsAnswer
  <1>4. WeightsWeighed'
    BY TakesFacts DEF DialogueInv, WeightsWeighed
  <1>. QED  BY <1>2, <1>3, <1>4 DEF RequestInv

\* In the last three cases the report at the head is the answer.
LEMMA HeadIsAnswer ==
  ASSUME TypeOK, DialogueInv, NEW state \in 4 .. 6, Handles(state)
  PROVE  /\ IsAnswer(Head(in)) /\ Head(in).ok /\ AnswerFits(Head(in)) /\ queryState = state
  <1>1. Takes /\ queryState = state /\ ~Weighed(Head(in))
    BY DEF Handles
  <1>2. NoRefusal
    BY <1>1 DEF NoRefusal, DialogueInv, AnswersFit, AnswerFits
  <1>3. in[1].id = "weights" \/ IsAnswer(in[1])
    BY <1>1, <1>2, TakesFacts DEF DialogueInv, Quiet
  <1>4. in[1].id # "weights"
    BY <1>1, TakesFacts DEF DialogueInv, WeightsWeighed, Weighed
  <1>. QED  BY <1>1, <1>3, <1>4, TakesFacts DEF DialogueInv, AnswersFit, AnswerFits

\* The object keeps the invariant, whatever report it handles.
LEMMA OnDataInv ==
  ASSUME TypeOK, DialogueInv, OnData, BoardTemperature # 0
  PROVE  DialogueInv'
  <1>. USE DEF Handles
  <1>1. CASE Weigh
    <2>1. ~IsAnswer(Head(in))
      BY <1>1 DEF Weigh, Weighed, IsAnswer
    <2>. QED  BY <1>1, <2>1, Discarded DEF Weigh
  <1>2. CASE StartQuery
    <2>1. /\ Takes /\ queryState = 0 /\ queryState' = 1 /\ Sends("Write1")
          /\ UNCHANGED <<low, high, referenceTemperature, kind, board>>
      BY <1>2, TakesFacts DEF StartQuery, Await
    <2>2. NoAnswer /\ \A i \in DOMAIN out : out[i] = "SetMode"
      BY <2>1 DEF DialogueInv, OneRequest, AnswersFit, AnswerFits, NoAnswer
    <2>3. NoAnswer'
      BY <2>1, <2>2, TakesFacts DEF NoAnswer
    <2>4. /\ \A i \in DOMAIN out' : out'[i] = "SetMode" \/ (i = Len(out') /\ out'[i] = "Write1")
          /\ (\E i \in DOMAIN out' : out'[i] = "SetMode") => \E i \in DOMAIN out : out[i] = "SetMode"
          /\ lost' \/ \E i \in DOMAIN out' : out'[i] = "Write1"
      <3>1. CASE lost' = TRUE /\ UNCHANGED out
        BY <2>2, <3>1
      <3>2. CASE out' = Append(out, "Write1")
        <4>1. out \in Seq(Outputs) /\ "Write1" \in Outputs
          BY DEF TypeOK, Outputs, Requests
        <4>. QED  BY <2>2, <3>2, <4>1, AppendFacts, QueueFacts
      <3>. QED  BY <2>1, <3>1, <3>2 DEF Sends
    <2>5. OneRequest' /\ ModeSetBetween' /\ SomethingPending'
      <3>1. Awaited[1] = "Write1"
        BY DEF Awaited
      <3>. QED  BY <2>1, <2>3, <2>4, <3>1 DEF OneRequest, ModeSetBetween, SomethingPending
    <2>6. OneAnswer' /\ AnswersFit' /\ QuietAfterAck' /\ Quiet'
      BY <2>1, <2>3 DEF NoAnswer, OneAnswer, AnswersFit, QuietAfterAck, Quiet, IsAnswer
    <2>7. WeightsWeighed'
      BY <2>1, <2>4, TakesFacts DEF DialogueInv, WeightsWeighed
    <2>8. ReadSoFar'
      BY <2>1 DEF DialogueInv, ReadSoFar
    <2>. QED  BY <2>5, <2>6, <2>7, <2>8 DEF DialogueInv
  <1>3. ASSUME IsAnswer(Head(in)), Takes, Abandon, UNCHANGED <<low, high, referenceTemperature>>
        PROVE  DialogueInv'
    <2>1. out' = <<>> /\ queryState' = 0
      BY <1>3, AnswerTaken DEF Abandon
    <2>2. RequestInv'
      BY <1>3, <2>1, DialogueOver
    <2>3. ReadSoFar'
      BY <1>3, <2>1, TakesFacts DEF DialogueInv, ReadSoFar
    <2>. QED  BY <2>2, <2>3 DEF DialogueInv, RequestInv
  <1>4. ASSUME NEW state \in 1 .. 2, Acked(state, state + 1, Awaited[state + 1]),
               UNCHANGED <<low, high, referenceTemperature>>
        PROVE  DialogueInv'
    <2>1. Takes /\ queryState = state /\ IsAnswer(Head(in))
      BY <1>4 DEF Acked, IsAnswer
    <2>2. CASE ~Head(in).ok /\ Abandon
      BY <1>3, <1>4, <2>1, <2>2
    <2>3. CASE Head(in).ok /\ Await(state + 1, Awaited[state + 1])
      <3>1. RequestInv'
        <4>1. state + 1 \in 2 .. 6 /\ queryState = (state + 1) - 1
          BY <2>1
        <4>. QED  BY <1>4, <2>1, <2>3, <4>1, RequestSent
      <3>2. ReadSoFar'
        BY <1>4, <2>1, <2>3, TakesFacts DEF DialogueInv, ReadSoFar, Await
      <3>. QED  BY <3>1, <3>2 DEF DialogueInv, RequestInv
    <2>. QED  BY <1>4, <2>2, <2>3 DEF Acked
  <1>5. CASE DisableEncryption
    <2>1. Awaited[1 + 1] = "Write2" /\ Awaited[2 + 1] = "ReadId" /\ 1 + 1 = 2 /\ 2 + 1 = 3
      BY DEF Awaited
    <2>. QED  BY <1>4, <1>5, <2>1 DEF DisableEncryption
  <1>6. CASE CheckId
    <2>1. /\ Takes /\ queryState = 3 /\ IsAnswer(Head(in))
          /\ UNCHANGED <<low, high, referenceTemperature>>
      BY <1>6 DEF CheckId, IsAnswer
    <2>2. CASE Abandon
      BY <1>3, <2>1, <2>2
    <2>3. CASE Head(in).block = "id" /\ Await(4, "ReadLow")
      <3>1. Head(in).ok /\ kind = "balance" /\ board.disabled = 2
        BY <2>1, <2>3, TakesFacts DEF DialogueInv, AnswersFit, AnswerFits
      <3>2. RequestInv'
        <4>1. 4 \in 2 .. 6 /\ queryState = 4 - 1 /\ Awaited[4] = "ReadLow"
          BY <2>1 DEF Awaited
        <4>. QED  BY <2>1, <2>3, <3>1, <4>1, RequestSent
      <3>3. ReadSoFar'
        BY <2>1, <2>3, <3>1, TakesFacts DEF DialogueInv, ReadSoFar, Await
      <3>. QED  BY <3>2, <3>3 DEF DialogueInv, RequestInv
    <2>. QED  BY <1>6, <2>2, <2>3 DEF CheckId
  <1>7. CASE TakeLow
    <2>1. /\ Takes /\ IsAnswer(Head(in)) /\ Head(in).ok /\ queryState = 4
          /\ Head(in).block = "low"
      BY <1>7, HeadIsAnswer DEF TakeLow, AnswerFits
    <2>2. RequestInv'
      <3>1. 5 \in 2 .. 6 /\ queryState = 5 - 1 /\ Awaited[5] = "ReadHigh"
        BY <2>1 DEF Awaited
      <3>. QED  BY <1>7, <2>1, <3>1, RequestSent DEF TakeLow
    <2>3. ReadSoFar'
      BY <1>7, <2>1, TakesFacts DEF TakeLow, DialogueInv, ReadSoFar, Await
    <2>. QED  BY <2>2, <2>3 DEF DialogueInv, RequestInv
  <1>8. CASE TakeHigh
    <2>1. /\ Takes /\ IsAnswer(Head(in)) /\ Head(in).ok /\ queryState = 5
          /\ Head(in).block = "high"
      BY <1>8, HeadIsAnswer DEF TakeHigh, AnswerFits
    <2>2. RequestInv'
      <3>1. 6 \in 2 .. 6 /\ queryState = 6 - 1 /\ Awaited[6] = "ReadTemperature"
        BY <2>1 DEF Awaited
      <3>. QED  BY <1>8, <2>1, <3>1, RequestSent DEF TakeHigh
    <2>3. ReadSoFar'
      BY <1>8, <2>1, TakesFacts DEF TakeHigh, DialogueInv, ReadSoFar, Await
    <2>. QED  BY <2>2, <2>3 DEF DialogueInv, RequestInv
  <1>9. CASE TakeTemperature
    <2>1. /\ Takes /\ IsAnswer(Head(in)) /\ queryState = 6 /\ queryState' = 0
          /\ referenceTemperature' = BoardTemperature /\ Sends("SetMode")
          /\ UNCHANGED <<low, high>>
      BY <1>9, HeadIsAnswer DEF TakeTemperature, AnswerFits, Await
    <2>2. out = <<>>
      BY <2>1, AnswerTaken
    <2>3. \A i \in DOMAIN out' : out'[i] = "SetMode"
      BY <2>1, <2>2 DEF Sends
    <2>4. RequestInv'
      BY <2>1, <2>3, DialogueOver
    <2>5. ReadSoFar'
      BY <2>1, TakesFacts DEF DialogueInv, ReadSoFar
    <2>. QED  BY <2>4, <2>5 DEF DialogueInv, RequestInv
  <1>10. CASE Ignore
    <2>1. Takes /\ UNCHANGED <<object, out, lost>>
      BY <1>10 DEF Ignore
    <2>2. ~IsAnswer(Head(in))
      <3>1. IsAnswer(Head(in)) => AnswerFits(Head(in))
        BY <2>1, TakesFacts DEF DialogueInv, AnswersFit
      <3>. QED  BY <1>10, <3>1 DEF Ignore, AnswerFits, IsAnswer
    <2>. QED  BY <2>1, <2>2, Discarded
  <1>. QED  BY <1>1, <1>2, <1>5, <1>6, <1>7, <1>8, <1>9, <1>10 DEF OnData
--------------------------------------------------------------------------------
(* Steps of the board.                                                     *)

\* A report that the board adds is the last, the others stay where they are.
LEMMA DeliversFacts ==
  ASSUME TypeOK, NEW r \in Report, in' = Append(in, r)
  PROVE  /\ Len(in) \in Nat /\ DOMAIN in = 1 .. Len(in)
         /\ DOMAIN in' = 1 .. Len(in) + 1 /\ in'[Len(in) + 1] = r
         /\ \A i \in DOMAIN in : i \in DOMAIN in' /\ in'[i] = in[i]
         /\ \A i \in DOMAIN in' : i \in DOMAIN in \/ i = Len(in) + 1
  BY AppendFacts, QueueFacts DEF TypeOK

\* When the board takes a request there is nothing else on its way to it, and
\* no answer on its way back.
LEMMA RequestTaken ==
  ASSUME TypeOK, DialogueInv, NEW o \in Requests, Executes(o)
  PROVE  /\ out' = <<>> /\ NoAnswer
         /\ queryState \in 1 .. 6 /\ o = Awaited[queryState]
         /\ UNCHANGED <<queryState, low, high, referenceTemperature, lost, kind>>
  <1>1. /\ out \in Seq(Outputs) /\ out # <<>> /\ Head(out) = o /\ out' = Tail(out)
        /\ UNCHANGED <<queryState, low, high, referenceTemperature, lost, kind>>
    BY DEF TypeOK, Executes, object
  <1>2. o # "SetMode"
    BY DEF Requests
  <1>3. 1 \in DOMAIN out /\ out[1] = o
    BY <1>1, TailFacts
  <1>4. 1 = Len(out) /\ queryState # 0 /\ o = Awaited[queryState] /\ NoAnswer
    BY <1>2, <1>3 DEF DialogueInv, OneRequest
  <1>5. out' = <<>>
    <2>1. Tail(out) \in Seq(Outputs) /\ Len(Tail(out)) = 0
      BY <1>1, <1>4, TailFacts
    <2>. QED  BY <1>1, <2>1, QueueFacts
  <1>. QED  BY <1>1, <1>4, <1>5 DEF TypeOK

\* The board answers the request r, and does not forget what it knew.
LEMMA Answered ==
  ASSUME TypeOK, DialogueInv, NEW o \in Requests, Executes(o),
         NEW r \in Report, in' = Append(in, r), IsAnswer(r), AnswerFits(r)',
         r.ok => board'.busy, board'.weighing = board.weighing,
         queryState >= 4 => board'.disabled = board.disabled
  PROVE  DialogueInv'
  <1>1. /\ out' = <<>> /\ NoAnswer
        /\ queryState \in 1 .. 6
        /\ UNCHANGED <<queryState, low, high, referenceTemperature, lost, kind>>
    BY RequestTaken
  <1>2. \A i \in DOMAIN in' : IsAnswer(in'[i]) => i = Len(in) + 1 /\ in'[i] = r
    BY <1>1, DeliversFacts DEF NoAnswer
  <1>3. Len(in) + 1 \in DOMAIN in' /\ in'[Len(in) + 1] = r
    BY DeliversFacts
  <1>4. OneRequest' /\ ModeSetBetween'
    BY <1>1 DEF OneRequest, ModeSetBetween
  <1>5. OneAnswer' /\ AnswersFit'
    BY <1>2 DEF OneAnswer, AnswersFit
  <1>6. SomethingPending'
    BY <1>3 DEF SomethingPending
  <1>7. QuietAfterAck'
    BY <1>2, DeliversFacts DEF QuietAfterAck, IsAnswer
  <1>8. Quiet'
    <2>. SUFFICES ASSUME queryState' >= 2, NoRefusal'
                  PROVE  board'.busy /\ \A i \in DOMAIN in' : in'[i].id = "weights" \/ IsAnswer(in'[i])
      BY DEF Quiet
    <2>1. board'.busy
      BY <1>3 DEF NoRefusal
    <2>2. NoRefusal
      BY <1>1 DEF NoAnswer, NoRefusal
    <2>3. \A i \in DOMAIN in : in[i].id = "weights" \/ IsAnswer(in[i])
      BY <1>1, <2>2 DEF DialogueInv, Quiet
    <2>. QED  BY <2>1, <2>3, DeliversFacts
  <1>9. WeightsWeighed'
    <2>1. r.id # "weights"
      BY DEF IsAnswer
    <2>. QED  BY <1>1, <2>1, DeliversFacts DEF DialogueInv, WeightsWeighed
  <1>10. ReadSoFar'
    BY <1>1 DEF DialogueInv, ReadSoFar
  <1>. QED  BY <1>4, <1>5, <1>6, <1>7, <1>8, <1>9, <1>10 DEF DialogueInv

\* The board sends a report r of its own.
LEMMA Unasked ==
  ASSUME TypeOK, DialogueInv, NEW r \in Report, in' = Append(in, r), ~IsAnswer(r),
         IF r.id = "weights" THEN board.weighing ELSE ~board.busy,
         UNCHANGED <<object, out, lost, kind, board>>
  PROVE  DialogueInv'
  <1>0. UNCHANGED <<queryState, low, high, referenceTemperature, out, lost, kind, board>>
    BY DEF object
  <1>1. NoAnswer' <=> NoAnswer
    BY DeliversFacts DEF NoAnswer
  <1>2. NoRefusal' => NoRefusal
    BY DeliversFacts DEF NoRefusal
  <1>3. \A i \in DOMAIN in' : IsAnswer(in'[i]) => i \in DOMAIN in /\ in'[i] = in[i]
    BY DeliversFacts
  <1>4. OneRequest' /\ ModeSetBetween'
    BY <1>0, <1>1 DEF DialogueInv, OneRequest, ModeSetBetween
  <1>5. OneAnswer'
    BY <1>3 DEF DialogueInv, OneAnswer
  <1>6. AnswersFit'
    BY <1>0, <1>3 DEF DialogueInv, AnswersFit, AnswerFits
  <1>7. Quiet'
    BY <1>0, <1>2, DeliversFacts DEF DialogueInv, Quiet
  <1>8. QuietAfterAck'
    <2>. SUFFICES ASSUME NEW i \in DOMAIN in', queryState' = 1, in'[i].id = "ack", in'[i].ok
                  PROVE  board'.busy /\ \A j \in DOMAIN in' : i < j => in'[j].id = "weights"
      BY DEF QuietAfterAck
    <2>1. i \in DOMAIN in /\ in[i].id = "ack" /\ in[i].ok
      BY <1>3 DEF IsAnswer
    <2>2. board.busy /\ \A j \in DOMAIN in : i < j => in[j].id = "weights"
      BY <1>0, <2>1 DEF DialogueInv, QuietAfterAck
    <2>. QED  BY <1>0, <2>2, DeliversFacts
  <1>9. WeightsWeighed'
    BY <1>0, DeliversFacts DEF DialogueInv, WeightsWeighed
  <1>10. ReadSoFar'
    BY <1>0 DEF DialogueInv, ReadSoFar
  <1>11. SomethingPending'
    BY <1>0, DeliversFacts DEF DialogueInv, SomethingPending
  <1>. QED  BY <1>4, <1>5, <1>6, <1>7, <1>8, <1>9, <1>10, <1>11 DEF DialogueInv

\* The board starts to send weights.
LEMMA BoardSetsModeInv ==
  ASSUME TypeOK, DialogueInv, BoardSetsMode
  PROVE  DialogueInv'
  <1>1. /\ out \in Seq(Outputs) /\ out # <<>> /\ Head(out) = "SetMode" /\ out' = Tail(out)
        /\ UNCHANGED <<queryState, low, high, referenceTemperature, in, lost, kind>>
        /\ board' = [board EXCEPT !.weighing = TRUE, !.busy = FALSE]
    BY DEF TypeOK, BoardSetsMode, Executes, object
  <1>2. /\ 1 \in DOMAIN out /\ out[1] = "SetMode" /\ Len(out) \in Nat
        /\ DOMAIN out = 1 .. Len(out) /\ DOMAIN out' = 1 .. Len(out) - 1
        /\ Len(out') = Len(out) - 1
        /\ \A i \in DOMAIN out' : i + 1 \in DOMAIN out /\ out'[i] = out[i + 1]
    BY <1>1, QueueFacts, TailFacts
  <1>3. queryState \in 0 .. 1 /\ NoAnswer /\ referenceTemperature # 0
    BY <1>2 DEF DialogueInv, ModeSetBetween, WeightsWeighed
  <1>4. NoAnswer'
    BY <1>1, <1>3 DEF NoAnswer
  <1>5. OneRequest'
    <2>. SUFFICES ASSUME NEW i \in DOMAIN out', out'[i] # "SetMode"
                  PROVE  i = Len(out') /\ queryState' # 0 /\ out'[i] = Awaited[queryState']
      BY <1>4 DEF OneRequest
    <2>1. i + 1 = Len(out) /\ queryState # 0 /\ out[i + 1] = Awaited[queryState]
      BY <1>2 DEF DialogueInv, OneRequest
    <2>. QED  BY <1>1, <1>2, <2>1
  <1>6. SomethingPending'
    <2>1. ASSUME NEW i \in DOMAIN out, out[i] # "SetMode"
          PROVE  i - 1 \in DOMAIN out' /\ out'[i - 1] = out[i]
      BY <1>2, <2>1
    <2>. QED  BY <1>1, <2>1 DEF DialogueInv, SomethingPending
  <1>7. OneAnswer' /\ AnswersFit' /\ QuietAfterAck' /\ ModeSetBetween'
    BY <1>1, <1>3, <1>4 DEF NoAnswer, OneAnswer, AnswersFit, QuietAfterAck, ModeSetBetween, IsAnswer
  <1>8. Quiet' /\ WeightsWeighed'
    BY <1>1, <1>3 DEF Quiet, WeightsWeighed
  <1>9. ReadSoFar'
    BY <1>1, <1>3 DEF DialogueInv, ReadSoFar
  <1>. QED  BY <1>5, <1>6, <1>7, <1>8, <1>9 DEF DialogueInv

\* The request tells the state.
LEMMA AwaitedFacts ==
  ASSUME NEW q \in 1 .. 6
  PROVE  /\ Awaited[q] \in {"Write1", "Write2"} => q \in 1 .. 2
         /\ Awaited[q] = "ReadId" => q = 3
         /\ Awaited[q] = "ReadLow" => q = 4
         /\ Awaited[q] = "ReadHigh" => q = 5
         /\ Awaited[q] = "ReadTemperature" => q = 6
  BY DEF Awaited

\* A dialogue that is undisturbed was so before.
LEMMA UndisturbedBefore ==
  ASSUME TypeOK, [Next]_vars, Undisturbed'
  PROVE  Undisturbed
  <1>1. OnData => UNCHANGED <<refused, relinked>>
    BY DEF OnData, Weigh, StartQuery, DisableEncryption, Acked, CheckId, TakeLow, TakeHigh,
           TakeTemperature, Ignore, Handles, Takes
  <1>2. BoardAnswers => refused \subseteq refused' /\ UNCHANGED relinked
    BY DEF BoardAnswers, BoardWrites, BoardReadsId, BoardReads, BoardSetsMode, Executes, Refuses
  <1>3. \A extension, byte : BoardStatus(extension, byte) => UNCHANGED <<refused, relinked>>
    BY DEF BoardStatus
  <1>4. \A byte : BoardButtons(byte) \/ BoardWeights(byte) => UNCHANGED <<refused, relinked>>
    BY DEF BoardButtons, BoardWeights
  <1>5. Reconnect => UNCHANGED refused /\ (relinked => relinked')
    BY DEF Reconnect
  <1>6. refused \subseteq refused' /\ (relinked => relinked')
    BY <1>1, <1>2, <1>3, <1>4, <1>5 DEF Next, vars
  <1>. QED  BY <1>6 DEF Undisturbed

\* The board keeps the invariant.
LEMMA BoardStepsInv ==
  ASSUME TypeOK, DialogueInv, BoardSteps, Undisturbed', "unsolicited" \notin Faults
  PROVE  DialogueInv'
  <1>0. /\ Bytes \subseteq Byte /\ BoardTemperature \in Byte /\ 0 \in Byte
        /\ {"none", "id", "low", "high", "temperature"} = Blocks
    BY CalibrationAssumption DEF Byte, Blocks
  <1>1. ASSUME NEW o \in {"Write1", "Write2"}, BoardWrites(o)
        PROVE  DialogueInv'
    <2>1. o \in Requests /\ Executes(o)
      BY <1>1 DEF BoardWrites, Requests
    <2>2. queryState \in 1 .. 2 /\ queryState' = queryState
      BY <1>1, <2>1, RequestTaken, AwaitedFacts
    <2>3. PICK r : /\ r \in Report /\ r.id = "ack" /\ in' = Append(in, r)
                   /\ r.ok => board'.busy
                   /\ board'.weighing = board.weighing
      <3>. DEFINE ack(ok) == [id |-> "ack", ok |-> ok, block |-> "none", byte |-> 0]
      <3>1. ack(TRUE) \in Report /\ ack(FALSE) \in Report
        BY <1>0 DEF Report
      <3>2. board \in Board
        BY DEF TypeOK
      <3>3. CASE /\ Delivers("ack", TRUE, "none", 0)
                 /\ board' = [board EXCEPT !.disabled = Disables(o), !.busy = TRUE]
        <4>1. in' = Append(in, ack(TRUE)) /\ board'.busy /\ board'.weighing = board.weighing
          BY <3>2, <3>3 DEF Delivers, Board
        <4>. QED  BY <3>1, <4>1
      <3>4. CASE Delivers("ack", FALSE, "none", 0) /\ board' = [board EXCEPT !.busy = FALSE]
        <4>1. in' = Append(in, ack(FALSE)) /\ board'.weighing = board.weighing
          BY <3>2, <3>4 DEF Delivers, Board
        <4>. QED  BY <3>1, <4>1
      <3>. QED  BY <1>1, <3>3, <3>4 DEF BoardWrites
    <2>4. AnswerFits(r)' /\ IsAnswer(r)
      BY <2>2, <2>3 DEF AnswerFits, IsAnswer
    <2>. QED  BY <2>1, <2>2, <2>3, <2>4, Answered
  <1>2. CASE BoardReadsId
    <2>1. "ReadId" \in Requests /\ Executes("ReadId")
      BY <1>2 DEF BoardReadsId, Requests
    <2>2. queryState = 3 /\ queryState' = 3 /\ UNCHANGED kind /\ NoAnswer
      BY <2>1, RequestTaken, AwaitedFacts
    <2>3. CASE kind = "balance" /\ board.disabled = 2 /\ Delivers("read", TRUE, "id", 0) /\ UNCHANGED board
      <3>. DEFINE r == [id |-> "read", ok |-> TRUE, block |-> "id", byte |-> 0]
      <3>1. r \in Report /\ in' = Append(in, r)
        BY <1>0, <2>3 DEF Report, Delivers
      <3>2. board.busy
        BY <2>2 DEF NoAnswer, NoRefusal, DialogueInv, Quiet
      <3>3. AnswerFits(r)' /\ IsAnswer(r)
        BY <2>2, <2>3 DEF AnswerFits, IsAnswer
      <3>. QED  BY <2>1, <2>2, <2>3, <3>1, <3>2, <3>3, Answered
    <2>4. CASE Delivers("read", FALSE, "none", 0) /\ board' = [board EXCEPT !.busy = FALSE]
      <3>. DEFINE r == [id |-> "read", ok |-> FALSE, block |-> "none", byte |-> 0]
      <3>1. r \in Report /\ in' = Append(in, r)
        BY <1>0, <2>4 DEF Report, Delivers
      <3>2. board'.weighing = board.weighing
        BY <2>4 DEF TypeOK, Board
      <3>3. AnswerFits(r)' /\ IsAnswer(r)
        BY <2>2, <2>4 DEF AnswerFits, IsAnswer
      <3>. QED  BY <2>1, <2>2, <3>1, <3>2, <3>3, Answered
    <2>. QED  BY <1>2, <2>3, <2>4 DEF BoardReadsId
  <1>3. ASSUME NEW o, NEW block, NEW byte \in Byte, BoardReads(o, block, byte),
               \/ o = "ReadLow" /\ block = "low"
               \/ o = "ReadHigh" /\ block = "high"
               \/ o = "ReadTemperature" /\ block = "temperature" /\ byte = BoardTemperature
        PROVE  DialogueInv'
    <2>. DEFINE r == [id |-> "read", ok |-> TRUE, block |-> block, byte |-> byte]
    <2>1. o \in Requests /\ o \in Reads /\ Executes(o) /\ UNCHANGED board
      BY <1>3 DEF BoardReads, Requests, Reads
    <2>2. /\ queryState \in 1 .. 6 /\ o = Awaited[queryState] /\ NoAnswer
          /\ UNCHANGED <<queryState, kind>>
      BY <2>1, RequestTaken
    <2>3. /\ o = "ReadLow" => queryState = 4
          /\ o = "ReadHigh" => queryState = 5
          /\ o = "ReadTemperature" => queryState = 6
      BY <2>2, AwaitedFacts
    <2>4. r \in Report /\ in' = Append(in, r)
      <3>1. o \notin refused'
        BY <2>1 DEF Undisturbed
      <3>2. Delivers("read", TRUE, block, byte)
        BY <1>3, <3>1 DEF BoardReads, Refuses
      <3>. QED  BY <1>0, <1>3, <3>2 DEF Report, Delivers
    <2>5. board.busy
      BY <1>3, <2>2, <2>3 DEF NoAnswer, NoRefusal, DialogueInv, Quiet
    <2>6. AnswerFits(r)' /\ IsAnswer(r)
      BY <1>3, <2>2, <2>3 DEF AnswerFits, IsAnswer
    <2>. HIDE DEF r
    <2>7. DialogueInv'
      BY <2>1, <2>4, <2>5, <2>6, Answered
    <2>. QED  BY <2>7
  <1>4. CASE BoardAnswers
    <2>1. \A byte \in Bytes : BoardReads("ReadLow", "low", byte) => DialogueInv'
      BY <1>0, <1>3
    <2>2. \A byte \in Bytes : BoardReads("ReadHigh", "high", byte) => DialogueInv'
      BY <1>0, <1>3
    <2>3. BoardReads("ReadTemperature", "temperature", BoardTemperature) => DialogueInv'
      BY <1>0, <1>3
    <2>. QED  BY <1>1, <1>2, <1>4, <2>1, <2>2, <2>3, BoardSetsModeInv DEF BoardAnswers
  <1>5. ASSUME NEW extension \in BOOLEAN, NEW byte \in Bytes, BoardStatus(extension, byte)
        PROVE  DialogueInv'
    <2>. DEFINE r == [id |-> "status", ok |-> extension, block |-> "none", byte |-> byte]
    <2>1. r \in Report /\ in' = Append(in, r) /\ ~IsAnswer(r) /\ r.id # "weights"
      BY <1>0, <1>5 DEF Report, BoardStatus, Delivers, IsAnswer
    <2>2. ~board.busy /\ UNCHANGED <<object, out, lost, kind, board>>
      BY <1>5 DEF BoardStatus, MaySend
    <2>. HIDE DEF r
    <2>. QED  BY <2>1, <2>2, Unasked
  <1>6. ASSUME NEW byte \in Bytes, BoardButtons(byte)
        PROVE  DialogueInv'
    <2>. DEFINE r == [id |-> "buttons", ok |-> TRUE, block |-> "none", byte |-> byte]
    <2>1. r \in Report /\ in' = Append(in, r) /\ ~IsAnswer(r) /\ r.id # "weights"
      BY <1>0, <1>6 DEF Report, BoardButtons, Delivers, IsAnswer
    <2>2. ~board.busy /\ UNCHANGED <<object, out, lost, kind, board>>
      BY <1>6 DEF BoardButtons, MaySend
    <2>. HIDE DEF r
    <2>. QED  BY <2>1, <2>2, Unasked
  <1>7. ASSUME NEW byte \in Bytes, BoardWeights(byte)
        PROVE  DialogueInv'
    <2>. DEFINE r == [id |-> "weights", ok |-> TRUE, block |-> "none", byte |-> byte]
    <2>1. r \in Report /\ in' = Append(in, r) /\ ~IsAnswer(r) /\ r.id = "weights"
      BY <1>0, <1>7 DEF Report, BoardWeights, Delivers, IsAnswer
    <2>2. board.weighing /\ UNCHANGED <<object, out, lost, kind, board>>
      BY <1>7 DEF BoardWeights
    <2>. HIDE DEF r
    <2>. QED  BY <2>1, <2>2, Unasked
  <1>8. CASE Reconnect
    <2>1. /\ out' = <<>> /\ in' = <<>> /\ queryState' = 0
          /\ UNCHANGED <<queryState, low, high, referenceTemperature, kind>>
          /\ ~board'.weighing
      BY <1>8 DEF Reconnect, object, Undisturbed
    <2>2. OneRequest' /\ ModeSetBetween' /\ SomethingPending'
      BY <2>1 DEF OneRequest, ModeSetBetween, SomethingPending, NoAnswer
    <2>3. OneAnswer' /\ AnswersFit' /\ Quiet' /\ QuietAfterAck' /\ WeightsWeighed'
      BY <2>1 DEF OneAnswer, AnswersFit, Quiet, QuietAfterAck, WeightsWeighed
    <2>4. ReadSoFar'
      BY <2>1 DEF DialogueInv, ReadSoFar
    <2>. QED  BY <2>2, <2>3, <2>4 DEF DialogueInv
  <1>. QED  BY <1>4, <1>5, <1>6, <1>7, <1>8 DEF BoardSteps
--------------------------------------------------------------------------------
(* The theorems, for boards that send nothing in the middle of a dialogue  *)
(* but answers and weights, and whose reference temperature is not zero:   *)
(* without the one or the other a report is taken for an answer.           *)

LEMMA InvHolds ==
  ASSUME "unsolicited" \notin Faults, BoardTemperature # 0
  PROVE  Spec => []Inv
  <1>1. Init => DialogueInv
    BY DEF Init, DialogueInv, OneRequest, OneAnswer, AnswersFit, Quiet, QuietAfterAck,
           ModeSetBetween, WeightsWeighed, ReadSoFar, SomethingPending
  <1>2. (Undisturbed => DialogueInv) /\ TypeOK /\ [Next]_vars => (Undisturbed => DialogueInv)'
    <2>. SUFFICES ASSUME Undisturbed => DialogueInv, TypeOK, [Next]_vars, Undisturbed'
                  PROVE  DialogueInv'
      OBVIOUS
    <2>1. DialogueInv
      BY UndisturbedBefore
    <2>2. CASE UNCHANGED vars
      BY <2>1, <2>2
         DEF vars, object, DialogueInv, OneRequest, OneAnswer, AnswersFit, AnswerFits, NoAnswer,
             NoRefusal, Quiet, QuietAfterAck, ModeSetBetween, WeightsWeighed, ReadSoFar,
             SomethingPending
    <2>. QED  BY <2>1, <2>2, OnDataInv, BoardStepsInv DEF Next, BoardSteps
  <1>. QED  BY <1>1, <1>2, TypeCorrect, PTL DEF Spec, Inv

\* "A non-zero reference temperature means we have calibrated" (wiipp.cpp:178)
\* holds of every board that sends nothing unasked in a dialogue, as long as it
\* has refused no read of its calibration and no link has come back in the middle
\* of a dialogue (Undisturbed): the tables in use are then those of the board's
\* memory, whatever other requests it refuses, however reports and requests
\* interleave or get lost, and across links that come back between dialogues.
\* With a read refused or a link back in mid-dialogue the tables may be another's,
\* and the theorem says nothing.
THEOREM CalibratedTrulyHolds ==
  ASSUME "unsolicited" \notin Faults, BoardTemperature # 0
  PROVE  Spec => []CalibratedTruly
  <1>1. Inv => CalibratedTruly
    BY DEF Inv, DialogueInv, ReadSoFar, CalibratedTruly
  <1>. QED  BY <1>1, InvHolds, PTL

\* As long as nothing is lost, no read of the calibration has been refused and no
\* link has come back in mid-dialogue, the object that waits has exactly one
\* request or answer on its way, the one that its state is for, and an object that
\* does not wait has none: no answer is taken for that of another request.  Of
\* the faults that leaves refused writes and identifiers, and links that come back
\* between dialogues.
THEOREM RequestPendingHolds ==
  ASSUME "unsolicited" \notin Faults, BoardTemperature # 0
  PROVE  Spec => []RequestPending
  <1>1. Inv => RequestPending
    <2>. SUFFICES ASSUME Inv, Undisturbed, ~lost
                  PROVE  /\ Cardinality(Unanswered) + Cardinality(Answers)
                              = IF queryState = 0 THEN 0 ELSE 1
                         /\ \A i \in Unanswered : out[i] = Awaited[queryState]
      BY DEF RequestPending
    <2>1. DialogueInv
      BY DEF Inv
    <2>2. \A i \in Unanswered : /\ i = Len(out) /\ queryState # 0
                               /\ out[i] = Awaited[queryState] /\ Answers = {}
      BY <2>1 DEF DialogueInv, OneRequest, Unanswered, NoAnswer, Answers, IsAnswer
    <2>3. \A i, j \in Answers : i = j
      BY <2>1 DEF DialogueInv, OneAnswer, Answers, IsAnswer
    <2>4. Answers # {} => queryState # 0
      BY <2>1 DEF DialogueInv, AnswersFit, AnswerFits, Answers, IsAnswer
    <2>5. queryState # 0 => Unanswered # {} \/ Answers # {}
      BY <2>1 DEF DialogueInv, SomethingPending, Unanswered, Answers, IsAnswer
    <2>6. ASSUME NEW S, \A i, j \in S : i = j, S # {}
          PROVE  Cardinality(S) = 1
      <3>1. PICK x : S = {x}
        BY <2>6
      <3>. QED  BY <3>1, FS_Singleton
    <2>7. Cardinality({}) = 0
      BY FS_EmptySet
    <2>8. CASE Unanswered # {}
      <3>1. Cardinality(Unanswered) = 1 /\ Answers = {} /\ queryState # 0
        BY <2>2, <2>6, <2>8
      <3>. QED  BY <2>2, <2>7, <3>1
    <2>9. CASE Unanswered = {} /\ Answers # {}
      <3>1. Cardinality(Answers) = 1 /\ queryState # 0
        BY <2>3, <2>4, <2>6, <2>9
      <3>. QED  BY <2>7, <2>9, <3>1
    <2>10. CASE Unanswered = {} /\ Answers = {}
      BY <2>5, <2>7, <2>10
    <2>. QED  BY <2>8, <2>9, <2>10
  <1>. QED  BY <1>1, InvHolds, PTL

\* As long as no read of the calibration has been refused and no link has come back
\* in mid-dialogue, the calibration is asked for only of a balance board that has
\* executed both writes that switch its encryption off, with losses as well.  After
\* a link that came back in state 4 a read goes to a board whose encryption is on,
\* and the theorem says nothing.
THEOREM ReadsPermittedHolds ==
  ASSUME "unsolicited" \notin Faults, BoardTemperature # 0
  PROVE  Spec => []ReadsPermitted
  <1>1. Inv => ReadsPermitted
    <2>. SUFFICES ASSUME Inv, Undisturbed, NEW i \in DOMAIN out, out[i] \in Reads
                  PROVE  kind = "balance" /\ board.disabled = 2
      BY DEF ReadsPermitted
    <2>1. queryState \in 1 .. 6 /\ out[i] = Awaited[queryState]
      BY DEF Inv, TypeOK, DialogueInv, OneRequest, Reads
    <2>2. queryState >= 4
      BY <2>1 DEF Awaited, Reads
    <2>. QED  BY <2>2 DEF Inv, DialogueInv, ReadSoFar
  <1>. QED  BY <1>1, InvHolds, PTL
================================================================================
