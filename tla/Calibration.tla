------------------------------ MODULE Calibration ------------------------------
(***************************************************************************)
(* How a BalanceBoard object (src/lib/wiipp/src/wiipp.cpp) reads the       *)
(* calibration of its board: a dialogue of output reports (two writes that *)
(* switch the encryption of the board's registers off, then four reads)    *)
(* and of the input reports that onData takes one by one.  queryState says *)
(* which answer the object waits for.                                      *)
(*                                                                         *)
(* The object only ever sends, from onData, and never waits: a report that *)
(* is lost on its way to the board (a full txBuffer, see L2cap) is not     *)
(* sent again.                                                             *)
(*                                                                         *)
(* The board is external: it executes what it is sent in order, answers    *)
(* each write and read, and sends status, button and weight reports of its *)
(* own.  A block of its memory is a name; calibration holds the names of   *)
(* the blocks that its entries were taken from.                            *)
(***************************************************************************)
EXTENDS Naturals, Sequences, FiniteSets

CONSTANTS Kinds,     \* kinds of boards there are: "balance" or "other"
          BoardTemperature,  \* reference temperature in a board's memory
          Bytes,     \* what the byte at its place is in other reports
          Faults,    \* what may go wrong, of AllFaults
          InCap,     \* bound: reports on their way to the host
          MaxStatus  \* bound: status reports and reconnections

AllFaults == {"write", "read", "loss", "unsolicited", "reconnect"}
Byte == 0 .. 255

ASSUME CalibrationAssumption ==
  /\ Kinds \subseteq {"balance", "other"}
  /\ BoardTemperature \in Byte /\ Bytes \subseteq Byte
  /\ Faults \subseteq AllFaults
  /\ InCap \in Nat \ {0} /\ MaxStatus \in Nat

VARIABLES
  queryState,            \* BalanceBoard::queryState
  low,                   \* block that calibration[0..7] (0 kg, 17 kg) is from
  high,                  \* block that calibration[8..11] (34 kg) is from
  referenceTemperature,  \* BalanceBoard::referenceTemperature
  out,                   \* output reports on their way to the board
  in,                    \* input reports on their way to the host
  lost,                  \* ghost: a report on its way was lost
  kind,                  \* what the board is
  board,                 \* the board's own state
  refused,               \* ghost: requests that the board has refused
  relinked,              \* ghost: a link came back in the middle of a dialogue
  statuses               \* status reports and reconnections so far

object == <<queryState, low, high, referenceTemperature>>
vars == <<object, out, in, lost, kind, board, refused, relinked, statuses>>

Requests == {"Write1", "Write2", "ReadId", "ReadLow", "ReadHigh", "ReadTemperature"}
Outputs == Requests \cup {"SetMode"}
Blocks == {"none", "id", "low", "high", "temperature"}

\* Input reports: 0x20 (ok is the extension bit), 0x22 and 0x21 (ok unless
\* they carry an error), 0x34 and 0x30.  block is what the report has where
\* the object looks for memory, byte the first byte there.
Report == [id: {"status", "ack", "read", "weights", "buttons"}, ok: BOOLEAN,
           block: Blocks, byte: Byte]

Board == [disabled: 0 .. 2,     \* steps of switching the encryption off
          weighing: BOOLEAN,    \* sends 0x34 reports
          busy: BOOLEAN]        \* in the middle of the dialogue
--------------------------------------------------------------------------------
(* BalanceBoard::onData.  A weight report is weighed once the reference    *)
(* temperature is not zero; every other report goes to the case of         *)
(* readCalibrationData that queryState names.                              *)

\* write_memory, read_memory and set_reporting_mode (l2send_data).
Sends(o) ==
  \/ out' = Append(out, o) /\ UNCHANGED lost
  \/ "loss" \in Faults /\ lost' = TRUE /\ UNCHANGED out

Takes == in # <<>> /\ in' = Tail(in) /\ UNCHANGED <<kind, board, refused, relinked, statuses>>

Weighed(r) == r.id = "weights" /\ referenceTemperature # 0

Handles(state) == Takes /\ ~Weighed(Head(in)) /\ queryState = state

Await(state, o) == queryState' = state /\ Sends(o)

Abandon == queryState' = 0 /\ UNCHANGED <<out, lost>>

Weigh == Takes /\ Weighed(Head(in)) /\ UNCHANGED <<object, out, lost>>

\* deviation: whatever the object waits for, a status report starts again.
\* (A definition marked "deviation" is a wrong version of the one it
\* precedes, used only to check that properties fail with it.)
RestartQuery ==
  /\ Takes
  /\ Head(in).id = "status" /\ Head(in).ok
  /\ Await(1, "Write1")
  /\ UNCHANGED <<low, high, referenceTemperature>>

StartQuery ==
  /\ Handles(0)
  /\ Head(in).id = "status" /\ Head(in).ok
  /\ Await(1, "Write1")
  /\ UNCHANGED <<low, high, referenceTemperature>>

\* deviation: an error leaves the object waiting.
AckedOnly(state, next, o) ==
  /\ Handles(state) /\ Head(in).id = "ack"
  /\ \/ Head(in).ok /\ Await(next, o)
     \/ ~Head(in).ok /\ UNCHANGED <<queryState, out, lost>>

\* deviation: the next request is not sent.
AckedSilent(state, next, o) ==
  /\ Handles(state) /\ Head(in).id = "ack"
  /\ queryState' = (IF Head(in).ok THEN next ELSE 0)
  /\ UNCHANGED <<out, lost>>

Acked(state, next, o) ==
  /\ Handles(state) /\ Head(in).id = "ack"
  /\ \/ Head(in).ok /\ Await(next, o)
     \/ ~Head(in).ok /\ Abandon

DisableEncryption ==
  /\ Acked(1, 2, "Write2") \/ Acked(2, 3, "ReadId")
  /\ UNCHANGED <<low, high, referenceTemperature>>

\* deviation: what the board answers is not compared.
CheckIdAnyway ==
  /\ Handles(3) /\ Head(in).id = "read"
  /\ Await(4, "ReadLow")
  /\ UNCHANGED <<low, high, referenceTemperature>>

\* The answer must be the read of the identifier, of a balance board.
CheckId ==
  /\ Handles(3) /\ Head(in).id = "read"
  /\ \/ Head(in).block = "id" /\ Await(4, "ReadLow")
     \/ Head(in).block # "id" /\ Abandon
  /\ UNCHANGED <<low, high, referenceTemperature>>

\* The three last cases look neither at the kind of the report nor at its
\* address or error code.
TakeLow ==
  /\ Handles(4)
  /\ low' = Head(in).block
  /\ Await(5, "ReadHigh")
  /\ UNCHANGED <<high, referenceTemperature>>

\* deviation: the same block once more.
TakeHighFromLow ==
  /\ Handles(5)
  /\ high' = low
  /\ Await(6, "ReadTemperature")
  /\ UNCHANGED <<low, referenceTemperature>>

TakeHigh ==
  /\ Handles(5)
  /\ high' = Head(in).block
  /\ Await(6, "ReadTemperature")
  /\ UNCHANGED <<low, referenceTemperature>>

\* deviation: the state is counted up instead of reset.
TakeTemperatureCountUp ==
  /\ Handles(6)
  /\ referenceTemperature' = Head(in).byte
  /\ Await(queryState + 1, "SetMode")
  /\ UNCHANGED <<low, high>>

TakeTemperature ==
  /\ Handles(6)
  /\ referenceTemperature' = Head(in).byte
  /\ Await(0, "SetMode")
  /\ UNCHANGED <<low, high>>

\* A report that the object does not wait for.
Ignore ==
  /\ \/ Handles(0) /\ ~(Head(in).id = "status" /\ Head(in).ok)
     \/ Handles(1) /\ Head(in).id # "ack"
     \/ Handles(2) /\ Head(in).id # "ack"
     \/ Handles(3) /\ Head(in).id # "read"
  /\ UNCHANGED <<object, out, lost>>

OnData ==
  \/ Weigh \/ StartQuery \/ DisableEncryption \/ CheckId
  \/ TakeLow \/ TakeHigh \/ TakeTemperature \/ Ignore
--------------------------------------------------------------------------------
(* The board (external).                                                   *)

Delivers(id, ok, block, byte) ==
  /\ Len(in) < InCap
  /\ in' = Append(in, [id |-> id, ok |-> ok, block |-> block, byte |-> byte])

\* The board executes the output report o.
Executes(o) ==
  /\ out # <<>> /\ Head(out) = o
  /\ out' = Tail(out)
  /\ UNCHANGED <<object, lost, kind, relinked, statuses>>

Disables(o) == IF o = "Write1" THEN 1 ELSE IF board.disabled > 0 THEN 2 ELSE 0

Refuses(o) == refused' = refused \cup {o}

BoardWrites(o) ==
  /\ Executes(o)
  /\ \/ /\ Delivers("ack", TRUE, "none", 0)
        /\ board' = [board EXCEPT !.disabled = Disables(o), !.busy = TRUE]
        /\ UNCHANGED refused
     \/ /\ "write" \in Faults
        /\ Delivers("ack", FALSE, "none", 0)
        /\ board' = [board EXCEPT !.busy = FALSE]
        /\ Refuses(o)

\* Only a balance board whose encryption is off answers with its identifier.
BoardReadsId ==
  /\ Executes("ReadId")
  /\ \/ /\ kind = "balance" /\ board.disabled = 2
        /\ Delivers("read", TRUE, "id", 0)
        /\ UNCHANGED <<board, refused>>
     \/ /\ kind # "balance" \/ board.disabled # 2 \/ "read" \in Faults
        /\ Delivers("read", FALSE, "none", 0)
        /\ board' = [board EXCEPT !.busy = FALSE]
        /\ Refuses("ReadId")

BoardReads(o, block, byte) ==
  /\ Executes(o)
  /\ UNCHANGED board
  /\ \/ Delivers("read", TRUE, block, byte) /\ UNCHANGED refused
     \/ /\ "read" \in Faults
        /\ Delivers("read", FALSE, "none", 0)
        /\ Refuses(o)

BoardSetsMode ==
  /\ Executes("SetMode")
  /\ board' = [board EXCEPT !.weighing = TRUE, !.busy = FALSE]
  /\ UNCHANGED <<in, refused>>

BoardAnswers ==
  \/ \E o \in {"Write1", "Write2"} : BoardWrites(o)
  \/ BoardReadsId
  \/ \E byte \in Bytes : \/ BoardReads("ReadLow", "low", byte)
                         \/ BoardReads("ReadHigh", "high", byte)
  \/ BoardReads("ReadTemperature", "temperature", BoardTemperature)
  \/ BoardSetsMode

\* Unless the fault "unsolicited" is there, a board sends nothing of its own
\* but weights in the middle of the dialogue.
MaySend == ~board.busy \/ "unsolicited" \in Faults

BoardStatus(extension, byte) ==
  /\ MaySend
  /\ statuses < MaxStatus
  /\ Delivers("status", extension, "none", byte)
  /\ statuses' = statuses + 1
  /\ UNCHANGED <<object, out, lost, kind, board, refused, relinked>>

BoardButtons(byte) ==
  /\ MaySend
  /\ Delivers("buttons", TRUE, "none", byte)
  /\ UNCHANGED <<object, out, lost, kind, board, refused, relinked, statuses>>

BoardWeights(byte) ==
  /\ board.weighing
  /\ Delivers("weights", TRUE, "none", byte)
  /\ UNCHANGED <<object, out, lost, kind, board, refused, relinked, statuses>>

\* The link is lost and comes back: the board starts afresh, while emplace
\* keeps the object of a handle that connectedBoards has (wiipp.cpp:292).
Reconnect ==
  /\ "reconnect" \in Faults
  /\ statuses < MaxStatus
  /\ out' = <<>> /\ in' = <<>>
  /\ board' = [disabled |-> 0, weighing |-> FALSE, busy |-> FALSE]
  /\ lost' = (lost \/ out # <<>> \/ in # <<>>)
  /\ relinked' = (relinked \/ queryState # 0)
  /\ statuses' = statuses + 1
  /\ UNCHANGED <<object, kind, refused>>
--------------------------------------------------------------------------------
Init ==
  /\ queryState = 0 /\ low = "none" /\ high = "none" /\ referenceTemperature = 0
  /\ out = <<>> /\ in = <<>> /\ lost = FALSE
  /\ kind \in Kinds
  /\ board = [disabled |-> 0, weighing |-> FALSE, busy |-> FALSE]
  /\ refused = {} /\ relinked = FALSE /\ statuses = 0

Next ==
  \/ OnData
  \/ BoardAnswers
  \/ \E extension \in BOOLEAN, byte \in Bytes : BoardStatus(extension, byte)
  \/ \E byte \in Bytes : BoardButtons(byte) \/ BoardWeights(byte)
  \/ Reconnect

Spec == Init /\ [][Next]_vars

\* loop() handles whatever has come, and a board answers what it has got:
\* again and again its own reports may take the place, hence strong fairness.
FairSpec == Spec /\ WF_vars(OnData) /\ SF_vars(BoardAnswers)
--------------------------------------------------------------------------------
(* Properties.                                                             *)

\* Every variable has its type.
TypeOK ==
  /\ queryState \in 0 .. 6
  /\ low \in Blocks /\ high \in Blocks /\ referenceTemperature \in Byte
  /\ out \in Seq(Outputs) /\ in \in Seq(Report) /\ Len(in) <= InCap
  /\ lost \in BOOLEAN /\ kind \in Kinds /\ board \in Board
  /\ refused \subseteq Requests /\ relinked \in BOOLEAN /\ statuses \in Nat

Reads == {"ReadLow", "ReadHigh", "ReadTemperature"}

\* The cases that the dialogue is not made for: a refused read of the
\* calibration (the last cases look at no error; with a temperature of 0 the
\* board sends weights and is not calibrated, and a second dialogue takes them
\* for answers), and a link that came back in the middle of a dialogue (the
\* object stays, and goes on where it was).
Undisturbed == refused \cap Reads = {} /\ ~relinked

\* "A non-zero reference temperature means we have calibrated"
\* (wiipp.cpp:178): the tables that weights are computed with are the board's,
\* unless the dialogue was disturbed.
CalibratedTruly ==
  Undisturbed /\ referenceTemperature # 0 =>
    low = "low" /\ high = "high" /\ kind = "balance"

\* The request that the object waits for an answer to, by queryState.
Awaited == <<"Write1", "Write2", "ReadId", "ReadLow", "ReadHigh", "ReadTemperature">>

Unanswered == {i \in DOMAIN out : out[i] # "SetMode"}
Answers == {i \in DOMAIN in : in[i].id \in {"ack", "read"}}

\* Unless a report was lost or the dialogue was disturbed: while the object waits,
\* the one request it waits for, or its answer, is on its way, and otherwise none
\* is.
RequestPending ==
  Undisturbed /\ ~lost =>
    /\ Cardinality(Unanswered) + Cardinality(Answers) = IF queryState = 0 THEN 0 ELSE 1
    /\ \A i \in Unanswered : out[i] = Awaited[queryState]

\* The calibration is asked for only of a balance board, whose encryption the
\* object has switched off in both steps, unless the dialogue was disturbed.
ReadsPermitted ==
  Undisturbed => \A i \in DOMAIN out : out[i] \in Reads =>
    kind = "balance" /\ board.disabled = 2

\* Every dialogue comes to an end, unless a report is lost.
QueryEnds == queryState # 0 ~> queryState = 0 \/ lost

\* A board that says it has its extension gets calibrated, unless it refuses
\* a request or a report is lost.
Calibrates ==
  (\E i \in DOMAIN in : in[i].id = "status" /\ in[i].ok)
    ~> referenceTemperature # 0 \/ refused # {} \/ lost
================================================================================
