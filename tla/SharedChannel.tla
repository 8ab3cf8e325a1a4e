----------------------------- MODULE SharedChannel -----------------------------
(***************************************************************************)
(* One direction of the shared-memory transport of TcMemory01: class       *)
(* MemoryBase in memory_base.cpp.  A writer process and a reader process   *)
(* share a data segment, a control segment and an AUTO-RESET event; no     *)
(* lock protects either segment.  WriteData zeroes and fills the data      *)
(* segment, then the control segment, then signals.  event_loop waits for  *)
(* the event, reads the control string and then as many data bytes as the  *)
(* string announces, and hands both to a callback.                         *)
(*                                                                         *)
(* Data are abstracted to versions.  The k-th call of the writer is        *)
(* message k; a cell of shared memory holds the number of the message that *)
(* wrote it, or 0 when it holds zero bytes.  memset and memcpy promise no  *)
(* order to another process, so a fill touches its cells in any order, and *)
(* every cell access is a step of its own.                                 *)
(***************************************************************************)
EXTENDS Naturals

CONSTANTS
  MaxMsg,        \* calls the writer makes (bounds the run)
  SegmentCells,  \* the data segment, _dataSegmentSize bytes, in cells
  Kind,          \* Kind[m]: the call that is message m
  Size,          \* Size[m]: cells of data.size()
  Claim,         \* Claim[m]: cells of the number its "size=" entry states
  MaxRestart,    \* how many times the reader side is built again
  Long,          \* messages whose control string has CONTROL_SIZE bytes or more
  MayDie         \* messages in whose call the writer's process may die (bounds the run)

Msg      == 1 .. MaxMsg
Version  == 0 .. MaxMsg
DataCell == 1 .. SegmentCells

\* A control string "control_sum=..;size=..;type=..;" in the order std::map
\* formats it: 1 is what precedes "size=", 2 is "size=", 3 its digits, 4 the rest.
Token  == 1 .. 4
NoText == [t \in Token |-> 0]
NoData == [c \in DataCell |-> 0]

\* The tokens of a message's string.  A command is one entry without a size,
\* a clear leaves the segment zeroed.
Tokens(m) ==
  {t \in Token : Kind[m] = "data" \/ (Kind[m] = "command" /\ t = 1)}
Text(m) == [t \in Token |-> IF t \in Tokens(m) THEN m ELSE 0]

ASSUME ChannelAssumption ==
  /\ MaxMsg \in Nat /\ SegmentCells \in Nat /\ MaxRestart \in Nat
  /\ Kind \in [Msg -> {"data", "command", "clear"}]
  /\ Size \in [Msg -> Nat]
  /\ Claim \in [Msg -> Nat]
  /\ MayDie \subseteq Msg
  /\ Long \subseteq {m \in Msg : Kind[m] = "data"}

VARIABLES
  data,      \* the data segment
  ctl,       \* the control segment
  event,     \* the auto-reset event
  wpc,       \* writer: what the running call does next
  wmsg,      \* writer: the message of the last call begun
  wtodo,     \* writer: the cells the running fill has not touched yet
  thrown,    \* history of the writer: its last call threw
  running,   \* reader object: _running
  opc,       \* reader object: its owner (constructor, destructor)
  restarts,  \* reader object: times it was built again
  rpc,       \* reader thread: where event_loop is
  rpos,      \* reader thread: the cell the running scan is at
  rlen,      \* reader thread: strlen of the control string
  rtok,      \* reader thread: the control string it copied
  rsize,     \* reader thread: dataSize, then data.size()
  rdata,     \* reader thread: the bytes it copied
  unread,    \* history of the reader thread: its last pass was refused a view
  last,      \* history: the argument of the last callback
  seen,      \* history: oldest and newest message in the last control string
             \* a callback was given that was not empty
  calm       \* history: the last call began while nothing was under way

memory == <<data, ctl>>
writer == <<wpc, wmsg, wtodo, thrown>>
owner  == <<running, opc, restarts>>
reader == <<rpc, rpos, rlen, rtok, rsize, rdata, unread>>
shown  == <<last, seen>>
vars   == <<memory, event, writer, owner, reader, shown, calm>>

-----------------------------------------------------------------------------
(* Writer: WriteData, SetCommandControl, ClearCommandControl.                *)

\* The reader is between two passes and no signal is pending.
Quiet == ~event /\ opc = "up" /\ rpc \in {"check", "wait"}

BeginCall(phase, cells, throws) ==
  /\ wmsg' = wmsg + 1
  /\ wpc' = phase
  /\ wtodo' = cells
  /\ thrown' = throws
  /\ calm' = Quiet
  /\ UNCHANGED <<memory, event, owner, reader, shown>>

\* A dead writer's process is started again, and opens the named objects as
\* they are.
CanCall(kinds) ==
  wpc \in {"idle", "dead"} /\ wmsg < MaxMsg /\ Kind[wmsg + 1] \in kinds

\* Mutant: WriteData does not compare data.size() with the segment.
BeginWriteDataUnchecked ==
  /\ CanCall({"data"})
  /\ BeginCall("zeroData", DataCell, FALSE)

BeginWriteData ==
  /\ CanCall({"data"})
  /\ Size[wmsg + 1] <= SegmentCells
  /\ BeginCall("zeroData", DataCell, FALSE)

\* WriteData throws before it touches the segment: data.size() exceeds it, or
\* MapViewOfFile fails, which any call may meet.  WriteDataToMemory reports it.
RejectWriteData ==
  /\ CanCall({"data"})
  /\ BeginCall("idle", {}, TRUE)

BeginControlCall ==
  /\ CanCall({"command", "clear"})
  /\ BeginCall("zeroCtl", Token, FALSE)

\* SetCommandControl and ClearCommandControl get no view: no fill, no signal.
RejectControlCall ==
  /\ CanCall({"command", "clear"})
  /\ BeginCall("idle", {}, TRUE)

\* One cell of a ZeroMemory or CopyMemory over the data segment.
FillData(phase, v) ==
  /\ wpc = phase
  /\ \E c \in wtodo : data' = [data EXCEPT ![c] = v] /\ wtodo' = wtodo \ {c}
  /\ UNCHANGED <<ctl, event, wpc, wmsg, thrown, owner, reader, shown, calm>>

FillCtl(phase, v) ==
  /\ wpc = phase
  /\ \E t \in wtodo : ctl' = [ctl EXCEPT ![t] = v] /\ wtodo' = wtodo \ {t}
  /\ UNCHANGED <<data, event, wpc, wmsg, thrown, owner, reader, shown, calm>>

ZeroData == FillData("zeroData", 0)
\* Mutant: CopyMemory copies the buffer of the call before.
CopyDataStale == FillData("copyData", wmsg - 1)
CopyData == FillData("copyData", wmsg)
ZeroCtl  == FillCtl("zeroCtl", 0)
CopyCtl  == FillCtl("copyCtl", wmsg)

\* A fill is complete: the call goes on to its next one.
NextFill(from, to, cells) ==
  /\ wpc = from /\ wtodo = {}
  /\ wpc' = to /\ wtodo' = cells
  /\ UNCHANGED <<memory, event, wmsg, thrown, owner, reader, shown, calm>>

DataZeroed == NextFill("zeroData", "copyData", 1 .. Size[wmsg])
\* Mutant: WriteData copies over the old control string without zeroing it.
DataCopiedUnzeroed == NextFill("copyData", "copyCtl", Tokens(wmsg))
DataCopied == NextFill("copyData", "zeroCtl", Token)
\* WriteData has its data in place and SetCommandControl gets no view: the call
\* throws, under the control string of an earlier message and without a signal.
LeaveDataUnannounced ==
  /\ wpc = "copyData" /\ wtodo = {}
  /\ wpc' = "idle" /\ thrown' = TRUE
  /\ UNCHANGED <<memory, event, wmsg, wtodo, owner, reader, shown, calm>>

\* Mutant: SetEvent is called before the control string is copied.
CtlZeroedSignalled ==
  /\ wpc = "zeroCtl" /\ wtodo = {}
  /\ wpc' = "copyCtl" /\ wtodo' = Tokens(wmsg)
  /\ event' = TRUE
  /\ UNCHANGED <<memory, wmsg, thrown, owner, reader, shown, calm>>
CtlZeroed  == NextFill("zeroCtl", "copyCtl", Tokens(wmsg))

\* A string of exactly CONTROL_SIZE bytes is copied whole, without a NUL.
SignalData ==
  /\ wpc = "copyCtl" /\ wtodo = {}
  /\ event' = TRUE
  /\ wpc' = "idle"
  /\ UNCHANGED <<memory, wmsg, wtodo, thrown, owner, reader, shown, calm>>

Writer == \/ BeginWriteData \/ RejectWriteData
          \/ BeginControlCall \/ RejectControlCall \/ LeaveDataUnannounced
          \/ ZeroData \/ CopyData \/ ZeroCtl \/ CopyCtl
          \/ DataZeroed \/ DataCopied \/ CtlZeroed \/ SignalData

\* The reader's process has handles of the named objects.
ReaderHolds == opc # "closed" /\ rpc # "terminated"

\* The writer's process ends.  Nobody is told, no lock is left behind; what it
\* had filled stays as it is, unless its handles were the last ones: then the
\* objects are gone, and created anew by who comes next.
EndWriterProcess ==
  /\ wpc' = "dead" /\ wtodo' = {}
  /\ IF ReaderHolds THEN UNCHANGED <<memory, event>>
                    ELSE data' = NoData /\ ctl' = NoText /\ event' = FALSE
  /\ calm' = FALSE
  /\ UNCHANGED <<wmsg, thrown, owner, reader, shown>>

\* It may die anywhere in a call.
WriterDies ==
  /\ wmsg \in MayDie /\ wpc # "dead"
  /\ wpc # "idle" \/ ~ReaderHolds
  /\ EndWriterProcess

\* CopyMemory of a control string longer than CONTROL_SIZE, which nothing
\* compares, runs into the page behind the view, which is never mapped: an
\* access violation, with any part of the segment filled.
CopyPastEnd ==
  /\ wpc = "copyCtl" /\ wmsg \in Long
  /\ EndWriterProcess

-----------------------------------------------------------------------------
(* Reader thread: event_loop.                                                *)

LocalStep == UNCHANGED <<memory, writer, owner, calm>>

CheckRunning ==
  /\ rpc = "check"
  /\ rpc' = IF running THEN "wait" ELSE "exited"
  /\ LocalStep /\ UNCHANGED <<event, rpos, rlen, rtok, rsize, rdata, unread, shown>>

\* WaitForSingleObject consumes the auto-reset event.
WaitSignalled ==
  /\ rpc = "wait" /\ event
  /\ event' = FALSE
  /\ rpc' = "woken"
  /\ LocalStep /\ UNCHANGED <<rpos, rlen, rtok, rsize, rdata, unread, shown>>

WaitTimeout ==
  /\ rpc = "wait" /\ ~event
  /\ rpc' = "check"
  /\ LocalStep /\ UNCHANGED <<event, rpos, rlen, rtok, rsize, rdata, unread, shown>>

\* A thread told to stop leaves with the signal it consumed.
StopWoken ==
  /\ rpc = "woken" /\ ~running
  /\ rpc' = "exited"
  /\ LocalStep /\ UNCHANGED <<event, rpos, rlen, rtok, rsize, rdata, unread, shown>>

BeginRead ==
  /\ rpc = "woken" /\ running
  /\ rpc' = "strlen" /\ rpos' = 1
  /\ rtok' = NoText /\ rsize' = 0 /\ rdata' = NoData
  /\ unread' = FALSE
  /\ LocalStep /\ UNCHANGED <<event, rlen, shown>>

\* GetCommandControl gets no view: no entries, and the callback gets nothing.
RefuseControl ==
  /\ rpc = "woken" /\ running
  /\ rpc' = "deliver"
  /\ rtok' = NoText /\ rsize' = 0 /\ rdata' = NoData
  /\ unread' = TRUE
  /\ LocalStep /\ UNCHANGED <<event, rpos, rlen, shown>>

\* GetCommandControl builds a std::string from a char*: it measures the
\* string, then copies that many bytes.
MeasureControl ==
  /\ rpc = "strlen"
  /\ \/ /\ rpos \in Token /\ ctl[rpos] # 0
        /\ rpos' = rpos + 1
        /\ UNCHANGED <<rpc, rlen>>
     \/ /\ IF rpos \in Token THEN ctl[rpos] = 0 ELSE ctl[4] \notin Long
        /\ rlen' = rpos - 1
        /\ rpos' = 1 /\ rpc' = "copy"
  /\ LocalStep /\ UNCHANGED <<event, rtok, rsize, rdata, unread, shown>>

\* A string that fills the segment has no NUL: strlen runs into the page behind
\* the view, and the reader's process ends.
ScanPastEnd ==
  /\ rpc = "strlen" /\ rpos \notin Token /\ ctl[4] \in Long
  /\ rpc' = "terminated"
  /\ LocalStep /\ UNCHANGED <<event, rpos, rlen, rtok, rsize, rdata, unread, shown>>

CopyControl ==
  /\ rpc = "copy" /\ rpos <= rlen
  /\ rtok' = [rtok EXCEPT ![rpos] = ctl[rpos]]
  /\ rpos' = rpos + 1
  /\ LocalStep /\ UNCHANGED <<event, rpc, rlen, rsize, rdata, unread, shown>>

\* parse_control_string stops at the first NUL: the tokens before it.
IsPrefix(tok, p) == /\ \A t \in 1 .. p : tok[t] # 0
                    /\ p + 1 \in Token => tok[p + 1] = 0
Prefix(tok)      == CHOOSE p \in 0 .. 4 : IsPrefix(tok, p)
UpToNul(tok)     == [t \in Token |-> IF t <= Prefix(tok) THEN tok[t] ELSE 0]

Copied == rpc = "copy" /\ rpos > rlen
Parsed(n) ==
  /\ rsize' = n
  /\ rtok' = UpToNul(rtok)
  /\ rpc' = "map"
  /\ LocalStep /\ UNCHANGED <<event, rpos, rlen, rdata, unread, shown>>

\* No entry, or none with the key "size": dataSize = 0.
ParseWithoutSize == Copied /\ Prefix(rtok) < 2 /\ Parsed(0)
ParseSize        == Copied /\ Prefix(rtok) > 2 /\ Parsed(Claim[rtok[3]])

\* The string ends inside the digits: std::stoul takes the ones that are there.
ParseTornDigits ==
  /\ Copied /\ Prefix(rtok) = 2
  /\ \E n \in 0 .. Claim[rtok[2]] : Parsed(n)

\* The string ends after "size=": std::stoul("") throws out of the thread's
\* function, which is std::terminate for the process.
ParseTerminates ==
  /\ Copied /\ Prefix(rtok) = 2
  /\ rpc' = "terminated"
  /\ LocalStep /\ UNCHANGED <<event, rpos, rlen, rtok, rsize, rdata, unread, shown>>

\* No data to map, or MapViewOfFile refuses a view past the section's end.
SkipData ==
  /\ rpc = "map" /\ rsize \notin DataCell
  /\ rpc' = "deliver" /\ rsize' = 0
  /\ LocalStep /\ UNCHANGED <<event, rpos, rlen, rtok, rdata, unread, shown>>

MapData ==
  /\ rpc = "map" /\ rsize \in DataCell
  /\ rpc' = "data" /\ rpos' = 1
  /\ LocalStep /\ UNCHANGED <<event, rlen, rtok, rsize, rdata, unread, shown>>

\* MapViewOfFile refuses a view that lies in the section: the callback gets the
\* control string without its data.
RefuseData ==
  /\ rpc = "map" /\ rsize \in DataCell
  /\ rpc' = "deliver" /\ rsize' = 0 /\ unread' = TRUE
  /\ LocalStep /\ UNCHANGED <<event, rpos, rlen, rtok, rdata, shown>>

ReadData ==
  /\ rpc = "data"
  /\ rdata' = [rdata EXCEPT ![rpos] = data[rpos]]
  /\ rpos' = rpos + 1
  /\ rpc' = IF rpos = rsize THEN "deliver" ELSE "data"
  /\ LocalStep /\ UNCHANGED <<event, rlen, rtok, rsize, unread, shown>>

Newest(tok) == CHOOSE v \in {tok[t] : t \in Token} : \A t \in Token : tok[t] <= v

EnterCallback ==
  /\ rpc = "deliver"
  /\ rpc' = "callback"
  /\ last' = [tok |-> rtok, n |-> rsize, cell |-> rdata]
  /\ seen' = IF rtok = NoText THEN seen
             ELSE [oldest |-> rtok[1], newest |-> Newest(rtok)]
  /\ LocalStep /\ UNCHANGED <<event, rpos, rlen, rtok, rsize, rdata, unread>>

\* Mutant: the event is reset after a callback, as a manual-reset event would be.
ReturnResettingEvent ==
  /\ rpc = "callback"
  /\ rpc' = "check"
  /\ event' = FALSE
  /\ LocalStep /\ UNCHANGED <<rpos, rlen, rtok, rsize, rdata, unread, shown>>

ReturnFromCallback ==
  /\ rpc = "callback"
  /\ rpc' = "check"
  /\ LocalStep /\ UNCHANGED <<event, rpos, rlen, rtok, rsize, rdata, unread, shown>>

Reader == \/ CheckRunning \/ WaitSignalled \/ WaitTimeout \/ StopWoken
          \/ BeginRead \/ RefuseControl
          \/ MeasureControl \/ ScanPastEnd \/ CopyControl
          \/ ParseWithoutSize \/ ParseSize \/ ParseTornDigits \/ ParseTerminates
          \/ SkipData \/ MapData \/ RefuseData \/ ReadData
          \/ EnterCallback \/ ReturnFromCallback

-----------------------------------------------------------------------------
(* Owner of the reader object: ~MemoryBase, and a constructor run again.     *)

\* Mutant: the destructor signals and joins but leaves _running set.
StopReaderStillRunning ==
  /\ opc = "up" /\ rpc # "terminated" /\ restarts < MaxRestart
  /\ opc' = "stopping"
  /\ calm' = FALSE
  /\ UNCHANGED <<memory, event, writer, running, restarts, reader, shown>>

StopReader ==
  /\ opc = "up" /\ rpc # "terminated" /\ restarts < MaxRestart
  /\ running' = FALSE
  /\ opc' = "stopping"
  /\ calm' = FALSE
  /\ UNCHANGED <<memory, event, writer, restarts, reader, shown>>

SignalStop ==
  /\ opc = "stopping" /\ rpc # "terminated"
  /\ event' = TRUE
  /\ opc' = "joining"
  /\ UNCHANGED <<memory, writer, running, restarts, reader, shown, calm>>

JoinReader ==
  /\ opc = "joining" /\ rpc = "exited"
  /\ opc' = "closed"
  /\ UNCHANGED <<memory, event, writer, running, restarts, reader, shown, calm>>

\* A new reader opens the named objects as they are, the event included.
OpenReader ==
  /\ opc = "closed" \/ rpc = "terminated"
  /\ restarts < MaxRestart
  /\ restarts' = restarts + 1
  /\ running' = TRUE
  /\ opc' = "up"
  /\ rpc' = "check"
  /\ calm' = FALSE
  /\ UNCHANGED <<memory, event, writer, rpos, rlen, rtok, rsize, rdata, unread, shown>>

Owner == StopReader \/ SignalStop \/ JoinReader \/ OpenReader

-----------------------------------------------------------------------------
Init ==
  /\ data = NoData /\ ctl = NoText /\ event = FALSE
  /\ wpc = "idle" /\ wmsg = 0 /\ wtodo = {} /\ thrown = FALSE
  /\ running = TRUE /\ opc = "up" /\ restarts = 0
  /\ rpc = "check" /\ rpos = 1 /\ rlen = 0
  /\ rtok = NoText /\ rsize = 0 /\ rdata = NoData /\ unread = FALSE
  /\ last = [tok |-> NoText, n |-> 0, cell |-> NoData]
  /\ seen = [oldest |-> 0, newest |-> 0]
  /\ calm = FALSE

Next == Writer \/ WriterDies \/ CopyPastEnd \/ Reader \/ Owner

Spec == Init /\ [][Next]_vars

\* A call of the writer runs to its end, the reader's thread is scheduled and
\* its callback returns, a destructor goes on.  No one has to call, destroy or die.
Fairness == /\ WF_vars(Writer /\ wpc \notin {"idle", "dead"})
            /\ WF_vars(Reader)
            /\ WF_vars(SignalStop \/ JoinReader)
LiveSpec == Spec /\ Fairness

-----------------------------------------------------------------------------
(* Properties.                                                               *)

MemoryTypeOK ==
  /\ data \in [DataCell -> Version] /\ ctl \in [Token -> Version]
  /\ event \in BOOLEAN

WriterTypeOK ==
  /\ wpc \in {"idle", "zeroData", "copyData", "zeroCtl", "copyCtl", "dead"}
  /\ wmsg \in Version /\ thrown \in BOOLEAN
  /\ wpc \in {"zeroData", "copyData"} => wtodo \subseteq DataCell
  /\ wpc \in {"zeroCtl", "copyCtl"} => wtodo \subseteq Token
  /\ wpc \in {"idle", "dead"} => wtodo = {}

OwnerTypeOK ==
  /\ running \in BOOLEAN
  /\ opc \in {"up", "stopping", "joining", "closed"}
  /\ restarts \in 0 .. MaxRestart
  /\ calm \in BOOLEAN

ReaderTypeOK ==
  /\ rpc \in {"check", "wait", "woken", "strlen", "copy", "map", "data",
              "deliver", "callback", "exited", "terminated"}
  /\ rpos \in Nat \ {0} /\ rlen \in 0 .. 4
  /\ rtok \in [Token -> Version] /\ rsize \in Nat
  /\ rdata \in [DataCell -> Version] /\ unread \in BOOLEAN

ShownTypeOK ==
  /\ last \in [tok : [Token -> Version], n : Nat, cell : [DataCell -> Version]]
  /\ seen \in [oldest : Version, newest : Version]

\* Types.  The size check of WriteData keeps its data fills in the data segment;
\* no check of that kind guards the control segment: CopyPastEnd, ScanPastEnd.
TypeOK == /\ MemoryTypeOK /\ WriterTypeOK /\ OwnerTypeOK
          /\ ReaderTypeOK /\ ShownTypeOK

\* A payload is never older than the size entry it is delivered with: each
\* byte handed to the callback is of the message that entry belongs to or of a
\* later one, or is a zero of a fill.  WriteData writes the segment before the
\* control string and event_loop reads them in the opposite order.
DataNotOlderThanSize ==
  last.tok[2] # 0 =>
    \A c \in 1 .. last.n : last.cell[c] = 0 \/ last.cell[c] >= last.tok[2]

\* The entries of one delivered control string are never out of order: a later
\* entry is of the same message or a newer one, however the copy was torn.
TokensInOrder ==
  \A s, t \in Token :
    s < t /\ last.tok[t] # 0 => last.tok[s] # 0 /\ last.tok[s] <= last.tok[t]

Latest == INSTANCE LatestMessage WITH posted <- wmsg, shown <- seen

\* The channel implements LatestMessage: a control string shown after another
\* one holds nothing older, although signals coalesce, repeat and survive a
\* restart of the reader, and nothing locks the segment.
NeverGoesBack == Latest!Spec

\* A delivery is the whole of message m.
IsWhole(m) ==
  /\ last.tok = Text(m)
  /\ IF Kind[m] = "data" /\ Claim[m] \in DataCell
     THEN /\ last.n = Claim[m]
          /\ \A c \in 1 .. last.n : last.cell[c] = IF c <= Size[m] THEN m ELSE 0
     ELSE last.n = 0

\* The last delivery is empty or bare because MapViewOfFile refused its pass a view.
IsUnread(m) == unread /\ last.n = 0 /\ last.tok \in {NoText, Text(m)}

\* A message whose call began while the reader was between passes with no
\* signal pending is read whole: until the next call what a callback is given is
\* that message, without its data or empty if a view was refused to its pass,
\* and the reader's process does not terminate, unless the control string has
\* no NUL in its segment.
CalmWriteReadWhole ==
  calm => /\ rpc = "terminated" => wmsg \in Long
          /\ rpc = "callback" => IsWhole(wmsg) \/ IsUnread(wmsg)

\* The signal of the last message is consumed, by a pass that got no view.
LastIsUnread == IsUnread(MaxMsg) /\ wpc = "idle" /\ ~event /\ rpc \in {"check", "wait"}

\* The last message is delivered whole, unless its call threw, its pass was
\* refused a view, a string that is torn or too long killed the reader, or its
\* owner stopped it: signals may coalesce, never at its expense.  After a
\* restart that holds again for a call begun when the new reader was there; one
\* whose signal the old reader consumed on its way out is not made up for.  It
\* holds of a call that came to its end, whatever a dead writer left before it.
LastMessageDelivered ==
  /\ (wpc = "idle" /\ wmsg = MaxMsg /\ ~thrown)
       ~> (IsWhole(MaxMsg) \/ LastIsUnread
           \/ rpc = "terminated" \/ opc # "up" \/ restarts > 0)
  /\ (wpc \notin {"idle", "dead"} /\ wmsg = MaxMsg /\ opc = "up" /\ restarts = MaxRestart)
       ~> (IsWhole(MaxMsg) \/ LastIsUnread
           \/ rpc = "terminated" \/ wpc = "dead" \/ thrown)

\* A destructor that began its shutdown gets past join, whatever the writer
\* and the event do meanwhile.
ShutdownCompletes ==
  opc = "stopping" ~> (opc = "closed" \/ rpc = "terminated")

=============================================================================
