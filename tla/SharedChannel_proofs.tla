-------------------------- MODULE SharedChannel_proofs --------------------------
(***************************************************************************)
(* Proofs about SharedChannel for every number of messages, every segment  *)
(* size and every assignment of kinds, sizes and claims.  The inductive    *)
(* invariant follows the order of the accesses: the writer finishes the    *)
(* data before it touches the control segment and zeroes the latter before *)
(* it copies, the reader goes the other way.                               *)
(***************************************************************************)
EXTENDS SharedChannel, TLAPS

\* The message a fill belongs to is a real one, and its payload fits.
WriterOK ==
  /\ wpc # "idle" => wmsg \in Msg
  /\ wpc \in {"zeroData", "copyData"} =>
       Kind[wmsg] = "data" /\ Size[wmsg] <= SegmentCells
  /\ wpc = "copyCtl" => wtodo \subseteq Tokens(wmsg)

\* The control segment never mixes two messages.
CtlOK ==
  /\ \A t \in Token : ctl[t] <= wmsg
  /\ \A s, t \in Token : ctl[s] # 0 /\ ctl[t] # 0 => ctl[s] = ctl[t]
  /\ wpc = "zeroCtl" => \A t \in Token \ wtodo : ctl[t] = 0
  /\ wpc = "copyCtl" => \A t \in Token : ctl[t] \in {0, wmsg}
  /\ ctl[2] # 0 => Kind[ctl[2]] = "data"

\* The data segment is never older than a size entry.
DataOK ==
  /\ wpc = "zeroData" => \A c \in DataCell \ wtodo : data[c] = 0
  /\ \/ wpc = "copyData"
     \/ wpc \in {"zeroCtl", "copyCtl"} /\ Kind[wmsg] = "data"
     => \A c \in DataCell : data[c] \in {0, wmsg}
  /\ ctl[2] # 0 => \A c \in DataCell : data[c] = 0 \/ data[c] >= ctl[2]

\* What the reader has copied of the control string is no newer than what the
\* segment holds, no older than what was shown, and in order.
ReadOK ==
  /\ seen.newest <= wmsg
  /\ \A t \in Token : rtok[t] <= wmsg
  /\ \A s \in Token : ctl[s] # 0 => seen.newest <= ctl[s]
  /\ \A s, t \in Token : ctl[s] # 0 => rtok[t] <= ctl[s]
  /\ \A s, t \in Token : s < t /\ rtok[s] # 0 /\ rtok[t] # 0 => rtok[s] <= rtok[t]
  /\ rpc \in {"strlen", "copy", "map", "data", "deliver"} =>
       \A t \in Token : rtok[t] # 0 => seen.newest <= rtok[t]
  /\ rpc = "strlen" => rtok = NoText /\ rpos \in 1 .. 5
  /\ rpc = "copy" => \A t \in Token : t >= rpos => rtok[t] = 0
  /\ rpc \in {"map", "data", "deliver"} =>
       \A s, t \in Token : s < t /\ rtok[t] # 0 => rtok[s] # 0

\* What the reader has copied of the data is no older than the size it read.
PayloadOK ==
  /\ rtok[2] # 0 => \A c \in DataCell : data[c] = 0 \/ data[c] >= rtok[2]
  /\ rpc \in {"strlen", "copy", "map"} => rdata = NoData
  /\ rpc \in {"data", "deliver"} =>
       \A c \in DataCell : rdata[c] = 0 \/ rdata[c] >= rtok[2]
  /\ rpc = "data" => rsize \in DataCell /\ rpos \in 1 .. rsize
  /\ rpc = "deliver" => rsize \in 0 .. SegmentCells

\* The callback's argument satisfies the two properties of deliveries.
LastOK == last.n <= SegmentCells /\ DataNotOlderThanSize /\ TokensInOrder

IInv == TypeOK /\ WriterOK /\ CtlOK /\ DataOK /\ ReadOK /\ PayloadOK /\ LastOK

-----------------------------------------------------------------------------
(* Lemmas about the operators.                                               *)

\* Every control string read has a first NUL, so Prefix is one of its tokens'
\* positions and UpToNul is what stands before it.
LEMMA PrefixExists ==
  ASSUME NEW tok \in [Token -> Nat]
  PROVE  Prefix(tok) \in 0 .. 4 /\ IsPrefix(tok, Prefix(tok))
<1>1. \E p \in 0 .. 4 : IsPrefix(tok, p)
  <2>1. CASE tok[1] = 0
    <3>1. IsPrefix(tok, 0)  BY <2>1 DEF IsPrefix, Token
    <3> QED  BY <3>1
  <2>2. CASE tok[1] # 0 /\ tok[2] = 0
    <3>1. IsPrefix(tok, 1)  BY <2>2 DEF IsPrefix, Token
    <3> QED  BY <3>1
  <2>3. CASE tok[1] # 0 /\ tok[2] # 0 /\ tok[3] = 0
    <3>1. IsPrefix(tok, 2)  BY <2>3 DEF IsPrefix, Token
    <3> QED  BY <3>1
  <2>4. CASE tok[1] # 0 /\ tok[2] # 0 /\ tok[3] # 0 /\ tok[4] = 0
    <3>1. IsPrefix(tok, 3)  BY <2>4 DEF IsPrefix, Token
    <3> QED  BY <3>1
  <2>5. CASE \A t \in 1 .. 4 : tok[t] # 0
    <3>1. IsPrefix(tok, 4)  BY <2>5 DEF IsPrefix, Token
    <3> QED  BY <3>1
  <2> QED  BY <2>1, <2>2, <2>3, <2>4, <2>5
<1> QED  BY <1>1 DEF Prefix

\* A string of four versions has a newest one.
LEMMA NewestIsMax ==
  ASSUME NEW tok \in [Token -> Nat]
  PROVE  /\ \E t \in Token : Newest(tok) = tok[t]
         /\ \A t \in Token : tok[t] <= Newest(tok)
<1>1. \E v \in {tok[t] : t \in Token} : \A t \in Token : tok[t] <= v
  <2>1. /\ tok[1] \in Nat /\ tok[2] \in Nat /\ tok[3] \in Nat /\ tok[4] \in Nat
        /\ \A t \in Token : t = 1 \/ t = 2 \/ t = 3 \/ t = 4
        /\ 1 \in Token /\ 2 \in Token /\ 3 \in Token /\ 4 \in Token
    BY DEF Token
  <2>2. PICK t \in Token :
          tok[1] <= tok[t] /\ tok[2] <= tok[t] /\ tok[3] <= tok[t] /\ tok[4] <= tok[t]
    BY <2>1
  <2>3. \A u \in Token : tok[u] <= tok[t]  BY <2>1, <2>2
  <2> QED  BY <2>3
<1> QED  BY <1>1 DEF Newest

-----------------------------------------------------------------------------
(* The invariant holds initially and every action preserves it.              *)

LEMMA InitIInv == Init => IInv
<1> SUFFICES ASSUME Init PROVE IInv  OBVIOUS
<1>1. /\ \A c \in DataCell : data[c] = 0 /\ rdata[c] = 0
      /\ \A t \in Token : ctl[t] = 0 /\ rtok[t] = 0 /\ last.tok[t] = 0
  BY DEF Init, NoText, NoData
<1>2. MemoryTypeOK /\ WriterTypeOK /\ OwnerTypeOK
  <2>1. 0 \in Version /\ 0 \in 0 .. MaxRestart
    BY ChannelAssumption DEF Version
  <2>2. MemoryTypeOK  BY <2>1 DEF Init, MemoryTypeOK, NoText, NoData
  <2>3. WriterTypeOK  BY <2>1 DEF Init, WriterTypeOK
  <2>4. OwnerTypeOK   BY <2>1 DEF Init, OwnerTypeOK
  <2> QED  BY <2>2, <2>3, <2>4
<1>3. ReaderTypeOK /\ ShownTypeOK
  <2>1. unread \in BOOLEAN  BY DEF Init
  <2> QED
    BY <2>1, ChannelAssumption
       DEF Init, ReaderTypeOK, ShownTypeOK, NoText, NoData, Version
<1>4. WriterOK /\ CtlOK /\ DataOK
  BY <1>1 DEF Init, WriterOK, CtlOK, DataOK, Token
<1>5. ReadOK /\ PayloadOK
  BY <1>1 DEF Init, ReadOK, PayloadOK, Token
<1>6. LastOK
  BY <1>1, ChannelAssumption DEF Init, LastOK, DataNotOlderThanSize, TokensInOrder, Token
<1> QED  BY <1>2, <1>3, <1>4, <1>5, <1>6 DEF IInv, TypeOK

USE DEF IInv

\* The types of the variables an ordering fact compares.
LEMMA Types ==
  ASSUME TypeOK
  PROVE  /\ wmsg \in Nat /\ wmsg <= MaxMsg /\ MaxMsg \in Nat
         /\ \A t \in Token : ctl[t] \in Nat /\ rtok[t] \in Nat
         /\ \A c \in DataCell : data[c] \in Nat /\ rdata[c] \in Nat
         /\ seen.newest \in Nat /\ rsize \in Nat /\ rpos \in Nat
BY ChannelAssumption
   DEF TypeOK, MemoryTypeOK, WriterTypeOK, ReaderTypeOK, ShownTypeOK, Version

LEMMA BeginIInv ==
  ASSUME IInv, BeginWriteData \/ RejectWriteData \/ BeginControlCall \/ RejectControlCall
       PROVE  IInv'
<1>1. UNCHANGED <<data, ctl, event, running, opc, restarts, rpc, rpos, rlen,
                  rtok, rsize, rdata, unread, last, seen>>
  BY DEF BeginWriteData, RejectWriteData, BeginControlCall, RejectControlCall, BeginCall, memory,
         owner, reader, shown
<1>2. /\ MemoryTypeOK' /\ ReaderTypeOK' /\ ShownTypeOK' /\ PayloadOK'
      /\ LastOK'
  BY <1>1 DEF TypeOK, MemoryTypeOK, ReaderTypeOK, ShownTypeOK, PayloadOK,
              LastOK, DataNotOlderThanSize, TokensInOrder
<1>3. /\ wpc \in {"idle", "dead"} /\ wmsg' = wmsg + 1 /\ wmsg' \in Msg
      /\ \/ wpc' = "idle" /\ wtodo' = {}
         \/ /\ wpc' = "zeroData" /\ wtodo' = DataCell
            /\ Kind[wmsg'] = "data" /\ Size[wmsg'] <= SegmentCells
         \/ wpc' = "zeroCtl" /\ wtodo' = Token /\ Kind[wmsg'] # "data"
  BY Types DEF BeginWriteData, RejectWriteData, BeginControlCall, RejectControlCall, BeginCall,
       CanCall, Msg
<1>4. calm' \in BOOLEAN /\ thrown' \in BOOLEAN
  BY DEF BeginWriteData, RejectWriteData, BeginControlCall, RejectControlCall, BeginCall, Quiet
<1>5. WriterTypeOK'
  BY <1>3, <1>4, ChannelAssumption DEF WriterTypeOK, Version, Msg
<1>6. OwnerTypeOK'
  BY <1>1, <1>4 DEF TypeOK, OwnerTypeOK
<1>7. WriterOK'
  BY <1>3 DEF WriterOK
<1>8. CtlOK'
  BY <1>1, <1>3, Types DEF CtlOK
<1>9. DataOK'
  BY <1>1, <1>3, Types DEF DataOK
<1>10. ReadOK'
  BY <1>1, <1>3, Types DEF ReadOK
<1> QED  BY <1>2, <1>5, <1>6, <1>7, <1>8, <1>9, <1>10 DEF TypeOK

LEMMA ZeroDataIInv ==
  ASSUME IInv, ZeroData  PROVE  IInv'
<1>1. UNCHANGED <<ctl, event, wpc, wmsg, thrown, running, opc, restarts, calm, rpc,
                  rpos, rlen, rtok, rsize, rdata, unread, last, seen>>
  BY DEF ZeroData, FillData, owner, reader, shown
<1>2. /\ OwnerTypeOK' /\ ReaderTypeOK' /\ ShownTypeOK' /\ ReadOK'
      /\ LastOK'
  BY <1>1 DEF TypeOK, OwnerTypeOK, ReaderTypeOK, ShownTypeOK, ReadOK, LastOK,
              DataNotOlderThanSize, TokensInOrder
<1>3. PICK c \in wtodo : data' = [data EXCEPT ![c] = 0] /\ wtodo' = wtodo \ {c}
  BY DEF ZeroData, FillData
<1>4. /\ wpc = "zeroData" /\ c \in DataCell
      /\ \A d \in DataCell : data'[d] = IF d = c THEN 0 ELSE data[d]
  BY <1>3 DEF ZeroData, FillData, TypeOK, WriterTypeOK, MemoryTypeOK
<1>5. MemoryTypeOK'
  <2>1. 0 \in Version  BY ChannelAssumption DEF TypeOK, WriterTypeOK, Version
  <2> QED  BY <1>1, <1>3, <2>1 DEF TypeOK, MemoryTypeOK
<1>6. WriterTypeOK'
  BY <1>1, <1>3 DEF TypeOK, WriterTypeOK
<1>7. WriterOK'
  BY <1>1, <1>4 DEF WriterOK
<1>8. CtlOK'
  BY <1>1, <1>4 DEF CtlOK
<1>9. DataOK'
  BY <1>1, <1>3, <1>4, Types DEF DataOK, CtlOK, Token
<1>10. PayloadOK'
  BY <1>1, <1>4, Types DEF PayloadOK, ReadOK, Token
<1> QED  BY <1>2, <1>5, <1>6, <1>7, <1>8, <1>9, <1>10 DEF TypeOK

LEMMA CopyDataIInv ==
  ASSUME IInv, CopyData  PROVE  IInv'
<1>1. UNCHANGED <<ctl, event, wpc, wmsg, thrown, running, opc, restarts, calm, rpc,
                  rpos, rlen, rtok, rsize, rdata, unread, last, seen>>
  BY DEF CopyData, FillData, owner, reader, shown
<1>2. /\ OwnerTypeOK' /\ ReaderTypeOK' /\ ShownTypeOK' /\ ReadOK'
      /\ LastOK'
  BY <1>1 DEF TypeOK, OwnerTypeOK, ReaderTypeOK, ShownTypeOK, ReadOK, LastOK,
              DataNotOlderThanSize, TokensInOrder
<1>3. PICK c \in wtodo : data' = [data EXCEPT ![c] = wmsg] /\ wtodo' = wtodo \ {c}
  BY DEF CopyData, FillData
<1>4. /\ wpc = "copyData" /\ c \in DataCell
      /\ \A d \in DataCell : data'[d] = IF d = c THEN wmsg ELSE data[d]
  BY <1>3 DEF CopyData, FillData, TypeOK, WriterTypeOK, MemoryTypeOK
<1>5. MemoryTypeOK'
  <2>1. wmsg \in Version  BY ChannelAssumption DEF TypeOK, WriterTypeOK, Version
  <2> QED  BY <1>1, <1>3, <2>1 DEF TypeOK, MemoryTypeOK
<1>6. WriterTypeOK'
  BY <1>1, <1>3 DEF TypeOK, WriterTypeOK
<1>7. WriterOK'
  BY <1>1, <1>4 DEF WriterOK
<1>8. CtlOK'
  BY <1>1, <1>4 DEF CtlOK
<1>9. DataOK'
  BY <1>1, <1>3, <1>4, Types DEF DataOK, CtlOK, Token
<1>10. PayloadOK'
  BY <1>1, <1>4, Types DEF PayloadOK, ReadOK, Token
<1> QED  BY <1>2, <1>5, <1>6, <1>7, <1>8, <1>9, <1>10 DEF TypeOK

LEMMA ZeroCtlIInv ==
  ASSUME IInv, ZeroCtl  PROVE  IInv'
<1>1. UNCHANGED <<data, event, wpc, wmsg, thrown, running, opc, restarts, calm, rpc,
                  rpos, rlen, rtok, rsize, rdata, unread, last, seen>>
  BY DEF ZeroCtl, FillCtl, owner, reader, shown
<1>2. /\ OwnerTypeOK' /\ ReaderTypeOK' /\ ShownTypeOK' /\ PayloadOK'
      /\ LastOK'
  BY <1>1 DEF TypeOK, OwnerTypeOK, ReaderTypeOK, ShownTypeOK, PayloadOK,
              LastOK, DataNotOlderThanSize, TokensInOrder
<1>3. PICK c \in wtodo : ctl' = [ctl EXCEPT ![c] = 0] /\ wtodo' = wtodo \ {c}
  BY DEF ZeroCtl, FillCtl
<1>4. /\ wpc = "zeroCtl" /\ c \in Token
      /\ \A t \in Token : ctl'[t] = IF t = c THEN 0 ELSE ctl[t]
  BY <1>3 DEF ZeroCtl, FillCtl, TypeOK, WriterTypeOK, MemoryTypeOK
<1>5. MemoryTypeOK'
  <2>1. 0 \in Version  BY ChannelAssumption DEF TypeOK, WriterTypeOK, Version
  <2> QED  BY <1>1, <1>3, <2>1 DEF TypeOK, MemoryTypeOK
<1>6. WriterTypeOK'
  BY <1>1, <1>3 DEF TypeOK, WriterTypeOK
<1>7. WriterOK'
  BY <1>1, <1>3, <1>4 DEF WriterOK
<1>8. CtlOK'
  BY <1>1, <1>3, <1>4, Types DEF CtlOK, Token
<1>9. DataOK'
  BY <1>1, <1>4, Types DEF DataOK, CtlOK, Token
<1>10. ReadOK'
  BY <1>1, <1>4, Types DEF ReadOK
<1> QED  BY <1>2, <1>5, <1>6, <1>7, <1>8, <1>9, <1>10 DEF TypeOK

LEMMA CopyCtlIInv ==
  ASSUME IInv, CopyCtl  PROVE  IInv'
<1>1. UNCHANGED <<data, event, wpc, wmsg, thrown, running, opc, restarts, calm, rpc,
                  rpos, rlen, rtok, rsize, rdata, unread, last, seen>>
  BY DEF CopyCtl, FillCtl, owner, reader, shown
<1>2. /\ OwnerTypeOK' /\ ReaderTypeOK' /\ ShownTypeOK' /\ PayloadOK'
      /\ LastOK'
  BY <1>1 DEF TypeOK, OwnerTypeOK, ReaderTypeOK, ShownTypeOK, PayloadOK,
              LastOK, DataNotOlderThanSize, TokensInOrder
<1>3. PICK c \in wtodo : ctl' = [ctl EXCEPT ![c] = wmsg] /\ wtodo' = wtodo \ {c}
  BY DEF CopyCtl, FillCtl
<1>4. /\ wpc = "copyCtl" /\ c \in Token
      /\ \A t \in Token : ctl'[t] = IF t = c THEN wmsg ELSE ctl[t]
  BY <1>3 DEF CopyCtl, FillCtl, TypeOK, WriterTypeOK, MemoryTypeOK
<1>5. c = 2 => Kind[wmsg] = "data"
  BY <1>3, <1>4 DEF WriterOK, Tokens
<1>6. MemoryTypeOK'
  <2>1. wmsg \in Version  BY ChannelAssumption DEF TypeOK, WriterTypeOK, Version
  <2> QED  BY <1>1, <1>3, <2>1 DEF TypeOK, MemoryTypeOK
<1>7. WriterTypeOK'
  BY <1>1, <1>3 DEF TypeOK, WriterTypeOK
<1>8. WriterOK'
  BY <1>1, <1>3, <1>4 DEF WriterOK
<1>9. CtlOK'
  BY <1>1, <1>3, <1>4, <1>5, Types DEF CtlOK, Token
<1>10. DataOK'
  BY <1>1, <1>4, <1>5, Types DEF DataOK, CtlOK, Token
<1>11. ReadOK'
  BY <1>1, <1>4, Types DEF ReadOK
<1> QED  BY <1>2, <1>6, <1>7, <1>8, <1>9, <1>10, <1>11 DEF TypeOK

LEMMA NextFillIInv ==
  ASSUME IInv, DataZeroed \/ DataCopied \/ LeaveDataUnannounced \/ CtlZeroed \/ SignalData
  PROVE  IInv'
<1>1. UNCHANGED <<data, ctl, wmsg, running, opc, restarts, calm, rpc, rpos,
                  rlen, rtok, rsize, rdata, unread, last, seen>>
  BY DEF DataZeroed, DataCopied, LeaveDataUnannounced, CtlZeroed, SignalData, NextFill,
         memory, owner, reader, shown
<1>2. /\ OwnerTypeOK' /\ ReaderTypeOK' /\ ShownTypeOK' /\ ReadOK'
      /\ PayloadOK' /\ LastOK'
  BY <1>1 DEF TypeOK, OwnerTypeOK, ReaderTypeOK, ShownTypeOK, ReadOK,
              PayloadOK, LastOK, DataNotOlderThanSize, TokensInOrder
<1>3. /\ event' \in BOOLEAN /\ thrown' \in BOOLEAN /\ wtodo = {}
      /\ \/ /\ wpc = "zeroData" /\ wpc' = "copyData" /\ wtodo' \subseteq DataCell
         \/ wpc = "copyData" /\ wpc' = "zeroCtl" /\ wtodo' = Token
         \/ /\ wpc = "zeroCtl" /\ wpc' = "copyCtl"
            /\ wtodo' = Tokens(wmsg) /\ wtodo' \subseteq Token
         \/ wpc \in {"copyData", "copyCtl"} /\ wpc' = "idle" /\ wtodo' = {}
  <2>1. CASE DataZeroed
    <3>1. 1 .. Size[wmsg] \subseteq DataCell
      BY <2>1, ChannelAssumption DEF DataZeroed, NextFill, WriterOK, DataCell
    <3> QED
      BY <2>1, <3>1 DEF DataZeroed, NextFill, TypeOK, MemoryTypeOK, WriterTypeOK
  <2>2. CASE DataCopied \/ CtlZeroed
    BY <2>2 DEF DataCopied, CtlZeroed, NextFill, TypeOK, MemoryTypeOK, WriterTypeOK, Tokens
  <2>3. CASE LeaveDataUnannounced \/ SignalData
    BY <2>3 DEF LeaveDataUnannounced, SignalData, TypeOK, MemoryTypeOK, WriterTypeOK
  <2> QED  BY <2>1, <2>2, <2>3
<1>4. MemoryTypeOK'
  BY <1>1, <1>3 DEF TypeOK, MemoryTypeOK
<1>5. WriterTypeOK'
  BY <1>1, <1>3 DEF TypeOK, WriterTypeOK
<1>6. WriterOK'
  BY <1>1, <1>3 DEF WriterOK
<1>7. CtlOK'
  BY <1>1, <1>3, Types DEF CtlOK
<1>8. DataOK'
  BY <1>1, <1>3, Types DEF DataOK, WriterOK
<1> QED  BY <1>2, <1>4, <1>5, <1>6, <1>7, <1>8 DEF TypeOK

\* A dead writer leaves what it had filled, or nothing at all.
LEMMA WriterDiesIInv ==
  ASSUME IInv, WriterDies \/ CopyPastEnd  PROVE  IInv'
<1>1. /\ UNCHANGED <<wmsg, running, opc, restarts, rpc, rpos, rlen, rtok, rsize,
                     rdata, unread, thrown, last, seen>>
      /\ wpc' = "dead" /\ wtodo' = {} /\ wmsg \in Msg /\ calm' = FALSE
  BY ChannelAssumption DEF WriterDies, CopyPastEnd, EndWriterProcess, owner, reader, shown
<1>2. \/ UNCHANGED <<data, ctl, event>>
      \/ data' = NoData /\ ctl' = NoText /\ event' = FALSE
  BY DEF WriterDies, CopyPastEnd, EndWriterProcess, memory
<1>3. /\ \A t \in Token : ctl'[t] = ctl[t] \/ ctl'[t] = 0
      /\ \A c \in DataCell : data'[c] = data[c] \/ data'[c] = 0
      /\ (\A t \in Token : ctl'[t] = ctl[t]) \/ (\A t \in Token : ctl'[t] = 0)
  BY <1>2 DEF NoData, NoText
<1>4. MemoryTypeOK'
  <2>1. 0 \in Version  BY ChannelAssumption DEF Version
  <2> QED  BY <1>2, <2>1 DEF TypeOK, MemoryTypeOK, NoData, NoText
<1>5. WriterTypeOK' /\ OwnerTypeOK' /\ WriterOK'
  BY <1>1 DEF TypeOK, WriterTypeOK, OwnerTypeOK, WriterOK
<1>6. ReaderTypeOK' /\ ShownTypeOK' /\ LastOK'
  BY <1>1 DEF TypeOK, ReaderTypeOK, ShownTypeOK, LastOK, DataNotOlderThanSize, TokensInOrder
<1>7. CtlOK'
  BY <1>1, <1>3, Types DEF CtlOK, Token
<1>8. DataOK'
  BY <1>1, <1>3, Types DEF DataOK, Token
<1>9. ReadOK'
  BY <1>1, <1>3, Types DEF ReadOK
<1>10. PayloadOK'
  BY <1>1, <1>3, Types DEF PayloadOK, Token
<1> QED  BY <1>4, <1>5, <1>6, <1>7, <1>8, <1>9, <1>10 DEF TypeOK

LEMMA WaitIInv ==
  ASSUME IInv,
         \/ CheckRunning \/ WaitSignalled \/ WaitTimeout \/ StopWoken
         \/ BeginRead \/ RefuseControl
  PROVE  IInv'
<1>1. UNCHANGED <<data, ctl, wpc, wmsg, wtodo, thrown, running, opc, restarts, calm,
                  thrown, last, seen>>
  BY DEF CheckRunning, WaitSignalled, WaitTimeout, StopWoken, BeginRead, RefuseControl,
         LocalStep, memory, writer, owner, shown
<1>2. /\ WriterTypeOK' /\ OwnerTypeOK' /\ ShownTypeOK' /\ WriterOK'
      /\ CtlOK' /\ DataOK' /\ LastOK'
  BY <1>1 DEF TypeOK, WriterTypeOK, OwnerTypeOK, ShownTypeOK, WriterOK, CtlOK,
              DataOK, LastOK, DataNotOlderThanSize, TokensInOrder
<1>3. /\ event' \in BOOLEAN /\ unread' \in BOOLEAN /\ rlen' = rlen
      /\ \/ /\ rpc' \in {"wait", "exited", "woken", "check"}
            /\ UNCHANGED <<rpos, rtok, rsize, rdata>>
         \/ /\ \/ rpc' = "strlen" /\ rpos' = 1
               \/ rpc' = "deliver" /\ rpos' = rpos
            /\ rtok' = NoText /\ rsize' = 0 /\ rdata' = NoData
  BY DEF CheckRunning, WaitSignalled, WaitTimeout, StopWoken, BeginRead, RefuseControl,
         TypeOK, MemoryTypeOK, ReaderTypeOK
<1>4. MemoryTypeOK'
  BY <1>1, <1>3 DEF TypeOK, MemoryTypeOK
<1>5. ReaderTypeOK'
  BY <1>3, ChannelAssumption DEF TypeOK, ReaderTypeOK, NoText, NoData, Version
<1>6. ReadOK'
  BY <1>1, <1>3, Types DEF ReadOK, NoText
<1>7. PayloadOK'
  BY <1>1, <1>3, Types, ChannelAssumption DEF PayloadOK, NoText, NoData, Token
<1> QED  BY <1>2, <1>4, <1>5, <1>6, <1>7 DEF TypeOK

LEMMA MeasureIInv ==
  ASSUME IInv, MeasureControl \/ ScanPastEnd  PROVE  IInv'
<1>1. UNCHANGED <<data, ctl, event, wpc, wmsg, wtodo, thrown, running, opc, restarts,
                  calm, rtok, rsize, rdata, unread, last, seen>>
  BY DEF MeasureControl, ScanPastEnd, LocalStep, memory, writer, owner, shown
<1>2. /\ MemoryTypeOK' /\ WriterTypeOK' /\ OwnerTypeOK' /\ ShownTypeOK'
      /\ WriterOK' /\ CtlOK' /\ DataOK' /\ LastOK'
  BY <1>1 DEF TypeOK, MemoryTypeOK, WriterTypeOK, OwnerTypeOK, ShownTypeOK,
              WriterOK, CtlOK, DataOK, LastOK, DataNotOlderThanSize,
              TokensInOrder
<1>3. /\ rpc = "strlen" /\ rpos' \in 1 .. 5 /\ rlen' \in 0 .. 4
      /\ rpc' \in {"strlen", "copy", "terminated"}
  BY DEF MeasureControl, ScanPastEnd, ReadOK, TypeOK, ReaderTypeOK, Token
<1>4. ReaderTypeOK'
  BY <1>1, <1>3 DEF TypeOK, ReaderTypeOK
<1>5. ReadOK'
  BY <1>1, <1>3, Types DEF ReadOK, NoText
<1>6. PayloadOK'
  BY <1>1, <1>3 DEF PayloadOK
<1> QED  BY <1>2, <1>4, <1>5, <1>6 DEF TypeOK

LEMMA CopyControlIInv ==
  ASSUME IInv, CopyControl  PROVE  IInv'
<1>1. UNCHANGED <<data, ctl, event, wpc, wmsg, wtodo, thrown, running, opc, restarts,
                  calm, rpc, rlen, rsize, rdata, unread, last, seen>>
  BY DEF CopyControl, LocalStep, memory, writer, owner, shown
<1>2. /\ MemoryTypeOK' /\ WriterTypeOK' /\ OwnerTypeOK' /\ ShownTypeOK'
      /\ WriterOK' /\ CtlOK' /\ DataOK' /\ LastOK'
  BY <1>1 DEF TypeOK, MemoryTypeOK, WriterTypeOK, OwnerTypeOK, ShownTypeOK,
              WriterOK, CtlOK, DataOK, LastOK, DataNotOlderThanSize,
              TokensInOrder
<1>3. /\ rpc = "copy" /\ rpos \in Token /\ rpos' = rpos + 1
      /\ rtok' = [rtok EXCEPT ![rpos] = ctl[rpos]]
  BY DEF CopyControl, TypeOK, ReaderTypeOK, Token
<1>4. \A t \in Token : rtok'[t] = IF t = rpos THEN ctl[rpos] ELSE rtok[t]
  BY <1>3 DEF TypeOK, ReaderTypeOK
<1>5. ReaderTypeOK'
  <2>1. rpos + 1 \in Nat \ {0} /\ ctl[rpos] \in Version
    BY <1>3 DEF TypeOK, MemoryTypeOK, Token
  <2>2. rtok' \in [Token -> Version]
    BY <1>3, <2>1 DEF TypeOK, ReaderTypeOK
  <2> QED  BY <1>1, <1>3, <2>1, <2>2 DEF TypeOK, ReaderTypeOK
<1>6. ReadOK'
  <2>1. \A t \in Token : t \in Nat /\ (t >= rpos => rtok[t] = 0)
    BY <1>3 DEF ReadOK, Token
  <2>2. \A s \in Token : ctl[s] # 0 => ctl[rpos] <= ctl[s]
    BY <1>3, Types DEF CtlOK
  <2>3. \A s, t \in Token : s < t /\ rtok'[s] # 0 /\ rtok'[t] # 0 => rtok'[s] <= rtok'[t]
    BY <1>3, <1>4, <2>1, Types DEF ReadOK
  <2>4. \A t \in Token : t >= rpos' => rtok'[t] = 0
    BY <1>3, <1>4, <2>1
  <2>5. \A t \in Token : rtok'[t] # 0 => seen.newest <= rtok'[t]
    BY <1>3, <1>4 DEF ReadOK
  <2>6. \A t \in Token :
          rtok'[t] <= wmsg /\ \A s \in Token : ctl[s] # 0 => rtok'[t] <= ctl[s]
    BY <1>3, <1>4, <2>2 DEF ReadOK, CtlOK
  <2> QED  BY <1>1, <1>3, <2>3, <2>4, <2>5, <2>6 DEF ReadOK
<1>7. PayloadOK'
  BY <1>1, <1>3, <1>4, Types DEF PayloadOK, DataOK, Token
<1> QED  BY <1>2, <1>5, <1>6, <1>7 DEF TypeOK

\* The string that is parsed is cut at its first NUL.
LEMMA ParsedIInv ==
  ASSUME IInv, NEW n \in Nat, Copied, Parsed(n)  PROVE  IInv'
<1>1. rtok \in [Token -> Nat]
  BY Types, ChannelAssumption DEF TypeOK, ReaderTypeOK, Version
<1>2. /\ Prefix(rtok) \in 0 .. 4
      /\ \A t \in 1 .. Prefix(rtok) : rtok[t] # 0
  BY <1>1, PrefixExists DEF IsPrefix
<1>3. /\ \A t \in Token : rtok'[t] = IF t <= Prefix(rtok) THEN rtok[t] ELSE 0
      /\ rtok' \in [Token -> Version]
  BY ChannelAssumption DEF Parsed, UpToNul, TypeOK, ReaderTypeOK, Version
<1>4. \A s, t \in Token : s < t /\ rtok'[t] # 0 => rtok'[s] # 0
  <2> SUFFICES ASSUME NEW s \in Token, NEW t \in Token, s < t, rtok'[t] # 0
               PROVE  rtok'[s] # 0
    OBVIOUS
  <2>1. t <= Prefix(rtok)  BY <1>3
  <2>2. s \in 1 .. Prefix(rtok)  BY <1>2, <2>1 DEF Token
  <2> QED  BY <1>2, <1>3, <2>2
<1>5. /\ rpc = "copy" /\ rpc' = "map" /\ rsize' = n
      /\ UNCHANGED <<data, ctl, wpc, wmsg, wtodo, thrown, running, opc, restarts, calm,
                     event, rpos, rlen, rdata, unread, last, seen>>
  BY DEF Copied, Parsed, LocalStep, memory, writer, owner, shown
<1>6. \A t \in Token : rtok'[t] = rtok[t] \/ rtok'[t] = 0
  BY <1>3
<1>7. /\ MemoryTypeOK' /\ WriterTypeOK' /\ OwnerTypeOK' /\ ShownTypeOK'
      /\ WriterOK' /\ CtlOK' /\ DataOK' /\ LastOK'
  BY <1>5 DEF TypeOK, MemoryTypeOK, WriterTypeOK, OwnerTypeOK, ShownTypeOK, WriterOK,
              CtlOK, DataOK, LastOK, DataNotOlderThanSize, TokensInOrder
<1>8. ReaderTypeOK'
  BY <1>3, <1>5 DEF TypeOK, ReaderTypeOK
<1>9. ReadOK'
  BY <1>4, <1>5, <1>6, Types DEF ReadOK
<1>10. PayloadOK'
  <2>1. rtok'[2] = rtok[2] \/ rtok'[2] = 0  BY <1>6 DEF Token
  <2> QED  BY <1>5, <2>1 DEF PayloadOK
<1> QED  BY <1>7, <1>8, <1>9, <1>10 DEF TypeOK

LEMMA ParseIInv ==
  ASSUME IInv,
         ParseWithoutSize \/ ParseSize \/ ParseTornDigits \/ ParseTerminates
  PROVE  IInv'
<1>1. rtok \in [Token -> Nat]
  BY ChannelAssumption DEF TypeOK, ReaderTypeOK, Version
<1>2. Prefix(rtok) \in 0 .. 4 /\ \A t \in 1 .. Prefix(rtok) : rtok[t] # 0
  BY <1>1, PrefixExists DEF IsPrefix
<1>3. \A t \in 1 .. Prefix(rtok) : Claim[rtok[t]] \in Nat
  BY <1>2, ChannelAssumption DEF TypeOK, ReaderTypeOK, Version, Msg, Token
<1>4. CASE ParseWithoutSize
  BY <1>4, ParsedIInv DEF ParseWithoutSize
<1>5. CASE ParseSize
  <2>1. Claim[rtok[3]] \in Nat  BY <1>2, <1>3, <1>5 DEF ParseSize
  <2> QED  BY <1>5, <2>1, ParsedIInv DEF ParseSize
<1>6. CASE ParseTornDigits
  BY <1>6, ParsedIInv DEF ParseTornDigits
<1>7. CASE ParseTerminates
  BY <1>7 DEF ParseTerminates, Copied, LocalStep, memory, writer, owner, shown,
              TypeOK, MemoryTypeOK, WriterTypeOK, OwnerTypeOK, ReaderTypeOK,
              ShownTypeOK, WriterOK, CtlOK, DataOK, ReadOK, PayloadOK, LastOK,
              DataNotOlderThanSize, TokensInOrder
<1> QED  BY <1>4, <1>5, <1>6, <1>7

LEMMA MapDataIInv ==
  ASSUME IInv, SkipData \/ MapData \/ RefuseData  PROVE  IInv'
<1>1. UNCHANGED <<data, ctl, event, wpc, wmsg, wtodo, thrown, running, opc, restarts,
                  calm, rlen, rtok, rdata, last, seen>>
  BY DEF SkipData, MapData, RefuseData, LocalStep, memory, writer, owner, shown
<1>2. /\ MemoryTypeOK' /\ WriterTypeOK' /\ OwnerTypeOK' /\ ShownTypeOK'
      /\ WriterOK' /\ CtlOK' /\ DataOK' /\ LastOK'
  BY <1>1 DEF TypeOK, MemoryTypeOK, WriterTypeOK, OwnerTypeOK, ShownTypeOK,
              WriterOK, CtlOK, DataOK, LastOK, DataNotOlderThanSize,
              TokensInOrder
<1>3. /\ rpc = "map" /\ rpos' \in Nat \ {0} /\ rsize' \in Nat /\ unread' \in BOOLEAN
      /\ \/ rpc' = "deliver" /\ rsize' = 0
         \/ rpc' = "data" /\ rsize' = rsize /\ rsize \in DataCell /\ rpos' = 1
  <2>1. rpos \in Nat \ {0} /\ rsize \in Nat /\ unread \in BOOLEAN
    BY DEF TypeOK, ReaderTypeOK
  <2>2. CASE SkipData    BY <2>1, <2>2 DEF SkipData
  <2>3. CASE MapData     BY <2>1, <2>3 DEF MapData
  <2>4. CASE RefuseData  BY <2>1, <2>4 DEF RefuseData
  <2> QED  BY <2>2, <2>3, <2>4
<1>4. \A c \in DataCell : rdata[c] = 0
  BY <1>3 DEF PayloadOK, NoData
<1>5. ReaderTypeOK'
  BY <1>1, <1>3 DEF TypeOK, ReaderTypeOK
<1>6. ReadOK'
  BY <1>1, <1>3 DEF ReadOK
<1>7. PayloadOK'
  BY <1>1, <1>3, <1>4, ChannelAssumption DEF PayloadOK, DataCell
<1> QED  BY <1>2, <1>5, <1>6, <1>7 DEF TypeOK

LEMMA ReadDataIInv ==
  ASSUME IInv, ReadData  PROVE  IInv'
<1>1. UNCHANGED <<data, ctl, event, wpc, wmsg, wtodo, thrown, running, opc, restarts,
                  calm, rlen, rtok, rsize, unread, last, seen>>
  BY DEF ReadData, LocalStep, memory, writer, owner, shown
<1>2. /\ MemoryTypeOK' /\ WriterTypeOK' /\ OwnerTypeOK' /\ ShownTypeOK'
      /\ WriterOK' /\ CtlOK' /\ DataOK' /\ LastOK'
  BY <1>1 DEF TypeOK, MemoryTypeOK, WriterTypeOK, OwnerTypeOK, ShownTypeOK,
              WriterOK, CtlOK, DataOK, LastOK, DataNotOlderThanSize,
              TokensInOrder
<1>3. /\ rpc = "data" /\ rsize \in DataCell /\ rpos \in 1 .. rsize /\ rpos \in DataCell
      /\ rpos' = rpos + 1 /\ rpc' = IF rpos = rsize THEN "deliver" ELSE "data"
      /\ rdata' = [rdata EXCEPT ![rpos] = data[rpos]]
  BY ChannelAssumption DEF ReadData, PayloadOK, DataCell
<1>4. \A c \in DataCell : rdata'[c] = IF c = rpos THEN data[rpos] ELSE rdata[c]
  BY <1>3 DEF TypeOK, ReaderTypeOK
<1>5. rtok[2] \in Nat  BY Types DEF Token
<1>6. ReaderTypeOK'
  BY <1>1, <1>3 DEF TypeOK, ReaderTypeOK, MemoryTypeOK
<1>7. ReadOK'
  BY <1>1, <1>3 DEF ReadOK
<1>8. PayloadOK'
  BY <1>1, <1>3, <1>4, <1>5, Types, ChannelAssumption DEF PayloadOK, DataCell
<1> QED  BY <1>2, <1>6, <1>7, <1>8 DEF TypeOK

LEMMA CallbackIInv ==
  ASSUME IInv, EnterCallback  PROVE  IInv'
<1>1. rtok \in [Token -> Nat] /\ 1 \in Token /\ rtok[1] \in Version
  BY ChannelAssumption DEF TypeOK, ReaderTypeOK, Version, Token
<1>2. /\ \A t \in Token : rtok[t] <= Newest(rtok)
      /\ \E t \in Token : Newest(rtok) = rtok[t]
  BY <1>1, NewestIsMax
<1>3. Newest(rtok) \in Version
  BY <1>2 DEF TypeOK, ReaderTypeOK
<1>4. /\ rpc = "deliver" /\ rpc' = "callback"
      /\ last' = [tok |-> rtok, n |-> rsize, cell |-> rdata]
      /\ UNCHANGED <<data, ctl, wpc, wmsg, wtodo, thrown, running, opc, restarts, calm,
                     event, rpos, rlen, rtok, rsize, rdata, unread>>
  BY DEF EnterCallback, LocalStep, memory, writer, owner
<1>5. seen' \in [oldest : Version, newest : Version]
  BY <1>1, <1>3 DEF EnterCallback, TypeOK, ShownTypeOK
<1>6. seen'.newest = seen.newest \/ \E t \in Token : seen'.newest = rtok[t]
  BY <1>2 DEF EnterCallback
<1>7. /\ MemoryTypeOK' /\ WriterTypeOK' /\ OwnerTypeOK'
      /\ WriterOK' /\ CtlOK' /\ DataOK'
  BY <1>4 DEF TypeOK, MemoryTypeOK, WriterTypeOK, OwnerTypeOK, WriterOK, CtlOK, DataOK
<1>8. ReaderTypeOK'
  BY <1>4 DEF TypeOK, ReaderTypeOK
<1>9. ShownTypeOK'
  BY <1>4, <1>5 DEF TypeOK, ReaderTypeOK, ShownTypeOK
<1>10. ReadOK'
  BY <1>4, <1>6, Types DEF ReadOK
<1>11. PayloadOK'
  BY <1>4 DEF PayloadOK
<1>12. LastOK'
  <2>1. last'.n = rsize /\ last'.tok = rtok /\ last'.cell = rdata
    BY <1>4
  <2>2. 2 \in Token /\ 1 .. rsize \subseteq DataCell /\ rsize <= SegmentCells
    BY <1>4, ChannelAssumption DEF PayloadOK, Token, DataCell
  <2>3. DataNotOlderThanSize'
    BY <1>4, <2>1, <2>2 DEF PayloadOK, DataNotOlderThanSize
  <2>4. TokensInOrder'
    BY <1>4, <2>1, Types DEF ReadOK, TokensInOrder
  <2> QED  BY <2>1, <2>2, <2>3, <2>4 DEF LastOK
<1> QED  BY <1>7, <1>8, <1>9, <1>10, <1>11, <1>12 DEF TypeOK

LEMMA ReturnIInv ==
  ASSUME IInv, ReturnFromCallback  PROVE  IInv'
<1>1. UNCHANGED <<data, ctl, event, wpc, wmsg, wtodo, thrown, running, opc, restarts,
                  calm, rpos, rlen, rtok, rsize, rdata, unread, last, seen>>
  BY DEF ReturnFromCallback, LocalStep, memory, writer, owner, shown
<1>2. /\ MemoryTypeOK' /\ WriterTypeOK' /\ OwnerTypeOK' /\ ShownTypeOK'
      /\ WriterOK' /\ CtlOK' /\ DataOK' /\ LastOK'
  BY <1>1 DEF TypeOK, MemoryTypeOK, WriterTypeOK, OwnerTypeOK, ShownTypeOK,
              WriterOK, CtlOK, DataOK, LastOK, DataNotOlderThanSize,
              TokensInOrder
<1>3. rpc' = "check"  BY DEF ReturnFromCallback
<1>4. ReaderTypeOK'
  BY <1>1, <1>3 DEF TypeOK, ReaderTypeOK
<1>5. ReadOK'
  BY <1>1, <1>3 DEF ReadOK
<1>6. PayloadOK'
  BY <1>1, <1>3 DEF PayloadOK
<1> QED  BY <1>2, <1>4, <1>5, <1>6 DEF TypeOK

LEMMA OwnerIInv ==
  ASSUME IInv, Owner  PROVE  IInv'
<1>1. UNCHANGED <<data, ctl, wpc, wmsg, wtodo, thrown, rpos, rlen, rtok, rsize, rdata,
                  last, seen>>
  BY DEF Owner, StopReader, SignalStop, JoinReader, OpenReader, memory,
         writer, reader, shown
<1>2. /\ WriterTypeOK' /\ ShownTypeOK' /\ WriterOK' /\ CtlOK'
      /\ DataOK' /\ LastOK'
  BY <1>1 DEF TypeOK, WriterTypeOK, ShownTypeOK, WriterOK, CtlOK, DataOK,
              LastOK, DataNotOlderThanSize, TokensInOrder
<1>3. event' \in BOOLEAN /\ unread' = unread /\ (rpc' = rpc \/ rpc' = "check")
  BY DEF Owner, StopReader, SignalStop, JoinReader, OpenReader, reader, TypeOK,
         MemoryTypeOK
<1>4. OwnerTypeOK'
  <2>1. CASE StopReader  BY <2>1 DEF StopReader, TypeOK, OwnerTypeOK
  <2>2. CASE SignalStop  BY <2>2 DEF SignalStop, TypeOK, OwnerTypeOK
  <2>3. CASE JoinReader  BY <2>3 DEF JoinReader, TypeOK, OwnerTypeOK
  <2>4. CASE OpenReader
    <3>1. restarts + 1 \in 0 .. MaxRestart
      BY <2>4, ChannelAssumption DEF OpenReader, TypeOK, OwnerTypeOK
    <3> QED  BY <2>4, <3>1 DEF OpenReader, OwnerTypeOK
  <2> QED  BY <2>1, <2>2, <2>3, <2>4 DEF Owner
<1>5. MemoryTypeOK'
  BY <1>1, <1>3 DEF TypeOK, MemoryTypeOK
<1>6. OwnerTypeOK'
  BY <1>4
<1>7. ReaderTypeOK'
  BY <1>1, <1>3 DEF TypeOK, ReaderTypeOK
<1>8. ReadOK'
  BY <1>1, <1>3 DEF ReadOK
<1>9. PayloadOK'
  BY <1>1, <1>3 DEF PayloadOK
<1> QED  BY <1>2, <1>5, <1>6, <1>7, <1>8, <1>9 DEF TypeOK

LEMMA NextIInv ==
  ASSUME IInv, [Next]_vars  PROVE  IInv'
<1>1. CASE Writer
  BY <1>1, BeginIInv, ZeroDataIInv, CopyDataIInv, ZeroCtlIInv, CopyCtlIInv, NextFillIInv
     DEF Writer
<1>2. CASE Reader
  BY <1>2, WaitIInv, MeasureIInv, CopyControlIInv, ParseIInv, MapDataIInv, ReadDataIInv,
     CallbackIInv, ReturnIInv DEF Reader
<1>3. CASE Owner
  BY <1>3, OwnerIInv
<1>4. CASE WriterDies \/ CopyPastEnd
  BY <1>4, WriterDiesIInv
<1>5. CASE UNCHANGED vars
  BY <1>5 DEF vars, memory, writer, owner, reader, shown, TypeOK, MemoryTypeOK,
              WriterTypeOK, OwnerTypeOK, ReaderTypeOK, ShownTypeOK, WriterOK, CtlOK,
              DataOK, ReadOK, PayloadOK, LastOK, DataNotOlderThanSize, TokensInOrder
<1> QED  BY <1>1, <1>2, <1>3, <1>4, <1>5 DEF Next

-----------------------------------------------------------------------------
(* Theorems.                                                                 *)

\* The inductive invariant holds in every reachable state.
THEOREM Invariance == Spec => []IInv
BY InitIInv, NextIInv, PTL DEF Spec

\* Every variable keeps its type; in particular the size check keeps each data
\* fill of WriteData in the data segment, whatever the sizes, and no read of the
\* payload leaves it.  Nothing of the kind is said of the control segment, whose
\* length nobody compares: CopyPastEnd and ScanPastEnd end the process there.
THEOREM TypeCorrect == Spec => []TypeOK
<1>1. IInv => TypeOK  OBVIOUS
<1> QED  BY <1>1, Invariance, PTL

\* A delivered payload is never older than the size entry it came with.
THEOREM DataNeverOlder == Spec => []DataNotOlderThanSize
<1>1. IInv => DataNotOlderThanSize  BY DEF LastOK
<1> QED  BY <1>1, Invariance, PTL

\* The entries of a delivered control string are in the order of the messages.
THEOREM TokensNeverOutOfOrder == Spec => []TokensInOrder
<1>1. IInv => TokensInOrder  BY DEF LastOK
<1> QED  BY <1>1, Invariance, PTL

\* The channel implements LatestMessage: what it shows never goes back.
THEOREM ChannelImplementsLatestMessage == Spec => NeverGoesBack
<1>1. Init => Latest!Init
  BY DEF Init, Latest!Init
<1>2. IInv /\ [Next]_vars => [Latest!Next]_<<wmsg, seen>>
  <2> SUFFICES ASSUME IInv, [Next]_vars
               PROVE  Latest!Next \/ UNCHANGED <<wmsg, seen>>
    OBVIOUS
  <2>1. CASE BeginWriteData \/ RejectWriteData \/ BeginControlCall \/ RejectControlCall
    BY <2>1 DEF BeginWriteData, RejectWriteData, BeginControlCall, RejectControlCall, BeginCall,
         CanCall,
                shown, Latest!Next, Latest!Post
  <2>2. CASE EnterCallback
    <3>1. CASE rtok = NoText
      BY <2>2, <3>1 DEF EnterCallback, LocalStep, writer
    <3>2. CASE rtok # NoText
      <4>1. rtok \in [Token -> Nat] /\ wmsg \in Nat /\ seen.newest \in Nat
        BY Types, ChannelAssumption DEF TypeOK, ReaderTypeOK, Version
      <4>2. PICK t \in Token : rtok[t] # 0
        BY <3>2, <4>1 DEF NoText
      <4>3. rtok[1] # 0 /\ 1 \in Token
        BY <2>2, <4>2 DEF EnterCallback, ReadOK, Token
      <4>4. rtok[1] \in seen.newest .. wmsg
        BY <2>2, <4>1, <4>3 DEF EnterCallback, ReadOK
      <4>5. Newest(rtok) \in rtok[1] .. wmsg
        BY <4>1, <4>3, NewestIsMax DEF ReadOK
      <4> QED
        BY <2>2, <3>2, <4>4, <4>5
           DEF EnterCallback, LocalStep, writer, Latest!Next, Latest!Show
    <3> QED  BY <3>1, <3>2
  <2>3. CASE \/ ZeroData \/ CopyData \/ ZeroCtl \/ CopyCtl
             \/ DataZeroed \/ DataCopied \/ LeaveDataUnannounced \/ CtlZeroed \/ SignalData
    BY <2>3 DEF ZeroData, CopyData, ZeroCtl, CopyCtl, FillData, FillCtl, DataZeroed,
                DataCopied, LeaveDataUnannounced, CtlZeroed, SignalData, NextFill, shown
  <2>4. CASE Reader /\ ~EnterCallback
    BY <2>4 DEF Reader, CheckRunning, WaitSignalled, WaitTimeout, StopWoken, BeginRead,
                RefuseControl, MeasureControl, ScanPastEnd, CopyControl, ParseWithoutSize,
                ParseSize, ParseTornDigits, ParseTerminates, Parsed, SkipData, MapData,
                RefuseData, ReadData,
                ReturnFromCallback, LocalStep, writer, shown
  <2>5. CASE Owner
    BY <2>5 DEF Owner, StopReader, SignalStop, JoinReader, OpenReader, writer, shown
  <2>6. CASE WriterDies \/ CopyPastEnd
    BY <2>6 DEF WriterDies, CopyPastEnd, EndWriterProcess, shown
  <2>7. CASE UNCHANGED vars
    BY <2>7 DEF vars, writer, shown
  <2> QED  BY <2>1, <2>2, <2>3, <2>4, <2>5, <2>6, <2>7 DEF Next, Writer
<1> QED  BY <1>1, <1>2, Invariance, PTL DEF Spec, NeverGoesBack, Latest!Spec
-----------------------------------------------------------------------------
(* A message written into a quiet channel, followed from the first fill to   *)
(* the callback.                                                             *)

\* How many tokens the control string of m has, and what the two segments hold
\* when m is there whole.
Cut(m)     == CASE Kind[m] = "data" -> 4 [] Kind[m] = "command" -> 1 [] OTHER -> 0
Payload(m) == [c \in DataCell |-> IF c <= Size[m] THEN m ELSE 0]
Placed(m)  == ctl = Text(m) /\ (Kind[m] = "data" => data = Payload(m))

\* How much of its message the writer has placed: the data first, then the text.
PlaceOK ==
  /\ wpc = "copyData" =>
       /\ \A c \in wtodo : c <= Size[wmsg]
       /\ data = [c \in DataCell |-> IF c <= Size[wmsg] /\ c \notin wtodo THEN wmsg ELSE 0]
  /\ wpc \in {"zeroCtl", "copyCtl"} /\ Kind[wmsg] = "data" => data = Payload(wmsg)
  /\ wpc = "copyCtl" =>
       ctl = [t \in Token |-> IF t \in Tokens(wmsg) /\ t \notin wtodo THEN wmsg ELSE 0]

\* In a quiet channel nothing wakes the reader before the signal, and from then
\* on nobody writes: what it has copied so far is a part of the whole message.
CalmStage ==
  /\ opc = "up" /\ rpc # "exited" /\ (rpc = "terminated" => wmsg \in Long)
  /\ event \/ rpc \notin {"check", "wait"} =>
       wmsg \in Msg /\ wpc = "idle" /\ Placed(wmsg)
  /\ rpc \notin {"check", "wait"} => ~event
  /\ rpc = "strlen" => rpos <= Cut(wmsg) + 1
  /\ rpc = "copy" =>
       /\ rlen = Cut(wmsg) /\ rpos <= rlen + 1
       /\ rtok = [t \in Token |-> IF t < rpos THEN Text(wmsg)[t] ELSE 0]
  /\ rpc \in {"map", "data"} => rtok = Text(wmsg)
  /\ rpc \in {"strlen", "copy", "map", "data"} => ~unread
  /\ rpc = "map" => rsize = IF Kind[wmsg] = "data" THEN Claim[wmsg] ELSE 0
  /\ rpc = "data" \/ (rpc = "deliver" /\ ~unread) =>
       rsize = IF Kind[wmsg] = "data" /\ Claim[wmsg] \in DataCell THEN Claim[wmsg] ELSE 0
  /\ rpc = "data" => \A c \in 1 .. rpos - 1 : rdata[c] = Payload(wmsg)[c]
  /\ rpc = "deliver" /\ ~unread =>
       rtok = Text(wmsg) /\ \A c \in 1 .. rsize : rdata[c] = Payload(wmsg)[c]
  /\ rpc = "deliver" /\ unread => rsize = 0 /\ rtok \in {NoText, Text(wmsg)}
  /\ rpc = "callback" => IsWhole(wmsg) \/ IsUnread(wmsg)

CalmOK == calm => CalmStage

CalmInv == PlaceOK /\ CalmOK /\ (opc = "up" => running)

LEMMA CutIsTokens ==
  ASSUME NEW m \in Msg
  PROVE  /\ Cut(m) \in {0, 1, 4}
         /\ Cut(m) = 4 <=> Kind[m] = "data"
         /\ \A t \in Token : t \in Tokens(m) <=> t <= Cut(m)
BY ChannelAssumption DEF Cut, Tokens, Token

\* The string of one message is read to its end, no further and no less.
LEMMA TextIsCutThere ==
  ASSUME NEW m \in Msg
  PROVE  /\ Prefix(Text(m)) = Cut(m)
         /\ UpToNul(Text(m)) = Text(m)
<1>1. m \in Nat /\ m # 0  BY ChannelAssumption DEF Msg
<1>2. Text(m) \in [Token -> Nat]  BY <1>1 DEF Text
<1>3. \A t \in Token : Text(m)[t] = IF t <= Cut(m) THEN m ELSE 0
  BY CutIsTokens DEF Text
<1>4. Prefix(Text(m)) \in 0 .. 4 /\ IsPrefix(Text(m), Prefix(Text(m)))
  BY <1>2, PrefixExists
<1>5. Prefix(Text(m)) = Cut(m)
  BY <1>1, <1>3, <1>4, CutIsTokens DEF IsPrefix, Token
<1>6. UpToNul(Text(m)) = Text(m)
  BY <1>3, <1>5 DEF UpToNul, Text
<1> QED  BY <1>5, <1>6

LEMMA InitCalm == Init => CalmInv
BY DEF Init, CalmInv, PlaceOK, CalmOK, CalmStage

\* A call that begins in a quiet channel finds the reader between two passes.
LEMMA BeginCalm ==
  ASSUME IInv, CalmInv, BeginWriteData \/ RejectWriteData \/ BeginControlCall \/ RejectControlCall
  PROVE  CalmInv'
<1>1. /\ UNCHANGED <<memory, event, owner, reader, shown>> /\ calm' = Quiet
      /\ wpc' \in {"idle", "zeroData"} \/ (wpc' = "zeroCtl" /\ Kind[wmsg'] # "data")
  BY DEF BeginWriteData, RejectWriteData, BeginControlCall, RejectControlCall, BeginCall, CanCall
<1>2. PlaceOK'  BY <1>1 DEF PlaceOK
<1>3. CalmOK'
  BY <1>1 DEF CalmOK, CalmStage, Quiet, owner, reader
<1> QED  BY <1>1, <1>2, <1>3 DEF CalmInv, owner

\* A fill goes on while the reader waits, and leaves the message whole.
LEMMA FillCalm ==
  ASSUME IInv, CalmInv,
         \/ ZeroData \/ CopyData \/ ZeroCtl \/ CopyCtl
         \/ DataZeroed \/ DataCopied \/ LeaveDataUnannounced \/ CtlZeroed
  PROVE  CalmInv'
<1>1. /\ UNCHANGED <<event, wmsg, owner, reader, shown, calm>>
      /\ wpc \notin {"idle", "dead"}
  BY DEF ZeroData, CopyData, ZeroCtl, CopyCtl, FillData, FillCtl, DataZeroed, DataCopied,
         LeaveDataUnannounced, CtlZeroed, NextFill
<1>2. CalmOK'
  BY <1>1 DEF CalmInv, CalmOK, CalmStage, owner, reader
<1>3. PlaceOK'
  <2>0. wmsg \in Msg /\ Tokens(wmsg) \subseteq Token
    BY <1>1 DEF WriterOK, Tokens
  <2>1. CASE ZeroData
    BY <2>1 DEF ZeroData, FillData, PlaceOK
  <2>2. CASE CopyData
    <3>1. PICK c \in wtodo : data' = [data EXCEPT ![c] = wmsg] /\ wtodo' = wtodo \ {c}
      BY <2>2 DEF CopyData, FillData
    <3>2. /\ wpc = "copyData" /\ wpc' = "copyData" /\ wtodo \subseteq DataCell
          /\ data = [d \in DataCell |-> IF d <= Size[wmsg] /\ d \notin wtodo THEN wmsg ELSE 0]
      BY <2>2 DEF CopyData, FillData, CalmInv, PlaceOK, TypeOK, WriterTypeOK
    <3>3. c <= Size[wmsg]
      BY <3>2 DEF CalmInv, PlaceOK
    <3> QED  BY <1>1, <3>1, <3>2, <3>3 DEF CalmInv, PlaceOK
  <2>3. CASE ZeroCtl
    BY <2>3 DEF ZeroCtl, FillCtl, CalmInv, PlaceOK, Payload
  <2>4. CASE CopyCtl
    <3>1. PICK t \in wtodo : ctl' = [ctl EXCEPT ![t] = wmsg] /\ wtodo' = wtodo \ {t}
      BY <2>4 DEF CopyCtl, FillCtl
    <3>2. /\ wpc = "copyCtl" /\ wpc' = "copyCtl" /\ data' = data /\ t \in Tokens(wmsg)
          /\ ctl = [u \in Token |-> IF u \in Tokens(wmsg) /\ u \notin wtodo THEN wmsg ELSE 0]
      BY <2>4 DEF CopyCtl, FillCtl, CalmInv, PlaceOK, WriterOK
    <3>3. ctl' = [u \in Token |-> IF u \in Tokens(wmsg) /\ u \notin wtodo' THEN wmsg ELSE 0]
      BY <2>0, <3>1, <3>2
    <3> QED  BY <1>1, <3>2, <3>3 DEF CalmInv, PlaceOK, Payload
  <2>5. CASE DataZeroed
    <3>1. \A c \in DataCell : data[c] = 0
      BY <2>5 DEF DataZeroed, NextFill, DataOK
    <3>2. /\ data' = data /\ wtodo' = 1 .. Size[wmsg] /\ Size[wmsg] \in Nat /\ wpc' = "copyData"
          /\ DataCell \subseteq Nat \ {0} /\ wmsg' = wmsg /\ data \in [DataCell -> Version]
      BY <2>0, <2>5, ChannelAssumption
         DEF DataZeroed, NextFill, memory, DataCell, TypeOK, MemoryTypeOK
    <3> QED  BY <3>1, <3>2 DEF PlaceOK
  <2>6. CASE DataCopied
    BY <2>6 DEF DataCopied, NextFill, memory, CalmInv, PlaceOK, Payload
  <2>7. CASE CtlZeroed
    <3>1. \A t \in Token : ctl[t] = 0
      BY <2>7 DEF CtlZeroed, NextFill, CtlOK
    <3> QED
      BY <2>7, <3>1 DEF CtlZeroed, NextFill, memory, CalmInv, PlaceOK, Payload, TypeOK,
           MemoryTypeOK
  <2>8. CASE LeaveDataUnannounced
    BY <2>8 DEF LeaveDataUnannounced, PlaceOK
  <2> QED  BY <2>1, <2>2, <2>3, <2>4, <2>5, <2>6, <2>7, <2>8
<1> QED  BY <1>1, <1>2, <1>3 DEF CalmInv, owner


\* The signal comes when the whole message is in place.
LEMMA SignalCalm == ASSUME IInv, CalmInv, SignalData PROVE CalmInv'
<1>1. /\ UNCHANGED <<memory, wmsg, owner, reader, shown, calm>>
      /\ wpc = "copyCtl" /\ wpc' = "idle" /\ wtodo = {} /\ wmsg \in Msg
  BY DEF SignalData, WriterOK
<1>2. Placed(wmsg)'
  BY <1>1 DEF CalmInv, PlaceOK, Placed, Text, Payload, memory
<1>3. calm' => rpc' \in {"check", "wait"} /\ opc' = "up"
  BY <1>1 DEF CalmInv, CalmOK, CalmStage, owner, reader
<1>4. PlaceOK' /\ CalmOK'
  BY <1>1, <1>2, <1>3 DEF PlaceOK, CalmOK, CalmStage
<1> QED  BY <1>1, <1>4 DEF CalmInv, owner

\* Whoever stops or builds a reader, and a writer that dies, end the calm.
LEMMA OwnerCalm == ASSUME IInv, CalmInv, Owner \/ WriterDies \/ CopyPastEnd PROVE CalmInv'
<1>1. CASE StopReader
  BY <1>1 DEF StopReader, CalmInv, CalmOK, CalmStage, PlaceOK, memory, writer
<1>2. CASE SignalStop \/ JoinReader
  <2>1. ~calm  BY <1>2 DEF SignalStop, JoinReader, CalmInv, CalmOK, CalmStage
  <2> QED  BY <1>2, <2>1 DEF SignalStop, JoinReader, CalmInv, CalmOK, CalmStage, PlaceOK,
       Payload, memory, writer
<1>3. CASE OpenReader
  BY <1>3 DEF OpenReader, CalmInv, CalmOK, CalmStage, PlaceOK, Payload, memory, writer
<1>4. CASE WriterDies \/ CopyPastEnd
  BY <1>4 DEF WriterDies, CopyPastEnd, EndWriterProcess, CalmInv, CalmOK, CalmStage, PlaceOK,
       owner
<1> QED  BY <1>1, <1>2, <1>3, <1>4 DEF Owner

\* A step of the reader leaves the writer's part of it alone.
LEMMA ReaderLeaves ==
  ASSUME LocalStep
  PROVE  /\ UNCHANGED <<data, ctl, wpc, wtodo, wmsg, thrown, running, opc, restarts, calm>>
         /\ PlaceOK' <=> PlaceOK
         /\ Placed(wmsg)' <=> Placed(wmsg)
BY DEF LocalStep, memory, writer, owner, PlaceOK, Placed, Text, Payload

\* A reader that waits is woken when the whole message is there.
LEMMA WaitStage ==
  ASSUME IInv, CalmStage, running,
         \/ CheckRunning \/ WaitSignalled \/ WaitTimeout \/ StopWoken
         \/ BeginRead \/ RefuseControl
  PROVE  CalmStage'
<1>1. LocalStep
  BY DEF CheckRunning, WaitSignalled, WaitTimeout, StopWoken, BeginRead, RefuseControl
<1>2. Cut(wmsg) \in {0, 1, 4}
  BY DEF Cut
<1>3. CASE CheckRunning \/ WaitTimeout
  BY <1>1, <1>3, ReaderLeaves DEF CheckRunning, WaitTimeout, CalmStage
<1>4. CASE WaitSignalled
  BY <1>1, <1>4, ReaderLeaves DEF WaitSignalled, CalmStage
<1>5. CASE StopWoken \/ BeginRead
  BY <1>1, <1>2, <1>5, ReaderLeaves DEF StopWoken, BeginRead, CalmStage
<1>6. CASE RefuseControl
  BY <1>1, <1>6, ReaderLeaves DEF RefuseControl, CalmStage
<1> QED  BY <1>3, <1>4, <1>5, <1>6

\* A pass of the reader works on one whole message.
LEMMA PassStage ==
  ASSUME IInv, CalmStage, rpc \notin {"check", "wait"}
  PROVE  /\ wmsg \in Msg /\ wpc = "idle" /\ Placed(wmsg) /\ ~event /\ wmsg # 0 /\ opc = "up"
         /\ Cut(wmsg) \in {0, 1, 4} /\ (Cut(wmsg) = 4 <=> Kind[wmsg] = "data")
         /\ \A t \in Token : Text(wmsg)[t] = (IF t <= Cut(wmsg) THEN wmsg ELSE 0) /\ ctl[t] = Text(wmsg)[t]
<1>1. wmsg \in Msg /\ wpc = "idle" /\ Placed(wmsg) /\ ~event /\ opc = "up"
  BY DEF CalmStage
<1>2. wmsg # 0  BY <1>1, ChannelAssumption DEF Msg
<1> QED  BY <1>1, <1>2, CutIsTokens DEF Placed, Text

LEMMA MeasureStage ==
  ASSUME IInv, CalmStage, MeasureControl \/ ScanPastEnd PROVE CalmStage'
<1>1. LocalStep /\ UNCHANGED <<event, rtok, unread>> /\ rpc = "strlen"
  BY DEF MeasureControl, ScanPastEnd
<1>2. /\ wmsg \in Msg /\ wpc = "idle" /\ Placed(wmsg)' /\ ~event /\ wmsg # 0
      /\ Cut(wmsg) \in {0, 1, 4} /\ rpos <= Cut(wmsg) + 1 /\ rpos \in Nat \ {0}
      /\ \A t \in Token : ctl[t] # 0 <=> t <= Cut(wmsg)
      /\ opc = "up" /\ rtok = NoText /\ ~unread /\ UNCHANGED <<wmsg, wpc, opc>>
  BY <1>1, PassStage, ReaderLeaves DEF CalmStage, ReadOK, TypeOK, ReaderTypeOK
<1>0. CASE ScanPastEnd
  <2>1. 4 \in Token /\ ctl[4] = wmsg
    BY <1>0, <1>1, <1>2, PassStage DEF ScanPastEnd, Token
  <2> QED  BY <1>0, <1>1, <1>2, <2>1 DEF ScanPastEnd, CalmStage
<1>3. CASE MeasureControl /\ rpos <= Cut(wmsg)
  <2>1. rpos \in Token  BY <1>2, <1>3 DEF Token
  <2>2. rpc' = "strlen" /\ rpos' = rpos + 1
    BY <1>2, <1>3, <2>1 DEF MeasureControl
  <2> QED  BY <1>1, <1>2, <1>3, <2>2 DEF CalmStage
<1>4. CASE MeasureControl /\ rpos = Cut(wmsg) + 1
  <2>1. ~(rpos \in Token /\ ctl[rpos] # 0)  BY <1>2, <1>4
  <2>2. rpc' = "copy" /\ rpos' = 1 /\ rlen' = Cut(wmsg)
    BY <1>2, <1>4, <2>1 DEF MeasureControl
  <2>3. rtok' = [t \in Token |-> IF t < rpos' THEN Text(wmsg)[t] ELSE 0]
    BY <1>1, <1>2, <2>2 DEF NoText, Token
  <2> QED  BY <1>1, <1>2, <2>2, <2>3 DEF CalmStage
<1> QED  BY <1>0, <1>2, <1>3, <1>4

LEMMA CopyControlStage == ASSUME IInv, CalmStage, CopyControl PROVE CalmStage'
<1>1. /\ LocalStep /\ UNCHANGED <<event, rpc, rlen, unread>>
      /\ rpc = "copy" /\ rpos <= rlen /\ rpos' = rpos + 1
      /\ rtok' = [rtok EXCEPT ![rpos] = ctl[rpos]]
  BY DEF CopyControl
<1>2. /\ wmsg \in Msg /\ wpc = "idle" /\ Placed(wmsg)' /\ ~event
      /\ Cut(wmsg) \in {0, 1, 4} /\ rlen = Cut(wmsg) /\ rpos \in Nat \ {0}
      /\ \A t \in Token : ctl[t] = Text(wmsg)[t]
      /\ rtok = [t \in Token |-> IF t < rpos THEN Text(wmsg)[t] ELSE 0]
      /\ opc = "up" /\ UNCHANGED <<wmsg, wpc, opc>>
  BY <1>1, PassStage, ReaderLeaves DEF CalmStage, TypeOK, ReaderTypeOK
<1>3. rpos \in Token  BY <1>1, <1>2 DEF Token
<1>4. rtok' = [t \in Token |-> IF t < rpos + 1 THEN Text(wmsg)[t] ELSE 0]
  <2>1. \A t \in Token : t < rpos + 1 <=> t < rpos \/ t = rpos
    BY <1>2 DEF Token
  <2>2. rtok' = [t \in Token |-> IF t = rpos THEN ctl[t] ELSE rtok[t]]
    BY <1>1, <1>2, <1>3
  <2>3. \A t \in Token : (IF t = rpos THEN ctl[t] ELSE rtok[t])
                          = IF t < rpos + 1 THEN Text(wmsg)[t] ELSE 0
    BY <1>2, <2>1
  <2> QED  BY <2>2, <2>3
<1> QED  BY <1>1, <1>2, <1>4 DEF CalmStage

LEMMA ParseStage ==
  ASSUME IInv, CalmStage, ParseWithoutSize \/ ParseSize \/ ParseTornDigits \/ ParseTerminates
  PROVE  CalmStage'
<1>1. LocalStep /\ UNCHANGED <<event, unread>> /\ Copied
  BY DEF ParseWithoutSize, ParseSize, ParseTornDigits, ParseTerminates, Parsed
<1>2. /\ wmsg \in Msg /\ wpc = "idle" /\ Placed(wmsg)' /\ ~event /\ opc = "up"
      /\ Cut(wmsg) \in {0, 1, 4} /\ (Cut(wmsg) = 4 <=> Kind[wmsg] = "data")
      /\ rlen = Cut(wmsg) /\ rpos \in Nat \ {0} /\ rpos <= rlen + 1 /\ rpos > rlen
      /\ rtok = [t \in Token |-> IF t < rpos THEN Text(wmsg)[t] ELSE 0]
      /\ \A t \in Token : Text(wmsg)[t] = IF t <= Cut(wmsg) THEN wmsg ELSE 0
      /\ ~unread /\ UNCHANGED <<wmsg, wpc, opc>>
  BY <1>1, PassStage, ReaderLeaves DEF CalmStage, Copied, TypeOK, ReaderTypeOK
<1>3. rtok = Text(wmsg)
  <2>1. \A t \in Token : rtok[t] = Text(wmsg)[t]  BY <1>2 DEF Token
  <2> QED  BY <1>2, <2>1 DEF Text
<1>4. Prefix(rtok) = Cut(wmsg) /\ UpToNul(rtok) = Text(wmsg)
  BY <1>2, <1>3, TextIsCutThere
<1>5. /\ rpc' = "map" /\ rtok' = Text(wmsg)
      /\ rsize' = IF Kind[wmsg] = "data" THEN Claim[wmsg] ELSE 0
  <2>1. CASE ParseWithoutSize
    BY <1>2, <1>4, <2>1 DEF ParseWithoutSize, Parsed
  <2>2. CASE ParseSize
    <3>1. Cut(wmsg) = 4 /\ rtok[3] = wmsg
      BY <1>2, <1>3, <1>4, <2>2 DEF ParseSize, Token
    <3> QED  BY <1>2, <1>4, <2>2, <3>1 DEF ParseSize, Parsed
  <2>3. ~ParseTornDigits /\ ~ParseTerminates
    BY <1>2, <1>4 DEF ParseTornDigits, ParseTerminates
  <2> QED  BY <2>1, <2>2, <2>3
<1> QED  BY <1>1, <1>2, <1>5 DEF CalmStage

LEMMA MapStage ==
  ASSUME IInv, CalmStage, SkipData \/ MapData \/ RefuseData PROVE CalmStage'
<1>1. LocalStep /\ UNCHANGED <<event, rtok>> /\ rpc = "map"
  BY DEF SkipData, MapData, RefuseData
<1>2. /\ wmsg \in Msg /\ wpc = "idle" /\ Placed(wmsg)' /\ ~event /\ opc = "up"
      /\ rtok = Text(wmsg) /\ rsize = IF Kind[wmsg] = "data" THEN Claim[wmsg] ELSE 0
      /\ 0 \notin DataCell /\ ~unread /\ UNCHANGED <<wmsg, wpc, opc>>
  BY <1>1, PassStage, ReaderLeaves, ChannelAssumption DEF CalmStage, DataCell
<1> QED  BY <1>1, <1>2 DEF SkipData, MapData, RefuseData, CalmStage

LEMMA ReadDataStage == ASSUME IInv, CalmStage, ReadData PROVE CalmStage'
<1>1. /\ LocalStep /\ UNCHANGED <<event, rtok, rsize, unread>>
      /\ rpc = "data" /\ rpos \in 1 .. rsize /\ rpos \in DataCell /\ rsize \in Nat
      /\ rpos' = rpos + 1 /\ rpc' = IF rpos = rsize THEN "deliver" ELSE "data"
      /\ rdata' = [rdata EXCEPT ![rpos] = data[rpos]]
      /\ rdata \in [DataCell -> Version] /\ 1 .. rsize \subseteq DataCell
  BY ChannelAssumption DEF ReadData, PayloadOK, DataCell, TypeOK, ReaderTypeOK
<1>2. /\ wmsg \in Msg /\ wpc = "idle" /\ Placed(wmsg) /\ Placed(wmsg)' /\ ~event
      /\ opc = "up" /\ rtok = Text(wmsg) /\ ~unread /\ UNCHANGED <<wmsg, wpc, opc>>
      /\ rsize = IF Kind[wmsg] = "data" /\ Claim[wmsg] \in DataCell THEN Claim[wmsg] ELSE 0
      /\ \A c \in 1 .. rpos - 1 : rdata[c] = Payload(wmsg)[c]
  BY <1>1, PassStage, ReaderLeaves DEF CalmStage
<1>3. data = Payload(wmsg)  BY <1>1, <1>2 DEF Placed
<1>4. \A c \in 1 .. rpos : c \in DataCell /\ rdata'[c] = Payload(wmsg)[c]
  BY <1>1, <1>2, <1>3
<1> QED  BY <1>1, <1>2, <1>4 DEF CalmStage

LEMMA CallbackStage == ASSUME IInv, CalmStage, EnterCallback \/ ReturnFromCallback
     PROVE CalmStage'
<1>1. LocalStep /\ UNCHANGED <<event, rtok, rsize, rdata, unread>>
  BY DEF EnterCallback, ReturnFromCallback
<1>2. /\ wmsg \in Msg /\ wpc = "idle" /\ Placed(wmsg)' /\ ~event /\ opc = "up"
      /\ UNCHANGED <<wmsg, wpc, opc>>
  BY <1>1, PassStage, ReaderLeaves DEF EnterCallback, ReturnFromCallback
<1>3. CASE EnterCallback /\ ~unread
  <2>1. /\ rpc' = "callback" /\ last' = [tok |-> rtok, n |-> rsize, cell |-> rdata]
        /\ rtok = Text(wmsg) /\ \A c \in 1 .. rsize : rdata[c] = Payload(wmsg)[c]
        /\ rsize = IF Kind[wmsg] = "data" /\ Claim[wmsg] \in DataCell THEN Claim[wmsg] ELSE 0
        /\ 1 .. rsize \subseteq DataCell
    BY <1>2, <1>3, ChannelAssumption DEF EnterCallback, CalmStage, PayloadOK, DataCell
  <2>2. IsWhole(wmsg)'
    BY <1>2, <2>1 DEF IsWhole, Text, Payload
  <2> QED  BY <1>1, <1>2, <2>1, <2>2 DEF CalmStage
<1>4. CASE EnterCallback /\ unread
  <2>1. IsUnread(wmsg)'
    BY <1>1, <1>2, <1>4 DEF EnterCallback, CalmStage, IsUnread, Text, NoText
  <2> QED  BY <1>1, <1>2, <1>4, <2>1 DEF EnterCallback, CalmStage
<1>5. CASE ReturnFromCallback
  BY <1>1, <1>2, <1>5 DEF ReturnFromCallback, CalmStage
<1> QED  BY <1>3, <1>4, <1>5

\* So a step of the reader goes from one stage to the next.
LEMMA ReaderStage == ASSUME IInv, CalmStage, running, Reader PROVE CalmStage'
BY WaitStage, MeasureStage, CopyControlStage, ParseStage, MapStage, ReadDataStage,
   CallbackStage DEF Reader

LEMMA ReaderIsLocal == ASSUME Reader PROVE LocalStep
BY DEF Reader, CheckRunning, WaitSignalled, WaitTimeout, StopWoken, BeginRead,
       RefuseControl, MeasureControl, ScanPastEnd, CopyControl, ParseWithoutSize, ParseSize,
       ParseTornDigits, ParseTerminates, Parsed, SkipData, MapData, RefuseData, ReadData,
       EnterCallback, ReturnFromCallback

LEMMA ReaderCalm == ASSUME IInv, CalmInv, Reader PROVE CalmInv'
<1>1. calm' => CalmStage'
  BY ReaderIsLocal, ReaderLeaves, ReaderStage DEF CalmInv, CalmOK, CalmStage
<1> QED  BY <1>1, ReaderIsLocal, ReaderLeaves DEF CalmInv, CalmOK

LEMMA NextCalm == ASSUME IInv, CalmInv, [Next]_vars PROVE CalmInv'
<1>1. CASE Writer
  BY <1>1, BeginCalm, FillCalm, SignalCalm DEF Writer
<1>2. CASE Owner \/ WriterDies \/ CopyPastEnd
  BY <1>2, OwnerCalm
<1>3. CASE Reader
  BY <1>3, ReaderCalm
<1>4. CASE UNCHANGED vars
  BY <1>4 DEF vars, memory, writer, owner, reader, shown, CalmInv, CalmOK, CalmStage, PlaceOK,
     Placed, Payload, IsWhole, IsUnread
<1> QED  BY <1>1, <1>2, <1>3, <1>4 DEF Next

\* A message whose call began while the reader was between passes with no signal
\* pending is read whole, but for a view that its pass was refused, and ends the
\* reader's process only if its control string has no NUL in the segment.
THEOREM CalmIsWhole == Spec => []CalmWriteReadWhole
<1>1. CalmInv => CalmWriteReadWhole
  BY DEF CalmInv, CalmOK, CalmStage, CalmWriteReadWhole
<1> QED  BY <1>1, Invariance, InitCalm, NextCalm, PTL DEF Spec

-----------------------------------------------------------------------------
(* The signal of the last message is not lost, wherever the reader is.       *)

\* The last call is over, did not throw and was not cut off, and the first
\* reader is there.
Announced ==
  /\ wpc = "idle" /\ wmsg \in Msg /\ ~thrown
  /\ opc = "up" /\ restarts = 0 /\ rpc # "terminated"

\* Then the message lies whole in the segments, and either its signal is still
\* pending, or the reader is in a pass that reads nothing else, or it was the
\* last thing that the callback got, as far as the pass had views to read it.
LastIsComing ==
  Announced =>
    /\ Placed(wmsg)
    /\ event \/ IF rpc \in {"check", "wait"}
                THEN IsWhole(wmsg) \/ IsUnread(wmsg) ELSE CalmStage

LEMMA InitComing == Init => LastIsComing
BY ChannelAssumption DEF Init, LastIsComing, Announced, Msg

\* A call announces its message when it ends; an owner's step ends the claim.
LEMMA OthersComing ==
  ASSUME IInv, CalmInv, Writer \/ WriterDies \/ CopyPastEnd \/ Owner PROVE LastIsComing'
<1>1. CASE SignalData
  <2>1. Placed(wmsg)' /\ event'
    BY <1>1 DEF SignalData, CalmInv, PlaceOK, Placed, Text, Payload, memory
  <2> QED  BY <2>1 DEF LastIsComing
<1>2. CASE RejectWriteData \/ RejectControlCall \/ LeaveDataUnannounced
  BY <1>2 DEF RejectWriteData, RejectControlCall, BeginCall, LeaveDataUnannounced,
              LastIsComing, Announced
<1>3. CASE \/ BeginWriteData \/ BeginControlCall \/ ZeroData \/ CopyData \/ ZeroCtl \/ CopyCtl
           \/ DataZeroed \/ DataCopied \/ CtlZeroed \/ WriterDies \/ CopyPastEnd
  BY <1>3 DEF BeginWriteData, BeginControlCall, BeginCall, ZeroData, CopyData, ZeroCtl, CopyCtl,
              FillData, FillCtl, DataZeroed, DataCopied, CtlZeroed, NextFill, WriterDies,
              CopyPastEnd, EndWriterProcess, LastIsComing, Announced
<1>4. CASE Owner
  BY <1>4, ChannelAssumption DEF Owner, StopReader, SignalStop, JoinReader, OpenReader, owner,
              LastIsComing, Announced, TypeOK, OwnerTypeOK
<1> QED  BY <1>1, <1>2, <1>3, <1>4 DEF Writer

\* The reader gives up a signal only for a pass that it begins at the start of
\* the string, and such a pass ends in the callback.
LEMMA ReaderComing ==
  ASSUME IInv, CalmInv, LastIsComing, Reader PROVE LastIsComing'
<1> SUFFICES ASSUME Announced'
             PROVE  /\ Placed(wmsg)'
                    /\ event' \/ (IF rpc \in {"check", "wait"}
                                 THEN IsWhole(wmsg) \/ IsUnread(wmsg) ELSE CalmStage)'
  BY DEF LastIsComing
<1>1. /\ rpc # "terminated" /\ UNCHANGED <<data, ctl, wpc, wmsg, thrown, running, opc, restarts>>
      /\ Placed(wmsg)' <=> Placed(wmsg)
  BY ReaderIsLocal, ReaderLeaves
     DEF Reader, CheckRunning, WaitSignalled, WaitTimeout, StopWoken, BeginRead,
         RefuseControl, MeasureControl, ScanPastEnd, CopyControl, Copied,
         ParseWithoutSize, ParseSize, ParseTornDigits, ParseTerminates, SkipData, MapData,
         RefuseData, ReadData, EnterCallback, ReturnFromCallback
<1>2. Announced /\ Placed(wmsg) /\ running
  BY <1>1 DEF Announced, LastIsComing, CalmInv
<1>3. CASE WaitSignalled
  BY <1>1, <1>2, <1>3 DEF WaitSignalled, CalmStage, Announced
<1>4. CASE ~WaitSignalled /\ ~event /\ rpc \notin {"check", "wait"}
  <2>1. CalmStage  BY <1>2, <1>4 DEF LastIsComing
  <2>2. CalmStage' BY <1>2, <2>1, ReaderStage
  <2>3. CASE ReturnFromCallback
    <3>1. IsWhole(wmsg) \/ IsUnread(wmsg)  BY <2>1, <2>3 DEF ReturnFromCallback, CalmStage
    <3> QED  BY <1>1, <1>2, <2>3, <3>1 DEF ReturnFromCallback, shown, IsWhole, IsUnread, Text
  <2>4. CASE ~ReturnFromCallback
    <3>1. rpc' \notin {"check", "wait"}
      BY <1>4, <2>4 DEF Reader, CheckRunning, WaitTimeout, StopWoken, BeginRead, RefuseControl,
           MeasureControl, ScanPastEnd,
         CopyControl, ParseWithoutSize, ParseSize, ParseTornDigits, ParseTerminates, Parsed,
         SkipData, MapData, RefuseData, ReadData, EnterCallback
    <3> QED  BY <1>1, <1>2, <2>2, <3>1
  <2> QED  BY <2>3, <2>4
<1>5. CASE ~WaitSignalled /\ ~event /\ rpc \in {"check", "wait"}
  <2>1. IsWhole(wmsg) \/ IsUnread(wmsg)  BY <1>2, <1>5 DEF LastIsComing
  <2>2. CheckRunning \/ WaitTimeout
    BY <1>5 DEF Reader, StopWoken, BeginRead, RefuseControl, MeasureControl, ScanPastEnd,
         CopyControl, Copied, ParseWithoutSize,
       ParseSize, ParseTornDigits, ParseTerminates, SkipData, MapData, RefuseData, ReadData,
            EnterCallback,
       ReturnFromCallback
  <2>3. rpc' \in {"check", "wait"} /\ last' = last /\ unread' = unread
    BY <1>2, <2>2 DEF CheckRunning, WaitTimeout, shown
  <2> QED  BY <1>1, <1>2, <2>1, <2>3 DEF IsWhole, IsUnread, Text
<1>6. CASE ~WaitSignalled /\ event
  <2>1. event'
    BY <1>6 DEF Reader, CheckRunning, WaitTimeout, StopWoken, BeginRead, RefuseControl,
         MeasureControl, ScanPastEnd,
       CopyControl, ParseWithoutSize, ParseSize, ParseTornDigits, ParseTerminates, Parsed,
       SkipData, MapData, RefuseData, ReadData, EnterCallback, ReturnFromCallback
  <2> QED  BY <1>1, <1>2, <2>1
<1> QED  BY <1>3, <1>4, <1>5, <1>6

LEMMA NextComing ==
  ASSUME IInv, CalmInv, LastIsComing, [Next]_vars PROVE LastIsComing'
<1>1. CASE UNCHANGED vars
  BY <1>1 DEF vars, memory, writer, owner, reader, shown, LastIsComing, Announced, Placed, Text,
     Payload, CalmStage, IsWhole, IsUnread
<1> QED  BY <1>1, OthersComing, ReaderComing DEF Next

\* Signals coalesce and the reader tests its event between passes of any age,
\* but the last message, once its call has announced it, is always on its way or
\* delivered, as far as the pass that took it was given views: what is left of
\* LastMessageDelivered is that the reader's thread is scheduled.
THEOREM LastIsNeverLost == Spec => []LastIsComing
BY Invariance, InitCalm, NextCalm, InitComing, NextComing, PTL DEF Spec

-----------------------------------------------------------------------------
(* The way of the reader's thread to the join of its destructor.             *)

\* Steps the thread takes at most, from where it is in a pass, until it sees
\* that _running is cleared: the scans count down, the rest is straight.
PassLeft ==
  CASE rpc = "strlen"              -> SegmentCells + 15 - rpos
    [] rpc = "copy"                -> SegmentCells + 6 + rlen - rpos
    [] rpc = "map"                 -> SegmentCells + 4
    [] rpc = "data"                -> 4 + rsize - rpos
    [] rpc = "deliver"             -> 3
    [] rpc \in {"wait", "callback"} -> 2
    [] rpc \in {"check", "woken"}   -> 1
    [] OTHER                       -> 0

PassIsShort ==
  /\ PassLeft \in 0 .. SegmentCells + 14
  /\ PassLeft = 0 <=> rpc \in {"exited", "terminated"}

Stopping == opc \in {"stopping", "joining"} /\ rpc # "terminated"

\* A destructor has cleared _running, and CopyMemory ends where strlen did.
StopInv ==
  /\ opc \in {"stopping", "joining"} => ~running
  /\ rpc = "copy" => rpos <= rlen + 1

LEMMA StopInvStep ==
  ASSUME IInv, StopInv, [Next]_vars PROVE StopInv'
<1>1. ASSUME Writer \/ WriterDies \/ CopyPastEnd \/ UNCHANGED vars
     PROVE UNCHANGED <<owner, reader>>
  BY <1>1 DEF Writer, WriterDies, CopyPastEnd, EndWriterProcess, LeaveDataUnannounced, vars,
       BeginWriteData, RejectWriteData, BeginControlCall, RejectControlCall,
     BeginCall, ZeroData, CopyData, FillData, ZeroCtl, CopyCtl, FillCtl, DataZeroed, DataCopied,
     CtlZeroed, NextFill, SignalData
<1>2. ASSUME UNCHANGED <<owner, reader>> PROVE StopInv'
  BY <1>2 DEF StopInv, owner, reader
<1>3. ASSUME Owner PROVE StopInv'
  BY <1>3 DEF Owner, StopReader, SignalStop, JoinReader, OpenReader, reader, StopInv
<1>4. ASSUME Reader PROVE StopInv'
  <2>1. UNCHANGED <<running, opc>>
    BY <1>4, ReaderIsLocal DEF LocalStep, owner
  <2>2. rpc' = "copy" => rpos' <= rlen' + 1
    <3>1. CASE MeasureControl
      BY <3>1, Types DEF MeasureControl, ReadOK
    <3>2. CASE CopyControl
      <4>1. rlen \in Nat /\ rpos \in Nat
        BY DEF TypeOK, ReaderTypeOK
      <4> QED  BY <3>2, <4>1 DEF CopyControl
    <3>3. CASE rpc' # "copy"
      BY <3>3
    <3> QED  BY <1>4, <3>1, <3>2, <3>3 DEF Reader, CheckRunning, WaitSignalled, WaitTimeout,
           StopWoken, BeginRead, RefuseControl, ScanPastEnd, ParseWithoutSize, ParseSize,
                ParseTornDigits, Parsed,
           ParseTerminates, SkipData, MapData, RefuseData, ReadData, EnterCallback,
                ReturnFromCallback
  <2> QED  BY <2>1, <2>2 DEF StopInv
<1> QED  BY <1>1, <1>2, <1>3, <1>4 DEF Next

\* The measure is a bounded number, and nothing is left exactly at the ends.
LEMMA PassLeftIsBounded ==
  ASSUME IInv, StopInv PROVE PassIsShort
<1> USE DEF PassIsShort
<1>1. SegmentCells \in Nat /\ rpos \in Nat \ {0} /\ rlen \in 0 .. 4 /\ rsize \in Nat
  BY ChannelAssumption DEF TypeOK, ReaderTypeOK
<1>2. CASE rpc = "strlen"
  <2>1. rpos \in 1 .. 5 /\ PassLeft = SegmentCells + 15 - rpos
    BY <1>2 DEF ReadOK, PassLeft
  <2>2. \A n \in Nat, p \in 1 .. 5 : n + 15 - p \in 1 .. n + 14
    OBVIOUS
  <2> QED  BY <1>1, <1>2, <2>1, <2>2
<1>3. CASE rpc = "copy"
  <2>1. rpos <= rlen + 1 /\ PassLeft = SegmentCells + 6 + rlen - rpos
    BY <1>3 DEF StopInv, PassLeft
  <2> QED  BY <1>1, <1>3, <2>1
<1>4. CASE rpc = "data"
  <2>1. rpos \in 1 .. rsize /\ rsize <= SegmentCells /\ PassLeft = 4 + rsize - rpos
    BY <1>1, <1>4 DEF PayloadOK, PassLeft, DataCell
  <2> QED  BY <1>1, <1>4, <2>1
<1>5. CASE rpc \in {"map", "deliver", "wait", "callback", "check", "woken"}
  <2>1. PassLeft \in {SegmentCells + 4, 3, 2, 1}
    BY <1>5 DEF PassLeft
  <2> QED  BY <1>1, <1>5, <2>1
<1>6. CASE rpc \in {"exited", "terminated"}
  <2>1. PassLeft = 0
    BY <1>6 DEF PassLeft
  <2> QED  BY <1>1, <1>6, <2>1
<1> QED  BY <1>2, <1>3, <1>4, <1>5, <1>6 DEF TypeOK, ReaderTypeOK

\* Each step of a thread that is to stop brings it nearer to its end.
LEMMA ReaderEnds ==
  ASSUME IInv, StopInv, Stopping, Reader PROVE PassLeft' < PassLeft
<1> SegmentCells \in Nat /\ rpos \in Nat \ {0} /\ rlen \in 0 .. 4 /\ rsize \in Nat
  BY ChannelAssumption DEF TypeOK, ReaderTypeOK
<1>1. ~running
  BY DEF Stopping, StopInv
<1>2. CASE \/ CheckRunning \/ WaitSignalled \/ WaitTimeout \/ StopWoken
           \/ BeginRead \/ RefuseControl
  BY <1>1, <1>2
     DEF CheckRunning, WaitSignalled, WaitTimeout, StopWoken, BeginRead, RefuseControl, PassLeft
<1>10. CASE ScanPastEnd
  <2>1. rpc = "strlen" /\ rpos \in 1 .. 5 /\ PassLeft' = 0
    BY <1>10 DEF ScanPastEnd, ReadOK, PassLeft
  <2> QED  BY <2>1 DEF PassLeft
<1>3. CASE MeasureControl
  <2>1. rpc = "strlen" /\ rpos \in 1 .. 5
    BY <1>3 DEF MeasureControl, ReadOK
  <2>2. CASE rpc' = "strlen" /\ rpos' = rpos + 1
    BY <2>1, <2>2 DEF PassLeft
  <2>3. CASE rpc' = "copy" /\ rlen' = rpos - 1 /\ rpos' = 1
    <3>1. PassLeft = SegmentCells + 15 - rpos /\ PassLeft' = SegmentCells + 6 + (rpos - 1) - 1
      BY <2>1, <2>3 DEF PassLeft
    <3> QED  BY <2>1, <3>1
  <2> QED  BY <1>3, <2>1, <2>2, <2>3 DEF MeasureControl
<1>4. CASE CopyControl
  <2>1. PassLeft = SegmentCells + 6 + rlen - rpos /\ PassLeft' = SegmentCells + 6 + rlen - (rpos + 1)
    BY <1>4 DEF CopyControl, PassLeft
  <2> QED  BY <2>1
<1>5. CASE ParseWithoutSize \/ ParseSize \/ ParseTornDigits \/ ParseTerminates
  <2>1. rpc = "copy" /\ rpos = rlen + 1 /\ rpc' \in {"map", "terminated"}
    BY <1>5 DEF ParseWithoutSize, ParseSize, ParseTornDigits, ParseTerminates, Copied, Parsed,
       StopInv
  <2>2. PassLeft = SegmentCells + 6 + rlen - rpos /\ PassLeft' \in {SegmentCells + 4, 0}
    BY <2>1 DEF PassLeft
  <2> QED  BY <2>1, <2>2
<1>6. CASE SkipData \/ RefuseData
  BY <1>6 DEF SkipData, RefuseData, PassLeft
<1>7. CASE MapData
  <2>1. rsize <= SegmentCells /\ PassLeft = SegmentCells + 4 /\ PassLeft' = 4 + rsize - 1
    BY <1>7 DEF MapData, DataCell, PassLeft
  <2> QED  BY <2>1
<1>8. CASE ReadData
  <2>1. rpc = "data" /\ rpos \in 1 .. rsize /\ PassLeft = 4 + rsize - rpos
    BY <1>8 DEF ReadData, PayloadOK, PassLeft
  <2>2. CASE rpos = rsize
    <3>1. PassLeft' = 3
      BY <1>8, <2>2 DEF ReadData, PassLeft
    <3> QED  BY <2>1, <2>2, <3>1
  <2>3. CASE rpos # rsize
    <3>1. PassLeft' = 4 + rsize - (rpos + 1)
      BY <1>8, <2>3 DEF ReadData, PassLeft
    <3> QED  BY <2>1, <3>1
  <2> QED  BY <2>2, <2>3
<1>9. CASE EnterCallback \/ ReturnFromCallback
  BY <1>9 DEF EnterCallback, ReturnFromCallback, PassLeft
<1> QED  BY <1>2, <1>3, <1>4, <1>5, <1>6, <1>7, <1>8, <1>9, <1>10 DEF Reader

\* A destructor that has cleared _running waits for no more than what is left of
\* one pass of event_loop, at most SegmentCells + 14 steps of its thread;
\* neither the writer nor the owner adds one, and none is left exactly when the
\* join may return or a torn size has ended the process: what is left of
\* ShutdownCompletes is that threads run.
THEOREM ShutdownIsShort ==
  Spec => /\ []PassIsShort
          /\ [][Stopping => /\ PassLeft' <= PassLeft
                            /\ Reader => PassLeft' < PassLeft]_vars
<1>1. Init => StopInv
  BY DEF Init, StopInv
<1>2. IInv /\ StopInv /\ [Next]_vars => StopInv'
  BY StopInvStep
<1>3. IInv /\ StopInv => PassIsShort
  BY PassLeftIsBounded
<1>4. IInv /\ StopInv /\ PassIsShort /\ PassIsShort' /\ [Next]_vars =>
        [Stopping => /\ PassLeft' <= PassLeft
                     /\ Reader => PassLeft' < PassLeft]_vars
  <2> SUFFICES ASSUME IInv, StopInv, PassIsShort, PassIsShort', Next, Stopping
               PROVE  PassLeft' <= PassLeft /\ (Reader => PassLeft' < PassLeft)
    OBVIOUS
  <2>1. PassLeft \in Nat /\ PassLeft' \in Nat
    <3>1. PassLeft \in 0 .. SegmentCells + 14 /\ PassLeft' \in 0 .. SegmentCells + 14
      BY DEF PassIsShort
    <3> QED  BY <3>1, ChannelAssumption
  <2>2. ASSUME Reader PROVE PassLeft' < PassLeft
    BY <2>2, ReaderEnds
  <2>3. ASSUME Writer \/ WriterDies \/ CopyPastEnd \/ Owner PROVE PassLeft' = PassLeft
    <3>1. CASE Owner
      BY <3>1 DEF Owner, Stopping, StopReader, SignalStop, JoinReader, OpenReader, reader,
           PassLeft
    <3>2. CASE Writer \/ WriterDies \/ CopyPastEnd
      <4>1. UNCHANGED reader
        BY <3>2 DEF Writer, WriterDies, CopyPastEnd, EndWriterProcess, LeaveDataUnannounced,
             BeginWriteData, RejectWriteData, BeginControlCall, RejectControlCall,
           BeginCall, ZeroData, CopyData, FillData, ZeroCtl, CopyCtl, FillCtl, DataZeroed,
           DataCopied, CtlZeroed, NextFill, SignalData
      <4> QED  BY <4>1 DEF reader, PassLeft
    <3> QED  BY <2>3, <3>1, <3>2
  <2> QED  BY <2>1, <2>2, <2>3 DEF Next
<1> QED  BY <1>1, <1>2, <1>3, <1>4, Invariance, PTL DEF Spec
=============================================================================
