---------------------------- MODULE ClFftBase_proofs ----------------------------
(* Proofs about ClFftBase for any number of calls.                           *)
EXTENDS ClFftBase, TLAPS

\* The kinds of the variables the arguments below rest on.
Kinds ==
  /\ object \in {"none", "live", "gone"} /\ call \in 0 .. MaxCalls
  /\ asked \in Types \cup {"other"} /\ (stage # "idle" => asked \in Types)
  /\ stage # "idle" => object = "live" /\ call \in Calls /\ t.by = 0

\* From the second clCreateBuffer on buffer_ is this call's or none, and a
\* command that needs a buffer lets only the former pass.
BufferOK ==
  /\ stage \notin {"idle", "input"} /\ ~undefined => buffer \in {call, Null}
  /\ stage \in {"times", "handler", "convert"} => buffer = call /\ call \in spectrum

\* The cached handler is the one of the cached type.
HandlerOK ==
  /\ (handler \in Types /\ lastType = handler) \/ (handler = "none" /\ lastType = "void")
  /\ stage \in {"handler", "convert"} => times = call
  /\ stage = "convert" => handler = asked /\ asked \in HasData

\* The device of a live object is only lost to a failed clCreateBuffer.
DeviceOK ==
  object = "live" => device = "live" \/ (device = "released" /\ lost)

IInv == Kinds /\ BufferOK /\ HandlerOK /\ DeviceOK /\ ResultIsThisCalls /\ UndefinedNeedsLoss

LEMMA InitIInv == Init => IInv
BY CallsAssumption DEF Init, IInv, Kinds, BufferOK, HandlerOK, DeviceOK, ResultIsThisCalls,
   UndefinedNeedsLoss, Types

\* Calls are numbered from 1, so that no number stands for two things.
LEMMA CallNumbers ==
  /\ \A c \in Calls : c \in Nat /\ c # Null /\ c # Wild /\ c \in 0 .. MaxCalls
  /\ \A c \in 0 .. MaxCalls : c < MaxCalls => c + 1 \in Calls
BY CallsAssumption DEF Calls, Null, Wild

\* Every step preserves the kinds.
LEMMA StepKinds ==
  ASSUME IInv, Next  PROVE Kinds'
<1> USE CallNumbers DEF IInv, Kinds, Goto, Types, calcVars, clVars
<1>1. CASE Construct      BY <1>1 DEF Construct
<1>2. CASE Refuse         BY <1>2 DEF Refuse, Calls
<1>3. CASE Destroy        BY <1>3 DEF Destroy
<1>4. CASE \E type \in Types, m \in BOOLEAN : Calculate(type, m)
  BY <1>4 DEF Calculate, Calls
<1>5. CASE CreateInput    BY <1>5 DEF CreateInput
<1>6. CASE CreateOutput   BY <1>6 DEF CreateOutput
<1>7. CASE Setup          BY <1>7 DEF Setup
<1>8. CASE WriteBuffer    BY <1>8 DEF WriteBuffer
<1>9. CASE CreatePlan     BY <1>9 DEF CreatePlan
<1>10. CASE TunePlan      BY <1>10 DEF TunePlan
<1>11. CASE Transform     BY <1>11 DEF Transform
<1>12. CASE TakeTimes     BY <1>12 DEF TakeTimes
<1>13. CASE RunHandler    BY <1>13 DEF RunHandler, SelectHandler
<1>14. CASE Convert       BY <1>14 DEF Convert
<1>15. CASE Throw         BY <1>15 DEF Throw
<1> QED  BY <1>1, <1>2, <1>3, <1>4, <1>5, <1>6, <1>7, <1>8, <1>9, <1>10, <1>11, <1>12,
            <1>13, <1>14, <1>15 DEF Next

\* Every step keeps buffer_, the handler and the device in order.
LEMMA StepOrder ==
  ASSUME IInv, Next  PROVE BufferOK' /\ HandlerOK' /\ DeviceOK'
<1> USE CallNumbers DEF IInv, Kinds, BufferOK, HandlerOK, DeviceOK, Goto, Types, HasData,
        calcVars, clVars, HasBuffer
<1>1. CASE Construct      BY <1>1 DEF Construct
<1>2. CASE Refuse         BY <1>2 DEF Refuse
<1>3. CASE Destroy        BY <1>3 DEF Destroy
<1>4. CASE \E type \in Types, m \in BOOLEAN : Calculate(type, m)
  BY <1>4 DEF Calculate
<1>5. CASE CreateInput
  <2>1. stage' = "output" /\ UNCHANGED <<object, call, asked, times, handler, lastType, device>>
    BY <1>5 DEF CreateInput
  <2>2. (undefined' \/ buffer' \in {call, Null}) /\ (lost' \/ lost' = lost)
    BY <1>5 DEF CreateInput, Undefined
  <2>3. BufferOK'  BY <2>1, <2>2
  <2>4. HandlerOK'  BY <2>1
  <2> QED  BY <2>1, <2>2, <2>3, <2>4
<1>6. CASE CreateOutput
  <2>1. /\ stage' \in {"setup", "idle"} /\ stage = "output"
        /\ UNCHANGED <<object, call, asked, times, handler, lastType, buffer, undefined>>
    BY <1>6 DEF CreateOutput
  <2>2. device' = device \/ (device' = "released" /\ lost')
    BY <1>6 DEF CreateOutput
  <2>3. lost => lost'
    BY <1>6 DEF CreateOutput
  <2>4. BufferOK' /\ HandlerOK'  BY <2>1
  <2> QED  BY <2>1, <2>2, <2>3, <2>4
<1>7. CASE Setup          BY <1>7 DEF Setup
<1>8. CASE WriteBuffer    BY <1>8 DEF WriteBuffer
<1>9. CASE CreatePlan     BY <1>9 DEF CreatePlan
<1>10. CASE TunePlan      BY <1>10 DEF TunePlan
<1>11. CASE Transform
  <2>1. /\ stage = "transform" /\ stage' = "times" /\ ~undefined
        /\ UNCHANGED <<object, call, asked, times, handler, lastType, device, lost, buffer>>
    BY <1>11 DEF Transform, Next
  <2>2. buffer = call
    BY <1>11, <2>1 DEF Transform, Null
  <2>3. spectrum' = spectrum \cup {call}
    BY <1>11, <2>2 DEF Transform
  <2> QED  BY <2>1, <2>2, <2>3
<1>12. CASE TakeTimes     BY <1>12 DEF TakeTimes
<1>13. CASE RunHandler    BY <1>13 DEF RunHandler, SelectHandler
<1>14. CASE Convert       BY <1>14 DEF Convert
<1>15. CASE Throw         BY <1>15 DEF Throw
<1> QED  BY <1>1, <1>2, <1>3, <1>4, <1>5, <1>6, <1>7, <1>8, <1>9, <1>10, <1>11, <1>12,
            <1>13, <1>14, <1>15 DEF Next

\* calculate puts the result of its call into t; only two of its steps do.
LEMMA StepResult ==
  ASSUME IInv, Next  PROVE ResultIsThisCalls'
<1> USE DEF IInv, Kinds, Goto, calcVars, clVars, ResultIsThisCalls, Result
<1>1. CASE RunHandler
  <2>1. CASE handler' \in {"none", "calc_time_opencl"}
    <3>1. asked = "calc_time_opencl" /\ times = call
      BY <1>1, <2>1 DEF RunHandler, SelectHandler, HandlerOK, Types
    <3> QED  BY <1>1, <2>1, <3>1 DEF RunHandler, HasTimes, HasData
  <2>2. CASE handler' \in {"data_fft", "fft_data_time"}
    BY <1>1, <2>2 DEF RunHandler
  <2> QED  BY <1>1, <2>1, <2>2 DEF RunHandler
<1>2. CASE Convert
  <2>1. /\ handler = asked /\ asked \in HasData /\ times = call
        /\ buffer = call /\ call \in spectrum
    BY <1>2 DEF Convert, HandlerOK, BufferOK
  <2> QED  BY <1>2, <2>1 DEF Convert, HasTimes, HasData
<1>3. CASE Refuse \/ \E type \in Types, m \in BOOLEAN : Calculate(type, m)
  BY <1>3 DEF Refuse, Calculate
<1>4. CASE UNCHANGED <<t, call, asked, many>>
  BY <1>4
<1> QED
  BY <1>1, <1>2, <1>3, <1>4 DEF Next, Construct, Destroy, CreateInput, CreateOutput, Setup,
     WriteBuffer, CreatePlan, TunePlan, Transform, TakeTimes, Throw

\* An object is used after its release in two places, and both need a loss.
LEMMA StepUndefined ==
  ASSUME IInv, Next  PROVE UndefinedNeedsLoss'
<1> USE DEF IInv, Kinds, DeviceOK, Goto, calcVars, clVars, UndefinedNeedsLoss
<1>1. CASE CreateInput   BY <1>1 DEF CreateInput, Undefined, Next
<1>2. CASE Destroy       BY <1>2 DEF Destroy, ReleaseAll
<1>3. CASE CreateOutput  BY <1>3 DEF CreateOutput
<1>4. CASE UNCHANGED <<undefined, lost, buffer>>  BY <1>4 DEF Wild
<1> QED
  BY <1>1, <1>2, <1>3, <1>4 DEF Next, Construct, Refuse, Calculate, Setup, WriteBuffer,
     CreatePlan, TunePlan, Transform, TakeTimes, RunHandler, Convert, Throw

LEMMA NextIInv == IInv /\ [Next]_vars => IInv'
<1>1. IInv /\ Next => IInv'
  BY StepKinds, StepOrder, StepResult, StepUndefined DEF IInv
<1>2. IInv /\ UNCHANGED vars => IInv'
  <2> SUFFICES ASSUME IInv, UNCHANGED vars  PROVE IInv'
    OBVIOUS
  <2> USE DEF vars, calcVars, clVars, IInv
  <2>1. Kinds' /\ BufferOK' /\ HandlerOK' /\ DeviceOK'
    BY DEF Kinds, BufferOK, HandlerOK, DeviceOK
  <2>2. ResultIsThisCalls' /\ UndefinedNeedsLoss'
    BY DEF ResultIsThisCalls, Result, UndefinedNeedsLoss
  <2> QED  BY <2>1, <2>2
<1> QED  BY <1>1, <1>2

THEOREM Invariance == Spec => []IInv
BY InitIInv, NextIInv, PTL DEF Spec

\* A calculate that returns gives the kind of result asked for, made of its own
\* times and its own spectrum, after any sequence of calls and failures.
THEOREM ResultOfThisCall == Spec => []ResultIsThisCalls
<1>1. IInv => ResultIsThisCalls  BY DEF IInv
<1> QED  BY <1>1, Invariance, PTL

\* convert_data never reads a buffer made for other dimensions, or none.
THEOREM ConvertReadsItsBuffer == Spec => []ConvertReadsOwnBuffer
<1>1. IInv => ConvertReadsOwnBuffer  BY DEF IInv, BufferOK, ConvertReadsOwnBuffer
<1> QED  BY <1>1, Invariance, PTL

\* Released objects are used only after a failed clCreateBuffer, or none.
THEOREM UndefinedOnlyAfterLoss == Spec => []UndefinedNeedsLoss
<1>1. IInv => UndefinedNeedsLoss  BY DEF IInv
<1> QED  BY <1>1, Invariance, PTL
=============================================================================
