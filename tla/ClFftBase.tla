------------------------------- MODULE ClFftBase -------------------------------
(***************************************************************************)
(* Class cl_fft_base of cl_fft_base.cpp: an OpenCL context and queue, and  *)
(* calculate, which runs one FFT through a chain of OpenCL and clFFT calls *)
(* each of which may fail, and puts the kind of result its caller asked    *)
(* for into a std::any.  One thread uses an object.  OpenCL objects are    *)
(* named by what they are and the call of calculate that made them.        *)
(***************************************************************************)
EXTENDS Naturals

CONSTANT MaxCalls   \* bound: calls of calculate

ASSUME CallsAssumption == MaxCalls \in Nat

VARIABLES
  object,    \* "none", "live", "gone"
  stage,     \* the next call calculate makes; "idle" outside of it
  call,      \* number of the latest calculate
  asked,     \* t.type()
  many,      \* m_ > 1
  t,         \* what the caller's std::any holds, [by |-> 0]: what he put there
  device,    \* context_ and queue_: "live", "released"
  buffer,    \* buffer_: the call that made it, Null, or Wild: never set
  alive,     \* the OpenCL objects made and not released, <<what, call>>
  spectrum,  \* the buffers that hold a spectrum
  times,     \* the call that filled time_opencl_, 0: none
  handler,   \* freturn_data_, "none": null
  lastType,  \* last_type_
  lost,      \* a clCreateBuffer has failed
  undefined  \* an object already released, or an indeterminate one, was used

calcVars == <<call, asked, many, t, times, handler, lastType>>
clVars   == <<device, buffer, alive, spectrum, lost>>
vars     == <<object, stage, calcVars, clVars, undefined>>

\* typeActions_ and handlers_ have the same keys.
Types == {"calc_time_opencl", "data_fft", "fft_data_time"}

Calls == 1 .. MaxCalls
Null  == 0
Wild  == MaxCalls + 1

-----------------------------------------------------------------------------
\* The constructor; if it throws there is no object.
Construct ==
  /\ object = "none"
  /\ object' = "live" /\ device' = "live"
  /\ alive' = {<<"device", 0>>}
  /\ UNCHANGED <<stage, calcVars, buffer, spectrum, lost, undefined>>

\* process_type throws for a type it does not know and nothing has changed.
Refuse ==
  /\ object = "live" /\ stage = "idle" /\ call < MaxCalls
  /\ call' = call + 1 /\ asked' = "other" /\ t' = [by |-> 0]
  /\ UNCHANGED <<object, stage, many, times, handler, lastType, clVars, undefined>>

Calculate(type, m) ==
  /\ object = "live" /\ stage = "idle" /\ call < MaxCalls
  /\ call' = call + 1 /\ asked' = type /\ many' = m /\ t' = [by |-> 0]
  /\ stage' = "input"
  /\ UNCHANGED <<object, times, handler, lastType, clVars, undefined>>

\* A call into OpenCL with a context or queue already released.
Undefined == device = "released" /\ undefined' = TRUE

Goto(from, to) == stage = from /\ stage' = to /\ UNCHANGED <<object, call, asked, many>>

\* The buffer with the caller's data; a failure is overwritten by the next
\* clCreateBuffer.  The buffer of the call before is not released.
CreateInput ==
  /\ Goto("input", "output")
  /\ \/ /\ device = "live"
        /\ \/ buffer' = call /\ alive' = alive \cup {<<"input", call>>} /\ UNCHANGED lost
           \/ buffer' = Null /\ lost' = TRUE /\ UNCHANGED alive
        /\ UNCHANGED undefined
     \/ Undefined /\ UNCHANGED <<buffer, alive, lost>>
  /\ UNCHANGED <<t, times, handler, lastType, device, spectrum>>

\* Mutant: queue and context are released without a throw.
CreateOutputGoingOn ==
  /\ Goto("output", "setup")
  /\ device' = "released" /\ alive' = alive \ {<<"device", 0>>}
  /\ UNCHANGED <<t, times, handler, lastType, buffer, spectrum, lost, undefined>>

\* outputBuffer; a failure releases queue and context and throws.
CreateOutput ==
  /\ \/ /\ Goto("output", "setup")
        /\ alive' = alive \cup {<<"output", call>>} /\ UNCHANGED <<device, lost>>
     \/ /\ Goto("output", "idle")
        /\ device' = "released" /\ alive' = alive \ {<<"device", 0>>} /\ lost' = TRUE
  /\ UNCHANGED <<t, times, handler, lastType, buffer, spectrum, undefined>>

\* A stage that can throw; nothing calculate has made is released then.
Throw ==
  /\ \E from \in {"setup", "write", "plan", "tune", "bake", "transform", "convert"} :
       Goto(from, "idle")
  /\ UNCHANGED <<t, times, handler, lastType, clVars, undefined>>

\* clfftInitSetupData and clfftSetup, every time anew.
Setup ==
  /\ Goto("setup", IF many THEN "write" ELSE "plan")
  /\ UNCHANGED <<t, times, handler, lastType, clVars, undefined>>

\* OpenCL refuses a command on no buffer.
HasBuffer == buffer \in Calls

WriteBuffer ==
  /\ HasBuffer /\ Goto("write", "plan")
  /\ UNCHANGED <<t, times, handler, lastType, clVars, undefined>>

CreatePlan ==
  /\ Goto("plan", "tune")
  /\ alive' = alive \cup {<<"plan", call>>}
  /\ UNCHANGED <<t, times, handler, lastType, device, buffer, spectrum, lost, undefined>>

\* Setting the plan's parameters, then baking it.
TunePlan ==
  /\ \E step \in {<<"tune", "bake">>, <<"bake", "transform">>} : Goto(step[1], step[2])
  /\ UNCHANGED <<t, times, handler, lastType, clVars, undefined>>

\* Mutant: the error of the transform is not looked at.
TransformUnchecked ==
  /\ Goto("transform", "times")
  /\ spectrum' = spectrum \cup {buffer}
  /\ UNCHANGED <<t, times, handler, lastType, device, buffer, alive, lost, undefined>>

\* The transform on buffer_, in place, and clFinish.
Transform ==
  /\ HasBuffer /\ Goto("transform", "times")
  /\ spectrum' = spectrum \cup {buffer}
  /\ UNCHANGED <<t, times, handler, lastType, device, buffer, alive, lost, undefined>>

TakeTimes ==
  /\ Goto("times", "handler")
  /\ times' = call
  /\ UNCHANGED <<t, handler, lastType, clVars, undefined>>

\* Mutant: a handler that was found once is never looked up again.
SelectHandlerOnce ==
  /\ handler' = IF handler = "none" THEN asked ELSE handler
  /\ lastType' = asked

\* The handler is looked up when the type differs from that of the call before.
SelectHandler ==
  /\ handler' = IF asked # lastType THEN asked ELSE handler
  /\ lastType' = asked

\* return_calc_time_opencl, the default too; the other handlers convert first.
RunHandler ==
  /\ SelectHandler
  /\ \/ /\ handler' \in {"none", "calc_time_opencl"}
        /\ Goto("handler", "idle")
        /\ t' = [by |-> call, kind |-> "calc_time_opencl", times |-> times, data |-> 0, many |-> FALSE]
     \/ handler' \in {"data_fft", "fft_data_time"} /\ Goto("handler", "convert") /\ UNCHANGED t
  /\ UNCHANGED <<times, clVars, undefined>>

\* convert_data reads buffer_ and the handler assigns the result in one piece.
Convert ==
  /\ HasBuffer /\ Goto("convert", "idle")
  /\ t' = [by |-> call, kind |-> handler,
           times |-> IF handler = "fft_data_time" THEN times ELSE 0,
           data |-> IF buffer \in spectrum THEN buffer ELSE 0, many |-> many]
  /\ UNCHANGED <<times, handler, lastType, clVars, undefined>>

\* buffer_, queue_ and context_; OpenCL refuses to release no buffer.
ReleaseAll ==
  /\ undefined' = (device # "live" \/ buffer = Wild)
  /\ device' = "released"
  /\ alive' = alive \ {<<"device", 0>>, <<"input", buffer>>}

Destroy ==
  /\ object = "live" /\ stage = "idle"
  /\ object' = "gone"
  /\ ReleaseAll
  /\ UNCHANGED <<stage, calcVars, buffer, spectrum, lost>>

-----------------------------------------------------------------------------
Init ==
  /\ object = "none" /\ stage = "idle" /\ call = 0 /\ asked = "other" /\ many = FALSE
  /\ t = [by |-> 0] /\ device = "none" /\ buffer = Wild /\ alive = {} /\ spectrum = {}
  /\ times = 0 /\ handler = "none" /\ lastType = "void" /\ lost = FALSE /\ undefined = FALSE

\* What follows undefined behaviour is not described.
Next ==
  /\ ~undefined
  /\ \/ Construct \/ Refuse \/ Destroy
     \/ \E type \in Types, m \in BOOLEAN : Calculate(type, m)
     \/ CreateInput \/ CreateOutput \/ Setup \/ WriteBuffer \/ CreatePlan \/ TunePlan
     \/ Transform \/ TakeTimes \/ RunHandler \/ Convert \/ Throw

Spec == Init /\ [][Next]_vars
-----------------------------------------------------------------------------
HasTimes == {"calc_time_opencl", "fft_data_time"}
HasData  == {"data_fft", "fft_data_time"}

\* What calculate promises of its call number c.
Result(c) ==
  [by |-> c, kind |-> asked,
   times |-> IF asked \in HasTimes THEN c ELSE 0,
   data |-> IF asked \in HasData THEN c ELSE 0,
   many |-> IF asked \in HasData THEN many ELSE FALSE]

\* When calculate has returned without throwing, the caller has the kind of
\* result he asked for, with the times and the spectrum of this very call, whatever
\* was asked and whatever failed in the calls before.
ResultIsThisCalls == t.by # 0 => t = Result(call)

\* convert_data reads n_ * m_ points of a buffer made for this n_ and m_, although
\* the error of the clCreateBuffer that made it is overwritten unread.
ConvertReadsOwnBuffer == stage = "convert" => buffer = call

\* An OpenCL object is used after its release, or the indeterminate buffer_ is
\* released, only after a clCreateBuffer failed or if none was ever called.
UndefinedNeedsLoss == undefined => lost \/ buffer = Wild
=============================================================================
