------------------------ MODULE ImportPipelineProofs ------------------------
(***************************************************************************)
(* Theorems of ImportPipeline, for images of every length.                 *)
(***************************************************************************)
EXTENDS ImportPipeline, TLAPS

\* The image as it is sent when all is well.
Plain(n) == [i \in 1 .. n |-> <<"plain", i>>]

\* The format is known from the detection on and right when the upstream is truthful.
FormatInv ==
  /\ format = "unknown" <=> stage \in {"detecting", "probing", "ProbeFailed"}
  /\ stage = "probing" => params.name = "other"
  /\ Truthful /\ format # "unknown" => (format = "Gzip" <=> upstream.packed)

\* One client serves the request to its end, and only the lax one hears everybody.
PeerInv ==
  /\ stage = "detecting" => client = "none"
  /\ client \in {"none", Selected}
  /\ "untrusted" \in heard => client = "no_verify"

\* The pipeline stays behind the upstream, counts what it relays, and ends without an
\* error only where the decoder or the framing says that the body is over.
DataInv ==
  /\ stage \notin {"streaming", "eof", "broken"} => supplied = 0 /\ wire = "open" /\ read = 0
  /\ read <= supplied
  /\ wire = "eof" /\ upstream.answer = "file" /\ upstream.delimited => supplied = Blocks
  /\ stage = "eof" => MemberOver \/ (format = "Raw" /\ wire = "eof" /\ read = supplied)
  /\ bytes_sent = read

IInv == TypeOK /\ FormatInv /\ PeerInv /\ DataInv /\ RelaysTheImage

\* One more block extends the image sent so far.
LEMMA PlainAppend ==
  ASSUME NEW n \in Nat
  PROVE  Append(Plain(n), <<"plain", n + 1>>) = Plain(n + 1)
BY DEF Plain

\* A step of the handler moves no data.
LEMMA HandlerStep ==
  ASSUME IInv, Detect \/ Redirected \/ ProbeAnswered \/ FetchAnswered
  PROVE  IInv'
<1> USE DEF IInv
<1>1. UNCHANGED <<params, upstream, wireVars, outVars>>
  BY DEF Detect, Redirected, ProbeAnswered, FetchAnswered
<1>2. stage' \in Stages /\ format' \in {"unknown", "Gzip", "Raw"}
  BY DEF TypeOK, Detect, Redirected, ProbeAnswered, FetchAnswered, Stages, Ends
<1>3. stage' \notin {"eof", "broken"} /\ stage \notin {"streaming", "eof", "broken"}
  BY DEF Detect, Redirected, ProbeAnswered, FetchAnswered
<1>4. client' \in {"none", "verify", "no_verify"} /\ peer' \in Peers /\ heard' \subseteq Peers
  <2>1. params.host \in Peers
    BY DEF TypeOK, Requests
  <2> QED BY <2>1 DEF TypeOK, Detect, Redirected, ProbeAnswered, FetchAnswered, Hear, Selected, peerVars
<1>5. TypeOK'
  BY <1>1, <1>2, <1>4 DEF TypeOK, wireVars, outVars
<1>6. FormatInv'
  BY <1>1 DEF FormatInv, Truthful, Detect, Redirected, ProbeAnswered, FetchAnswered
<1>7. PeerInv'
  <2>1. CASE Detect
    BY <2>1 DEF PeerInv, Detect, Selected
  <2>2. ASSUME NEW next \in SUBSET Peers, Hear(next), stage' # "detecting"
        PROVE  PeerInv'
    <3>1. "untrusted" \in heard' => client = "no_verify"
      BY <2>2 DEF PeerInv, Hear
    <3> QED BY <1>1, <2>2, <3>1 DEF PeerInv, Hear, Selected
  <2>3. CASE UNCHANGED peerVars /\ stage' # "detecting"
    BY <1>1, <2>3 DEF PeerInv, peerVars, Selected
  <2>4. CASE Redirected
    BY <2>2, <2>4 DEF Redirected
  <2>5. CASE ProbeAnswered
    <3>1. {params.host} \in SUBSET Peers
      BY DEF TypeOK, Requests
    <3> QED BY <2>2, <2>3, <2>5, <3>1 DEF ProbeAnswered
  <2>6. CASE FetchAnswered
    <3>1. {peer} \in SUBSET Peers
      BY DEF TypeOK
    <3> QED BY <2>2, <2>3, <2>6, <3>1 DEF FetchAnswered
  <2> QED BY <2>1, <2>4, <2>5, <2>6
<1>8. DataInv'
  BY <1>1, <1>3 DEF DataInv, wireVars, outVars
<1>9. RelaysTheImage'
  BY <1>1 DEF RelaysTheImage, Truthful, outVars
<1> QED BY <1>5, <1>6, <1>7, <1>8, <1>9

\* A step of the upstream reaches the pipeline only through what it has supplied.
LEMMA UpstreamStep ==
  ASSUME IInv, Supply \/ BodyEnds \/ BreakOff
  PROVE  IInv'
<1> USE DEF IInv
<1>1. stage = "streaming" /\ wire = "open"
      /\ UNCHANGED <<params, upstream, peerVars, stage, format, outVars>>
  BY DEF Supply, BodyEnds, BreakOff, Sending
<1>2. /\ supplied' \in 0 .. Blocks /\ supplied <= supplied'
      /\ wire' \in {"open", "eof", "error"}
      /\ wire' = "eof" /\ upstream.answer = "file" /\ upstream.delimited => supplied' = Blocks
  BY <1>1, BlocksAssumption DEF BlocksAssumption, TypeOK, Supply, BodyEnds, BreakOff
<1>3. TypeOK'
  BY <1>1, <1>2 DEF TypeOK, peerVars, outVars
<1>4. FormatInv' /\ PeerInv' /\ RelaysTheImage'
  BY <1>1 DEF FormatInv, PeerInv, RelaysTheImage, Truthful, Selected, peerVars, outVars
<1>5. DataInv'
  BY <1>1, <1>2, BlocksAssumption DEF BlocksAssumption, DataInv, TypeOK, outVars
<1> QED BY <1>3, <1>4, <1>5

\* The body ends, with an error or where it may without.
LEMMA EndStep ==
  ASSUME IInv, stage = "streaming",
         Go("broken") \/ (Go("eof") /\ (MemberOver \/ (format = "Raw" /\ read = supplied /\ wire = "eof")))
  PROVE  IInv'
<1> USE DEF IInv
<1>1. UNCHANGED <<params, upstream, peerVars, format, wireVars, outVars>> /\ stage' \in {"broken", "eof"}
  BY DEF Go
<1>2. TypeOK'
  BY <1>1 DEF TypeOK, Stages, Ends, peerVars, wireVars, outVars
<1>3. FormatInv' /\ PeerInv' /\ RelaysTheImage'
  BY <1>1 DEF FormatInv, PeerInv, RelaysTheImage, Truthful, Selected, peerVars, outVars
<1>4. DataInv'
  BY <1>1 DEF DataInv, Go, MemberOver, wireVars, outVars
<1> QED BY <1>2, <1>3, <1>4

\* A block is relayed, plain if the upstream is truthful.
LEMMA EmitStep ==
  ASSUME IInv, stage = "streaming", read < supplied,
         NEW form \in {"plain", "packed"}, Truthful => form = "plain", Emit(form)
  PROVE  IInv'
<1> USE DEF IInv
<1>1. UNCHANGED <<params, upstream, peerVars, stage, format, wireVars>>
  BY DEF Emit
<1>2. /\ read \in Nat /\ supplied \in 0 .. Blocks /\ read + 1 \in 1 .. Blocks
      /\ read' = read + 1 /\ bytes_sent' = read'
  BY BlocksAssumption DEF BlocksAssumption, TypeOK, DataInv, Emit
<1>3. DataInv'
  BY <1>1, <1>2 DEF DataInv, wireVars
<1>4. FormatInv' /\ PeerInv'
  BY <1>1 DEF FormatInv, PeerInv, Truthful, Selected, peerVars
<1>5. <<form, Block(read + 1)>> \in {"plain", "packed"} \X (0 .. Blocks)
  <2>1. 0 \in 0 .. Blocks /\ read + 1 \in 0 .. Blocks
    BY <1>2, BlocksAssumption DEF BlocksAssumption
  <2>2. Block(read + 1) \in 0 .. Blocks
    BY <2>1 DEF Block
  <2> QED BY <2>2
<1>6. TypeOK'
  BY <1>1, <1>2, <1>5 DEF TypeOK, Emit, peerVars, wireVars
<1>7. bytes_sent' = Len(sent')
  <2>1. Len(sent') = Len(sent) + 1
    BY <1>5 DEF TypeOK, Emit
  <2> QED BY <1>2, <2>1 DEF RelaysTheImage, DataInv
<1>8. ASSUME Truthful, upstream.answer = "file"
      PROVE  sent' = Plain(read')
  <2>1. sent = Plain(read)
    BY <1>8 DEF RelaysTheImage, Plain
  <2>2. Append(sent, <<"plain", read + 1>>) = Plain(read + 1)
    BY <1>2, <2>1, PlainAppend
  <2> QED BY <1>2, <1>8, <2>2 DEF Emit, Block
<1>9. RelaysTheImage'
  BY <1>1, <1>7, <1>8 DEF RelaysTheImage, Truthful, Plain
<1> QED BY <1>3, <1>4, <1>6, <1>9

\* Each step of the import keeps the format right and the data in order.
LEMMA PipelineInductive ==
  /\ Init => IInv
  /\ IInv /\ [Next]_vars => IInv'
<1>1. ASSUME Init
      PROVE  IInv
  <2>1. TypeOK
    BY <1>1, BlocksAssumption DEF BlocksAssumption, Init, TypeOK, Stages, Ends, Requests
  <2>2. FormatInv /\ PeerInv /\ DataInv
    BY <1>1 DEF Init, FormatInv, PeerInv, DataInv
  <2>3. RelaysTheImage
    BY <1>1 DEF Init, RelaysTheImage
  <2> QED BY <2>1, <2>2, <2>3 DEF IInv
<1>2. ASSUME IInv, [Next]_vars
      PROVE  IInv'
  <2>1. CASE Relay
    <3>1. stage = "streaming" /\ read < supplied
      BY <2>1 DEF Relay
    <3>2. CASE format = "Raw" /\ Emit(IF upstream.packed THEN "packed" ELSE "plain")
      <4>1. Truthful => ~upstream.packed
        BY <1>2, <3>2 DEF IInv, FormatInv
      <4> QED BY <1>2, <3>1, <3>2, <4>1, EmitStep
    <3>3. CASE format = "Gzip" /\ upstream.packed /\ Emit("plain")
      BY <1>2, <3>1, <3>3, EmitStep
    <3>4. CASE Go("broken")
      BY <1>2, <3>1, <3>4, EndStep
    <3> QED BY <2>1, <3>2, <3>3, <3>4 DEF Relay
  <2>2. CASE Finish \/ Break
    BY <1>2, <2>2, EndStep DEF Finish, Break
  <2>3. CASE UNCHANGED vars
    <3> USE <1>2, <2>3 DEF IInv, vars, peerVars, wireVars, outVars
    <3>1. TypeOK'
      BY DEF TypeOK
    <3>2. FormatInv' /\ PeerInv' /\ DataInv' /\ RelaysTheImage'
      BY DEF FormatInv, PeerInv, DataInv, RelaysTheImage, Truthful, Selected, MemberOver
    <3> QED BY <3>1, <3>2
  <2> QED BY <1>2, <2>1, <2>2, <2>3, HandlerStep, UpstreamStep DEF Next
<1> QED BY <1>1, <1>2

\* Every variable of an import keeps its type.
THEOREM TypeCorrect == Spec => []TypeOK
BY PipelineInductive, PTL DEF Spec, IInv

\* No redirect and no second request leads to an unverified peer, but at the request's wish.
THEOREM VerifiedUnlessAsked == Spec => []OnlyVerifiedUnlessAsked
<1>1. IInv => OnlyVerifiedUnlessAsked
  BY DEF IInv, PeerInv, Selected, OnlyVerifiedUnlessAsked
<1> QED BY <1>1, PipelineInductive, PTL DEF Spec

\* The file of a truthful upstream arrives plain and in order; all that is sent is counted.
THEOREM ImageIsRelayed == Spec => []RelaysTheImage
BY PipelineInductive, PTL DEF Spec, IInv

\* A transfer cut short does not look complete, wherever it was cut.
THEOREM EndMeansWhole == Spec => []CleanEndIsComplete
<1>1. ASSUME IInv
      PROVE  CleanEndIsComplete
  <2> SUFFICES ASSUME stage = "eof", Truthful, upstream.answer = "file",
                      IF upstream.packed THEN upstream.firstMember = Blocks ELSE upstream.delimited
               PROVE  read = Blocks
    BY <1>1 DEF CleanEndIsComplete, IInv, DataInv
  <2>1. format = "Gzip" <=> upstream.packed
    BY <1>1 DEF IInv, FormatInv
  <2> QED BY <1>1, <2>1 DEF IInv, DataInv, MemberOver
<1> QED BY <1>1, PipelineInductive, PTL DEF Spec

-----------------------------------------------------------------------------
\* The statuses of the two failures of an import.
LEMMA FailuresAre502 == Handler!StatusOf["ProbeFailed"] = 502 /\ Handler!StatusOf["UpstreamFailed"] = 502
BY DEF Handler!StatusOf, Handler!ProxyError

\* Before the pipeline takes a step, no handler has started.
LEMMA StartsAsHandler == Init => Handler!Init
BY DEF Init, Handler!Init, HandlerStage, HandlerStatus

\* Each step is one of the handler, or moves only data.
LEMMA StepIsHandled == [Next]_vars => [Handler!Next]_(Handler!vars)
<1> SUFFICES ASSUME [Next]_vars PROVE [Handler!Next]_(Handler!vars)
  OBVIOUS
<1> USE DEF HandlerStage, HandlerStatus
<1>1. CASE Detect
  <2>1. CASE stage' = "fetching"
    <3>1. Handler!TryImport("this")
      BY <1>1, <2>1 DEF Detect, Go, Handler!TryImport, Handler!Await
    <3>q. QED BY <1>1, <3>1 DEF Detect, Handler!Start, Handler!Next
  <2>2. CASE stage' = "probing"
    <3>1. Handler!Start("this")
      BY <1>1, <2>2 DEF Detect, Go, Handler!Start, Handler!Await
    <3>q. QED BY <3>1 DEF Handler!Next
  <2>q. QED BY <1>1, <2>1, <2>2 DEF Detect, Go
<1>2. CASE ProbeAnswered
  <2>1. CASE stage' = "ProbeFailed"
    <3>1. Handler!ProbeAnswered("this")
      BY <1>2, <2>1, FailuresAre502
         DEF ProbeAnswered, Go, Handler!ProbeAnswered, Handler!Fail, Handler!Respond
    <3>q. QED BY <3>1 DEF Handler!Next
  <2>2. CASE stage' = "fetching"
    <3>1. Handler!TryImport("this")
      BY <1>2, <2>2 DEF ProbeAnswered, Go, Handler!TryImport, Handler!Await
    <3>q. QED BY <1>2, <3>1 DEF ProbeAnswered, Handler!ProbeAnswered, Handler!Next
  <2>q. QED BY <1>2, <2>1, <2>2 DEF ProbeAnswered, Go
<1>3. CASE FetchAnswered
  <2>1. CASE stage' = "UpstreamFailed"
    <3>1. Handler!Fail("this", "UpstreamFailed")
      BY <1>3, <2>1, FailuresAre502 DEF FetchAnswered, Handler!Fail, Handler!Respond
    <3>2. Handler!FetchAnswered("this")
      BY <1>3, <2>1, <3>1 DEF FetchAnswered, Handler!FetchAnswered
    <3>q. QED BY <3>2 DEF Handler!Next
  <2>2. CASE stage' = "streaming"
    <3>1. Handler!FetchAnswered("this")
      BY <1>3, <2>2 DEF FetchAnswered, Go, Handler!FetchAnswered, Handler!Respond
    <3>q. QED BY <3>1 DEF Handler!Next
  <2>q. QED BY <1>3, <2>1, <2>2 DEF FetchAnswered, Go
<1>4. ASSUME stage = "streaming", stage' \in {"eof", "broken"}
      PROVE  Handler!Drop("this")
  BY <1>4 DEF Handler!Drop, Handler!Respond
<1>5. ASSUME UNCHANGED stage
      PROVE  UNCHANGED Handler!vars
  BY <1>5 DEF Handler!vars
<1>6. CASE Relay
  <2>1. (stage' = stage) \/ (stage = "streaming" /\ stage' = "broken")
    BY <1>6 DEF Relay, Emit, Go
  <2>2. CASE UNCHANGED stage
    BY <2>2, <1>5
  <2>3. CASE stage = "streaming" /\ stage' = "broken"
    BY <2>3, <1>4 DEF Handler!Next
  <2>q. QED BY <2>1, <2>2, <2>3
<1>7. CASE Finish \/ Break
  BY <1>4, <1>7 DEF Finish, Break, Go, Handler!Next
<1>8. CASE Redirected \/ Supply \/ BodyEnds \/ BreakOff
  BY <1>5, <1>8 DEF Redirected, Supply, BodyEnds, BreakOff, Sending
<1>9. CASE UNCHANGED vars
  BY <1>5, <1>9 DEF vars
<1>q. QED BY <1>1, <1>2, <1>3, <1>6, <1>7, <1>8, <1>9 DEF Next

\* An import moves its data under the control of the handler: probe, lock, GET, body.
THEOREM PipelineIsHandled == Spec => ImplementsHandler
BY StartsAsHandler, StepIsHandled, PTL DEF Spec, ImplementsHandler

=============================================================================
