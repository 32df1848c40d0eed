--------------------------- MODULE ImportPipeline ---------------------------
(***************************************************************************)
(* What one import does with its data: the format detection of handler.rs  *)
(* and the fetch pipeline of stream.rs, for one request against one        *)
(* upstream.  ImageHandler has the lock and the other requests; here the   *)
(* question is what the client is sent.                                    *)
(*                                                                         *)
(* The image is the blocks 1 .. Blocks.  A file that is packed holds them  *)
(* gzipped, in one gzip member or in two.  The upstream sends its body at  *)
(* its own pace and may break off anywhere; the pipeline follows behind.   *)
(***************************************************************************)
EXTENDS Naturals, Sequences

CONSTANT Blocks

ASSUME BlocksAssumption == Blocks \in Nat \ {0}

\* trusted: plain HTTP, or a certificate the verifying client accepts.
Peers == {"trusted", "untrusted"}

\* host, name: of `src`, its host and what its path ends with.
Requests == [host : Peers, name : {".xva.gz", ".xva", "other"},
             verify_ssl : {"absent", "true", "false"}]

\* packed, firstMember: the body of GET; its first gzip member has that many blocks.
\* delimited: by Content-Length or chunks, else by the close of the connection.
\* saysGzip: Content-Type or Content-Encoding of HEAD speak of gzip.
\* headOk: the status of HEAD is below 400.
\* answer: what GET answers, "error" a status of 400 or more, "other" a lesser one
\* whose body is not the file (3xx without a Location to follow).
Upstreams == [packed : BOOLEAN, firstMember : 1 .. Blocks, delimited : BOOLEAN,
              saysGzip : BOOLEAN, headOk : BOOLEAN, answer : {"file", "other", "error"}]

VARIABLES
  params,    \* the request, fixed
  upstream,  \* the upstream, fixed
  client,    \* which of the two reqwest clients was selected
  peer,      \* the host being asked: that of `src`, or where a redirect led
  heard,     \* the peers of which an answer was used
  stage,     \* where the handler stands
  format,    \* ImageFormat, once detected
  supplied,  \* blocks the upstream has sent
  wire,      \* what hyper makes of the end of the body, "open" before it
  read,      \* blocks the pipeline has taken of them
  sent,      \* blocks handed to the client, each plain or packed
  bytes_sent \* the counter of GuardedStream

peerVars == <<client, peer, heard>>
wireVars == <<supplied, wire>>
outVars == <<read, sent, bytes_sent>>
vars == <<params, upstream, peerVars, stage, format, wireVars, outVars>>

\* ProbeFailed and UpstreamFailed are 502 replies; eof and broken both end a
\* 200, the second with an error the client sees as an early close.
Ends == {"ProbeFailed", "UpstreamFailed", "eof", "broken"}
Stages == {"detecting", "probing", "fetching", "streaming"} \cup Ends

Init ==
  /\ params \in Requests
  /\ upstream \in Upstreams
  /\ client = "none" /\ peer = params.host /\ heard = {}
  /\ stage = "detecting" /\ format = "unknown"
  /\ supplied = 0 /\ wire = "open"
  /\ read = 0 /\ sent = << >> /\ bytes_sent = 0

-----------------------------------------------------------------------------
(* The handler: client, format, upstream GET.                              *)

SelectedByDefault ==  \* mutant: unwrap_or(false), no verification unless asked for
  IF params.verify_ssl = "true" THEN "verify" ELSE "no_verify"

Selected == IF params.verify_ssl = "false" THEN "no_verify" ELSE "verify"

DetectShortest ==  \* mutant: only the shortest extension is looked at
  /\ stage = "detecting"
  /\ client' = Selected
  /\ IF params.name = "other"
     THEN stage' = "probing" /\ UNCHANGED format
     ELSE stage' = "fetching" /\ format' = "Raw"
  /\ UNCHANGED <<params, upstream, peer, heard, wireVars, outVars>>

\* The client is selected; then detect_format: the extension decides when it can,
\* else the HEAD probe is sent.
Detect ==
  /\ stage = "detecting"
  /\ client' = Selected
  /\ \/ params.name = ".xva.gz" /\ stage' = "fetching" /\ format' = "Gzip"
     \/ params.name = ".xva" /\ stage' = "fetching" /\ format' = "Raw"
     \/ params.name = "other" /\ stage' = "probing" /\ UNCHANGED format
  /\ UNCHANGED <<params, upstream, peer, heard, wireVars, outVars>>

\* A peer is heard once the handshake with it succeeds; it answers, or sends on.
Hear(next) ==
  /\ client = "no_verify" \/ peer = "trusted"
  /\ heard' = heard \cup {peer}
  /\ peer' \in next
  /\ UNCHANGED client

\* reqwest follows a redirect of HEAD or GET to any host, with the same client.
Redirected ==
  /\ stage \in {"probing", "fetching"}
  /\ Hear(Peers)
  /\ UNCHANGED <<params, upstream, stage, format, wireVars, outVars>>

\* The HEAD probe fails for want of an answer only; the headers of any answer, an
\* error's too, decide the format.  The GET starts again from `src`.
ProbeAnswered ==
  /\ stage = "probing"
  /\ \/ stage' = "ProbeFailed" /\ UNCHANGED <<peerVars, format>>
     \/ /\ Hear({params.host})
        /\ stage' = "fetching"
        /\ format' = IF upstream.saysGzip THEN "Gzip" ELSE "Raw"
  /\ UNCHANGED <<params, upstream, wireVars, outVars>>

FetchAnsweredRetried ==  \* mutant: a failed GET starts again with the probe, its guard dropped
  /\ stage = "fetching"
  /\ \/ stage' = "probing" /\ UNCHANGED peerVars
     \/ upstream.answer # "error" /\ Hear({peer}) /\ stage' = "streaming"
  /\ UNCHANGED <<params, upstream, format, wireVars, outVars>>

\* The upstream GET fails for want of an answer or, by error_for_status, for a
\* status of 400 or more.  The body of any other answer is taken for the file.
FetchAnswered ==
  /\ stage = "fetching"
  /\ \/ stage' = "UpstreamFailed" /\ UNCHANGED peerVars
     \/ upstream.answer # "error" /\ Hear({peer}) /\ stage' = "streaming"
  /\ UNCHANGED <<params, upstream, format, wireVars, outVars>>

-----------------------------------------------------------------------------
(* The upstream's body, as hyper hands it over.                            *)

Sending ==
  /\ stage = "streaming" /\ wire = "open"
  /\ UNCHANGED <<params, upstream, peerVars, stage, format, outVars>>

Supply ==
  /\ Sending
  /\ supplied < Blocks
  /\ supplied' = supplied + 1
  /\ UNCHANGED wire

\* A file ends with its last block, another body anywhere.
BodyEnds ==
  /\ Sending
  /\ upstream.answer = "file" => supplied = Blocks
  /\ wire' = "eof"
  /\ UNCHANGED supplied

\* The connection is lost.  hyper misses the rest of a delimited body; the end of any
\* other it cannot tell from a loss, unless the loss itself is an error.
BreakOff ==
  /\ Sending
  /\ wire' \in IF upstream.delimited THEN {"error"} ELSE {"eof", "error"}
  /\ UNCHANGED supplied

-----------------------------------------------------------------------------
(* The pipeline of fetch_xva_stream.                                       *)

Go(s) ==
  /\ stage' = s
  /\ UNCHANGED <<params, upstream, peerVars, format, wireVars, outVars>>

\* What the upstream's i-th block is: of the image, or not.
Block(i) == IF upstream.answer = "file" THEN i ELSE 0

Emit(form) ==
  /\ read' = read + 1
  /\ sent' = Append(sent, <<form, Block(read + 1)>>)
  /\ bytes_sent' = bytes_sent + 1
  /\ UNCHANGED <<params, upstream, peerVars, stage, format, wireVars>>

\* GzipDecoder is done at the end of the first member and reads no further.
MemberOver == format = "Gzip" /\ upstream.packed /\ read = upstream.firstMember

RelayPastEnd ==  \* mutant: one read too many, the buffer's last block again
  /\ stage = "streaming" /\ ~MemberOver
  /\ read <= supplied
  /\ format = "Raw" /\ Emit("plain")

\* One block goes through the pipeline; the decoder refuses what is not gzip.
Relay ==
  /\ stage = "streaming" /\ ~MemberOver
  /\ read < supplied
  /\ \/ format = "Raw" /\ Emit(IF upstream.packed THEN "packed" ELSE "plain")
     \/ format = "Gzip" /\ upstream.packed /\ Emit("plain")
     \/ format = "Gzip" /\ ~upstream.packed /\ Go("broken")

FinishEarly ==  \* mutant: an upstream error is taken for the end of the stream
  /\ stage = "streaming"
  /\ MemberOver \/ (format = "Raw" /\ read = supplied /\ wire # "open")
  /\ Go("eof")

\* The raw pipeline believes the end that hyper reports, the decoder only its own.
Finish ==
  /\ stage = "streaming"
  /\ MemberOver \/ (format = "Raw" /\ read = supplied /\ wire = "eof")
  /\ Go("eof")

\* hyper's error comes after what was received, and ends the body; so does the end of
\* the input in the middle of a gzip member.  What the decoder made of its input in
\* the very poll that fails is lost.
Break ==
  /\ stage = "streaming"
  /\ \/ format = "Raw" /\ wire = "error" /\ read = supplied
     \/ /\ format = "Gzip" /\ wire # "open"
        /\ upstream.packed => supplied < upstream.firstMember
  /\ Go("broken")

Next ==
  \/ Detect \/ Redirected \/ ProbeAnswered \/ FetchAnswered
  \/ Supply \/ BodyEnds \/ BreakOff
  \/ Relay \/ Finish \/ Break

Spec == Init /\ [][Next]_vars

-----------------------------------------------------------------------------
TypeOK ==
  /\ params \in Requests
  /\ upstream \in Upstreams
  /\ client \in {"none", "verify", "no_verify"} /\ peer \in Peers /\ heard \subseteq Peers
  /\ stage \in Stages
  /\ format \in {"unknown", "Gzip", "Raw"}
  /\ supplied \in 0 .. Blocks /\ wire \in {"open", "eof", "error"}
  /\ read \in 0 .. Blocks
  /\ sent \in Seq({"plain", "packed"} \X (0 .. Blocks))
  /\ bytes_sent \in 0 .. Blocks

\* "use only with self-signed / private-CA upstreams" (handler.rs:53): through the
\* probe, the GET and every redirect of either, no peer is heard whose certificate
\* does not verify, unless the request said verify_ssl=false.
OnlyVerifiedUnlessAsked == "untrusted" \in heard => params.verify_ssl = "false"

\* Where detection looks, the upstream tells the truth about its file.
Truthful ==
  upstream.packed <=>
    CASE params.name = ".xva.gz" -> TRUE
      [] params.name = ".xva" -> FALSE
      [] params.name = "other" -> upstream.saysGzip

\* The client of a truthful upstream that sends its file gets the image, plain and in
\* order, as far as the transfer goes; and the counter says how much the client got,
\* of the file or of anything else.
RelaysTheImage ==
  /\ Truthful /\ upstream.answer = "file" => sent = [i \in 1 .. read |-> <<"plain", i>>]
  /\ bytes_sent = Len(sent)

\* A transfer that was cut short never looks complete: if the body ends without an
\* error the client has the whole image.  The file must come, and in one gzip member:
\* the decoder ignores what follows it.  If it is raw, its framing must mark the end;
\* a gzip file marks its own, so the decoder finds a loss that hyper cannot see.
CleanEndIsComplete ==
  /\ stage = "eof"
  /\ Truthful /\ upstream.answer = "file"
  /\ IF upstream.packed THEN upstream.firstMember = Blocks ELSE upstream.delimited
  => bytes_sent = Blocks

-----------------------------------------------------------------------------
\* The same import as ImageHandler sees it, the only one of its connection: eof and
\* broken are the body dropped, with the guard that rode in it.
HandlerStage ==
  CASE stage \in {"detecting", "eof", "broken"} -> "none"
    [] stage \in {"probing", "fetching", "streaming"} -> stage
    [] stage \in {"ProbeFailed", "UpstreamFailed"} -> "replying"

HandlerStatus ==
  CASE stage = "streaming" -> 200
    [] stage \in {"ProbeFailed", "UpstreamFailed"} -> 502
    [] OTHER -> 0

Handler == INSTANCE ImageHandler
  WITH Conn <- {"this"}, pc <- [c \in {"this"} |-> HandlerStage],
       lock <- IF stage \in {"fetching", "streaming"} THEN {"this"} ELSE {},
       status <- [c \in {"this"} |-> HandlerStatus]

\* What the pipeline does with its data it does under the control of the handler:
\* the probe comes before the lock, the GET and all that is relayed under it, no
\* failure is retried, and nothing follows the end of the body.
ImplementsHandler == Handler!Init /\ [][Handler!Next]_(Handler!vars)

-----------------------------------------------------------------------------
\* error.rs:24 says that ProbeFailed is raised when the HEAD request cannot be
\* completed, "server returns 4xx/5xx" included: no format is detected then.
ProbeStatusHonoured ==
  params.name = "other" /\ ~upstream.headOk => format = "unknown"

=============================================================================
