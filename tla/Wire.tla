-------------------------------- MODULE Wire --------------------------------
(* One connection between a client and the broker, byte by byte.  Frames   *)
(* carry their length in front.  A socket takes no more than its buffer    *)
(* has room for, so either side keeps what it could not write until it is  *)
(* told that there is room again, and reads in pieces that know nothing of *)
(* where a frame ends.  client.ts sends one request per connection; the    *)
(* decoder, and the broker, take several.                                  *)
EXTENDS Integers, Sequences, FiniteSetsExt

CONSTANTS
  Requests,     \* how many the peer sends
  Header,       \* bytes of a length
  Capacity,     \* bytes a socket's buffer holds
  MaxFrame,     \* MAX_FRAME_BYTES
  AskSize, AnswerSize,    \* sizes of their bodies
  ErrorSize     \* and of the error frame's

ASSUME WireAssumption ==
  /\ Requests \in Nat \ {0} /\ Header \in Nat \ {0} /\ Capacity \in Nat \ {0}
  /\ MaxFrame \in Nat /\ ErrorSize \in 0..MaxFrame
  /\ AskSize \subseteq Nat /\ AnswerSize \subseteq Nat

VARIABLES
  asks, answers,    \* the sizes of the requests, and of what is answered
  broken,           \* requests that are no JSON
  peer, outbound, incoming, got, verdict,   \* the client: what it has yet to
                    \* write, its decoder's buffer, what it has decoded
  conn, arrived, outbox, handled,           \* the same at the broker
  up, down,         \* what the socket's two buffers hold
  stalled           \* whose last write was cut short

client == <<peer, outbound, incoming, got, verdict>>
broker == <<conn, arrived, outbox, handled>>
sizes == <<asks, answers, broken>>
vars == <<sizes, client, broker, up, down, stalled>>

Request == 1..Requests
BadFrame == 0

-----------------------------------------------------------------------------
(* A byte knows its frame, the length in that frame's header, and its      *)
(* place.  A header put together from two frames is taken to declare what  *)
(* its first byte's does: what follows it is no whole frame either way.    *)

EncodeFrame(i, size) == [k \in 1..(Header + size) |-> <<i, size, k>>]
Declared(buf) == buf[1][2]
TooLong(buf) == Len(buf) >= Header /\ Declared(buf) > MaxFrame
Complete(buf) ==
  Len(buf) >= Header /\ Declared(buf) <= MaxFrame /\ Len(buf) >= Header + Declared(buf)
Front(buf) == SubSeq(buf, 1, Header + Declared(buf))

(* Mutant: a decoded frame stays in the buffer.                            *)
RestKept(buf) == buf
Rest(buf) == SubSeq(buf, Header + Declared(buf) + 1, Len(buf))

(* FrameDecoder.push: the frames that are complete, no more than were sent *)
(* in either direction, and what remains.                                  *)
Decoded(buf) ==
  LET taken[n \in 0..Requests] ==
        IF n = 0 THEN [frames |-> <<>>, rest |-> buf]
        ELSE LET prev == taken[n - 1]
             IN IF Complete(prev.rest)
                  THEN [frames |-> Append(prev.frames, Front(prev.rest)), rest |-> Rest(prev.rest)]
                  ELSE prev
  IN taken[Requests]

Id(frame) == frame[1][1]
Ids(frames) == [k \in DOMAIN frames |-> Id(frames[k])]
Parses(frame) == frame = EncodeFrame(Id(frame), Len(frame) - Header)

(* What push throws on, of what it was fed: a frame that is too long, or a *)
(* body that does not parse.  It returns none of the frames before.        *)
Garbled(d) == TooLong(d.rest) \/ \E k \in DOMAIN d.frames : ~ Parses(d.frames[k])

(* write takes what there is room for.                                     *)
Taken(data, pipe) ==
  IF Len(data) <= Capacity - Len(pipe) THEN Len(data) ELSE Capacity - Len(pipe)
Filled(data, pipe) == pipe \o SubSeq(data, 1, Taken(data, pipe))

(* Mutant: the tail of a write that was cut short is lost.                 *)
UnsentLost(data, pipe) == <<>>

Unsent(data, pipe) == SubSeq(data, Taken(data, pipe) + 1, Len(data))
Stalls(who, data, pipe) ==
  stalled' = IF Unsent(data, pipe) = <<>> THEN stalled \ {who} ELSE stalled \union {who}

-----------------------------------------------------------------------------
(* request, of client.ts.                                                  *)

PeerPump ==
  /\ up' = Filled(outbound, up) /\ outbound' = Unsent(outbound, up)
  /\ Stalls("client", outbound, up)

Connect ==
  /\ peer = "connecting" /\ conn = "none"
  /\ peer' = "open" /\ conn' = "open"
  /\ PeerPump
  /\ UNCHANGED <<sizes, incoming, got, verdict, arrived, outbox, handled, down>>

PeerDrain ==
  /\ peer = "open" /\ conn \in {"open", "ended"}
  /\ "client" \in stalled /\ Len(up) < Capacity
  /\ PeerPump
  /\ UNCHANGED <<sizes, peer, incoming, got, verdict, broker, down>>

Settle(how) ==
  /\ verdict' = how /\ peer' = "ended"
  /\ outbound' = <<>> /\ incoming' = <<>>

(* What push throws leaves the data callback for the error callback, which *)
(* rejects the call.                                                       *)
PeerData ==
  /\ peer = "open"
  /\ \E n \in 1..Len(down) :
       LET d == Decoded(incoming \o SubSeq(down, 1, n))
       IN /\ down' = SubSeq(down, n + 1, Len(down))
          /\ got' = IF Garbled(d) THEN got ELSE got \o Ids(d.frames)
          /\ IF Garbled(d) THEN Settle("failed")
             ELSE IF Len(got') >= Requests \/ BadFrame \in {got'[k] : k \in DOMAIN got'}
               THEN Settle("resolved")
               ELSE incoming' = d.rest /\ UNCHANGED <<verdict, peer, outbound>>
  /\ UNCHANGED <<sizes, broker, up, stalled>>

Timeout ==
  /\ peer \in {"connecting", "open"}
  /\ Settle("late")
  /\ UNCHANGED <<sizes, got, broker, up, down, stalled>>

(* The connection ends, or there was no broker to connect to.              *)
PeerClose ==
  /\ \/ peer = "open" /\ conn \in {"ended", "closed"} /\ down = <<>>
     \/ peer = "connecting" /\ conn = "closed"
  /\ Settle("closed")
  /\ UNCHANGED <<sizes, got, broker, up, down, stalled>>

-----------------------------------------------------------------------------
(* startBroker's socket.  Writing to a client that has gone drops what is  *)
(* queued, as does writing after the end.                                  *)

(* Mutant: the tail of an answer that was cut short is dropped.            *)
BrokerPumpDrops(queue) ==
  IF peer = "ended" \/ conn = "ended"
    THEN outbox' = <<>> /\ stalled' = stalled \ {"broker"} /\ UNCHANGED down
    ELSE down' = Filled(queue, down) /\ outbox' = <<>> /\ UNCHANGED stalled

BrokerPump(queue) ==
  IF peer = "ended" \/ conn = "ended"
    THEN outbox' = <<>> /\ stalled' = stalled \ {"broker"} /\ UNCHANGED down
    ELSE /\ down' = Filled(queue, down) /\ outbox' = Unsent(queue, down)
         /\ Stalls("broker", queue, down)

(* What the broker makes of a chunk: the requests it handles, up to the    *)
(* first whose answer does not fit a frame, and the frames it answers.  A  *)
(* chunk in which a frame is too long or does not parse is dropped as a    *)
(* whole; that frame is met again whatever comes next.                     *)
Unreadable(d) == Garbled(d) \/ \E k \in DOMAIN d.frames : Id(d.frames[k]) \in broken

Served(d) ==
  LET long == {k \in DOMAIN d.frames : answers[Id(d.frames[k])] > MaxFrame}
  IN IF Unreadable(d) THEN <<>>
     ELSE IF long = {} THEN Ids(d.frames) ELSE SubSeq(Ids(d.frames), 1, Min(long))

Fatal(d) ==
  Unreadable(d) \/ \E k \in DOMAIN d.frames : answers[Id(d.frames[k])] > MaxFrame

Answer(i) ==
  IF answers[i] > MaxFrame THEN EncodeFrame(BadFrame, ErrorSize) ELSE EncodeFrame(i, answers[i])

Replies(d) ==
  IF Unreadable(d) THEN EncodeFrame(BadFrame, ErrorSize)
  ELSE LET all[k \in 0..Len(Served(d))] ==
             IF k = 0 THEN <<>> ELSE all[k - 1] \o Answer(Served(d)[k])
       IN all[Len(Served(d))]

BrokerData ==
  /\ conn \in {"open", "ended"}
  /\ \E n \in 1..Len(up) :
       LET buf == arrived \o SubSeq(up, 1, n)
           d   == Decoded(buf)
       IN /\ up' = SubSeq(up, n + 1, Len(up))
          /\ arrived' = IF Unreadable(d) THEN buf ELSE d.rest
          /\ handled' = handled \o Served(d)
          /\ BrokerPump(outbox \o Replies(d))
          /\ conn' = IF Fatal(d) THEN "ended" ELSE conn
  /\ UNCHANGED <<sizes, client>>

BrokerDrain ==
  /\ conn \in {"open", "ended"} /\ "broker" \in stalled
  /\ Len(down) < Capacity \/ peer = "ended"
  /\ BrokerPump(outbox)
  /\ UNCHANGED <<sizes, client, conn, arrived, handled, up>>

(* The client has gone and is read to the end; or the broker stops.        *)
BrokerClose ==
  /\ conn' = "closed" /\ outbox' = <<>> /\ arrived' = <<>>
  /\ UNCHANGED <<sizes, client, handled, up, down, stalled>>

ClientGone == conn \in {"open", "ended"} /\ peer = "ended" /\ up = <<>> /\ BrokerClose
BrokerStops == conn # "closed" /\ BrokerClose

-----------------------------------------------------------------------------
Init ==
  /\ asks \in [Request -> AskSize] /\ answers \in [Request -> AnswerSize]
  /\ broken \in SUBSET Request
  /\ peer = "connecting" /\ incoming = <<>> /\ got = <<>> /\ verdict = "none"
  /\ outbound = LET all[k \in 0..Requests] ==
                      IF k = 0 THEN <<>> ELSE all[k - 1] \o EncodeFrame(k, asks[k])
                IN all[Requests]
  /\ conn = "none" /\ arrived = <<>> /\ outbox = <<>> /\ handled = <<>>
  /\ up = <<>> /\ down = <<>> /\ stalled = {}

Next ==
  \/ Connect \/ PeerDrain \/ PeerData \/ Timeout \/ PeerClose
  \/ BrokerData \/ BrokerDrain \/ ClientGone \/ BrokerStops

Spec == Init /\ [][Next]_vars

(* Both event loops run.  The deadline and the broker's end are left to    *)
(* chance.                                                                 *)
FairSpec ==
  /\ Spec
  /\ WF_vars(Connect) /\ WF_vars(PeerDrain) /\ WF_vars(PeerData) /\ WF_vars(PeerClose)
  /\ WF_vars(BrokerData) /\ WF_vars(BrokerDrain)

-----------------------------------------------------------------------------
TypeOK ==
  /\ asks \in [Request -> AskSize] /\ answers \in [Request -> AnswerSize]
  /\ broken \subseteq Request
  /\ peer \in {"connecting", "open", "ended"} /\ conn \in {"none", "open", "ended", "closed"}
  /\ verdict \in {"none", "resolved", "failed", "late", "closed"}
  /\ Len(up) <= Capacity /\ Len(down) <= Capacity
  /\ handled \in Seq(Request) /\ got \in Seq(Request \union {BadFrame})
  /\ Len(handled) <= Requests /\ Len(got) <= Requests
  /\ stalled \subseteq {"client", "broker"}

(* "both broker and client drain partial socket writes on drain, so        *)
(* responses/requests larger than the ~8 KB send-buffer watermark aren't   *)
(* truncated" (06-security-and-ops.md, Back-pressure): in whatever pieces  *)
(* the bytes travel, the broker handles the requests in order and once.    *)
(* The client never meets a frame that is too long or does not parse,      *)
(* gets the answers in order, and bad_frame only as the last word and for  *)
(* a reason: a request that is no JSON, or a request or an answer that no  *)
(* frame has room for.                                                     *)
Intact ==
  /\ conn = "open" => \A k \in DOMAIN handled : handled[k] = k
  /\ \A k, l \in DOMAIN handled : k < l => handled[k] < handled[l]
  /\ verdict # "failed"
  /\ \A k \in DOMAIN got :
       \/ got[k] = k /\ k <= Len(handled) /\ answers[k] <= MaxFrame
       \/ /\ got[k] = BadFrame /\ k = Len(got)
          /\ broken # {} \/ \E i \in Request : asks[i] > MaxFrame \/ answers[i] > MaxFrame

(* A call ends although no deadline fires: with its answers, a refusal, or *)
(* the end of the connection.                                              *)
Answered == <>(verdict # "none")
=============================================================================
