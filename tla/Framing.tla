------------------------------- MODULE Framing -------------------------------
(***************************************************************************)
(* One direction of a Connection_base, byte by byte: write or async_write  *)
(* at one end, read or async_read at the other, over a socket that breaks  *)
(* anywhere.  A message is a header of HeaderLength digits, which is the   *)
(* size of the filtered body, and the body.  boost::asio::read goes on     *)
(* until its buffer is full: one step of it here is one byte, and what a   *)
(* call transfers at once is several such steps.                           *)
(*                                                                         *)
(* The client reads synchronously and uses its Connection_base again after *)
(* a failure, with whatever is left in its buffers.  The server reads      *)
(* asynchronously, with a Connection_base for each connection.             *)
(***************************************************************************)
EXTENDS Naturals, Sequences

CONSTANTS
    HeaderLength,   \* IO_base::header_length
    MaxSize,        \* the largest number of HeaderLength hexadecimal digits
    Sizes,          \* the sizes of the bodies that may be written
    MaxMessages,    \* bound: the messages written
    MaxConnections  \* bound: the connections opened one after the other

ASSUME FramingAssumption ==
    /\ HeaderLength \in Nat \ {0} /\ MaxSize \in Nat
    /\ Sizes \subseteq Nat \ {0}
    /\ MaxMessages \in Nat /\ MaxConnections \in Nat

VARIABLES
    async,          \* fixed: the reader is a Session (async_read), not a Connector (read)
    up,             \* neither end has closed the connection, nor has it broken
    connections,    \* the connections opened so far
    written,        \* how many messages have been written, on all of them
    wire,           \* the bytes written and not yet read
    inbound_header, \* inbound_header_
    inbound_data,   \* inbound_data_
    got,            \* how much of the buffer in use has been read
    reader,         \* "idle", "header", "body", or "stopped" by a failure
    result,         \* of the last read: "none", "ok", "error" (in ec), "thrown"
    sent,           \* history: the messages written, except those lost
    delivered       \* history: the messages handed to the caller with no error

bufferVars == <<inbound_header, inbound_data, got>>
framingVars == <<async, up, connections, written, wire, bufferVars, reader, result,
                 sent, delivered>>

\* A byte, by where it comes from; Blank is in a buffer and has never been read into it.
Byte == [msg : 1..MaxMessages, size : Sizes, part : {"header", "body"}, pos : Nat \ {0}]
Blank == [msg |-> 0, size |-> 0, part |-> "none", pos |-> 0]

Header(m, size, digits) ==
    [p \in 1..digits |-> [msg |-> m, size |-> size, part |-> "header", pos |-> p]]
Body(m, size) ==
    [p \in 1..size |-> [msg |-> m, size |-> size, part |-> "body", pos |-> p]]

\* resize() keeps the bytes that are there, and blanks those it adds.
Resized(data, size) == [p \in 1..size |-> IF p <= Len(data) THEN data[p] ELSE Blank]

\* The filter and the archive accept the bytes of one body, whole.  What another mixture
\* of bytes decodes to, if it decodes, is no message.
NoMessage == [msg |-> 0, size |-> 0]
Decoded(data) ==
    IF data # <<>> /\ data = Body(data[1].msg, data[1].size)
    THEN [msg |-> data[1].msg, size |-> data[1].size]
    ELSE NoMessage

FramingInit ==
    /\ async \in BOOLEAN
    /\ up = TRUE
    /\ connections = 1
    /\ written = 0
    /\ wire = <<>>
    /\ inbound_header = [p \in 1..HeaderLength |-> Blank]
    /\ inbound_data = <<>>
    /\ got = 0
    /\ reader = "idle"
    /\ result = "none"
    /\ sent = <<>>
    /\ delivered = <<>>

-----------------------------------------------------------------------------
(* Writing, and what may become of what has been written.                  *)

\* Mutant of WriteMessage: setw pads a number of too many digits with nothing, and the
\* header is sent as it is.
WriteMessage_Unchecked(size) ==
    /\ up
    /\ written < MaxMessages
    /\ written' = written + 1
    /\ LET digits == HeaderLength + (IF size > MaxSize THEN 1 ELSE 0) IN
       wire' = wire \o Header(written', size, digits) \o Body(written', size)
    /\ sent' = Append(sent, [msg |-> written', size |-> size])
    /\ UNCHANGED <<async, up, connections, bufferVars, reader, result, delivered>>

\* The header and the body in a single write operation.
WriteMessage(size) ==
    /\ up
    /\ written < MaxMessages
    /\ size <= MaxSize
    /\ written' = written + 1
    /\ wire' = wire \o Header(written', size, HeaderLength) \o Body(written', size)
    /\ sent' = Append(sent, [msg |-> written', size |-> size])
    /\ UNCHANGED <<async, up, connections, bufferVars, reader, result, delivered>>

\* The size has too many digits: nothing is written, and the caller, told so by
\* invalid_argument, throws (Client) or ends (Session), which closes the connection.
WriteRefused(size) ==
    /\ up
    /\ written < MaxMessages
    /\ size > MaxSize
    /\ up' = FALSE
    /\ UNCHANGED <<async, connections, written, wire, bufferVars, reader, result, sent,
                   delivered>>

\* The connection ends, in the middle of a write or with bytes on their way.
Cut ==
    /\ up
    /\ up' = FALSE
    /\ \E n \in 0..Len(wire) : wire' = SubSeq(wire, 1, n)
    /\ UNCHANGED <<async, connections, written, bufferVars, reader, result, sent,
                   delivered>>

-----------------------------------------------------------------------------
(* Reading.                                                                *)

StartRead ==
    /\ reader = "idle"
    /\ reader' = "header"
    /\ got' = 0
    /\ UNCHANGED <<async, up, connections, written, wire, inbound_header, inbound_data,
                   result, sent,
                   delivered>>

\* One more byte, into the buffer being read.
ReadHeaderByte ==
    /\ reader = "header"
    /\ got < HeaderLength
    /\ wire # <<>>
    /\ inbound_header' = [inbound_header EXCEPT ![got + 1] = Head(wire)]
    /\ wire' = Tail(wire)
    /\ got' = got + 1
    /\ UNCHANGED <<async, up, connections, written, inbound_data, reader, result, sent,
                   delivered>>

\* Mutants of HeaderRead: the body is taken to be one byte longer; the buffer is only
\* ever made larger.
HeaderRead_OffByOne ==
    /\ reader = "header"
    /\ got = HeaderLength
    /\ inbound_data' = Resized(inbound_data, inbound_header[1].size + 1)
    /\ got' = 0
    /\ reader' = "body"
    /\ UNCHANGED <<async, up, connections, written, wire, inbound_header, result, sent,
                   delivered>>
HeaderRead_OnlyGrows ==
    /\ reader = "header"
    /\ got = HeaderLength
    /\ inbound_data' = IF Len(inbound_data) >= inbound_header[1].size THEN inbound_data
                       ELSE Resized(inbound_data, inbound_header[1].size)
    /\ got' = 0
    /\ reader' = "body"
    /\ UNCHANGED <<async, up, connections, written, wire, inbound_header, result, sent,
                   delivered>>

\* handle_determine_data_size finds a number: these are the digits of one size.
HeaderParses ==
    inbound_header = Header(inbound_header[1].msg, inbound_header[1].size, HeaderLength)

\* The buffer of the body gets the size that is in the header.  If there is none,
\* async_read tells its handler invalid_argument; read returns 0 with no error, and
\* Connector::send takes what nobody has read for the response.
HeaderRead ==
    /\ reader = "header"
    /\ got = HeaderLength
    /\ got' = 0
    /\ reader' = IF HeaderParses THEN "body" ELSE IF async THEN "stopped" ELSE "idle"
    /\ result' = IF HeaderParses THEN result ELSE IF async THEN "error" ELSE "ok"
    /\ inbound_data' = IF HeaderParses THEN Resized(inbound_data, inbound_header[1].size)
                       ELSE inbound_data
    /\ delivered' = IF HeaderParses \/ async THEN delivered ELSE Append(delivered, NoMessage)
    /\ UNCHANGED <<async, up, connections, written, wire, inbound_header, sent>>

\* The connection has ended within the header, or before it: ec is set.
HeaderFails ==
    /\ reader = "header"
    /\ got < HeaderLength
    /\ wire = <<>> /\ ~up
    /\ reader' = "stopped"
    /\ result' = "error"
    /\ UNCHANGED <<async, up, connections, written, wire, bufferVars, sent, delivered>>

ReadBodyByte ==
    /\ reader = "body"
    /\ got < Len(inbound_data)
    /\ wire # <<>>
    /\ inbound_data' = [inbound_data EXCEPT ![got + 1] = Head(wire)]
    /\ wire' = Tail(wire)
    /\ got' = got + 1
    /\ UNCHANGED <<async, up, connections, written, inbound_header, reader, result,
                   sent, delivered>>

\* The buffer is full: what it decodes to goes to the caller.
BodyRead ==
    /\ reader = "body"
    /\ got = Len(inbound_data)
    /\ delivered' = Append(delivered, Decoded(inbound_data))
    /\ result' = "ok"
    /\ reader' = "idle"
    /\ UNCHANGED <<async, up, connections, written, wire, bufferVars, sent>>

\* Mutant of BodyFails: decoding decides, and not the error that reading gave.
BodyFails_Decodes ==
    /\ reader = "body"
    /\ got < Len(inbound_data)
    /\ wire = <<>> /\ ~up
    /\ delivered' = Append(delivered, Decoded(inbound_data))
    /\ result' = "ok"
    /\ reader' = "idle"
    /\ UNCHANGED <<async, up, connections, written, wire, bufferVars, sent>>

\* The connection has ended within the body.  async_read hands the error on.  read
\* decodes what is in the buffer all the same: either that throws, or it leaves ec set.
BodyFails ==
    /\ reader = "body"
    /\ got < Len(inbound_data)
    /\ wire = <<>> /\ ~up
    /\ result' \in IF async THEN {"error"} ELSE {"error", "thrown"}
    /\ reader' = "stopped"
    /\ UNCHANGED <<async, up, connections, written, wire, bufferVars, sent, delivered>>

\* The client, unless an exception has ended it, connects again with the same buffers;
\* the server has a new Connection_base for the next connection.
Reconnect ==
    /\ ~up
    /\ reader \in {"idle", "stopped"}
    /\ async \/ result # "thrown"
    /\ connections < MaxConnections
    /\ connections' = connections + 1
    /\ up' = TRUE
    /\ wire' = <<>>
    /\ sent' = delivered
    /\ reader' = "idle"
    /\ inbound_header' = [p \in 1..HeaderLength |-> IF async THEN Blank ELSE inbound_header[p]]
    /\ inbound_data' = IF async THEN <<>> ELSE inbound_data
    /\ UNCHANGED <<async, written, got, result, delivered>>

ReaderStep ==
    \/ StartRead
    \/ ReadHeaderByte \/ HeaderRead \/ HeaderFails
    \/ ReadBodyByte \/ BodyRead \/ BodyFails

FramingNext ==
    \/ \E size \in Sizes : WriteMessage(size) \/ WriteRefused(size)
    \/ Cut
    \/ ReaderStep
    \/ Reconnect

\* A read that can go on does.  Nobody need write, and nothing need break.
FramingSpec == FramingInit /\ [][FramingNext]_framingVars /\ WF_framingVars(ReaderStep)

-----------------------------------------------------------------------------
FramingTypeOK ==
    /\ async \in BOOLEAN
    /\ up \in BOOLEAN
    /\ connections \in 1..MaxConnections \cup {1}
    /\ written \in 0..MaxMessages
    /\ wire \in Seq(Byte)
    /\ inbound_header \in [1..HeaderLength -> Byte \cup {Blank}]
    /\ inbound_data \in Seq(Byte \cup {Blank})
    /\ got \in Nat
    /\ reader \in {"idle", "header", "body", "stopped"}
    /\ result \in {"none", "ok", "error", "thrown"}
    /\ sent \in Seq([msg : 1..MaxMessages, size : Sizes])
    /\ delivered \in Seq([msg : 1..MaxMessages, size : Sizes])

\* What has been read of the message being read.
Consumed ==
    IF reader = "header" THEN SubSeq(inbound_header, 1, got)
    ELSE IF reader = "body" THEN inbound_header \o SubSeq(inbound_data, 1, got)
    ELSE <<>>

\* Byte b comes right after byte a, in the same message or in the next one.
Follows(a, b) ==
    \/ /\ a.msg = b.msg /\ a.size = b.size
       /\ a.part = b.part /\ b.pos = a.pos + 1
    \/ /\ a.msg = b.msg /\ a.size = b.size
       /\ a.part = "header" /\ a.pos = HeaderLength
       /\ b.part = "body" /\ b.pos = 1
    \/ /\ b.msg = a.msg + 1
       /\ a.part = "body" /\ a.pos = a.size
       /\ b.part = "header" /\ b.pos = 1

\* The reader never loses the boundaries of the messages: however the bytes arrive and
\* wherever earlier connections were cut, what it has read of a message and what is still
\* to be read are a run of bytes that starts with the first one of the oldest message not
\* delivered, and, while the connection is up, ends with the last one of the newest.
Aligned ==
    LET run == Consumed \o wire IN
    /\ \A i \in 1..Len(run) - 1 : Follows(run[i], run[i + 1])
    /\ run # <<>> =>
        /\ run[1].part = "header" /\ run[1].pos = 1
        /\ Len(delivered) < Len(sent)
        /\ sent[Len(delivered) + 1] = [msg |-> run[1].msg, size |-> run[1].size]
    /\ up =>
        IF run = <<>> THEN delivered = sent
        ELSE LET last == run[Len(run)] IN
             /\ last.part = "body" /\ last.pos = last.size
             /\ sent[Len(sent)] = [msg |-> last.msg, size |-> last.size]

Channel == INSTANCE MessageChannel

\* The connection is a channel of whole messages: none is delivered in part, mixed with
\* bytes that an earlier message left in the buffer, twice or out of order.
ImplementsChannel == Channel!Spec

\* A message written on a connection that stays up is delivered.
EveryMessageDelivered ==
    \A m \in 1..MaxMessages :
        (\E i \in DOMAIN sent : sent[i].msg = m)
            ~> (\E i \in DOMAIN delivered : delivered[i].msg = m) \/ ~up
=============================================================================
