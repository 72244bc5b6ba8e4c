---------------------------- MODULE FramingProofs ----------------------------
(***************************************************************************)
(* Framing, for headers and bodies of any length, any number of messages   *)
(* and of connections, cut anywhere: the reader keeps the boundaries of    *)
(* the messages, and what it delivers are whole messages in order.         *)
(***************************************************************************)
EXTENDS Framing, SequenceTheorems, TLAPS

Bytes == Byte \cup {Blank}

\* What has been read of the oldest message not delivered, and what is to be read.
Run == Consumed \o wire

\* How many bytes come before b in its message, and how many its message has.
Before(b) == IF b.part = "header" THEN b.pos - 1 ELSE HeaderLength + b.pos - 1
Total(b) == HeaderLength + b.size

\* A sequence of bytes cut only between messages, except at its ends.  From each byte on,
\* the rest of its message follows, and then the beginning of the next one.
Formed(r) ==
    \A i \in 1..Len(r) :
        /\ r[i] \in Byte
        /\ Before(r[i]) < Total(r[i])
        /\ r[i].part = "header" => r[i].pos <= HeaderLength

SameMessage(r) ==
    \A i, j \in 1..Len(r) :
        i <= j /\ Before(r[i]) + (j - i) < Total(r[i])
            => /\ r[j].msg = r[i].msg /\ r[j].size = r[i].size
               /\ Before(r[j]) = Before(r[i]) + (j - i)

NextMessage(r) ==
    \A i, j \in 1..Len(r) :
        i <= j /\ Before(r[i]) + (j - i) = Total(r[i])
            => r[j].msg = r[i].msg + 1 /\ Before(r[j]) = 0

Ordered(r) == \A i, j \in 1..Len(r) : i <= j => r[i].msg <= r[j].msg

InBlocks(r) == Formed(r) /\ SameMessage(r) /\ NextMessage(r) /\ Ordered(r)

\* Where message m is among those sent on the connection.
Place(m) == Len(sent) - written + m

\* The bytes are those of the messages sent and not delivered, from the first byte of
\* the oldest on, and to the last byte of the newest while the connection is up.
InStep(r) ==
    /\ \A i \in 1..Len(r) :
        /\ Place(r[i].msg) \in Len(delivered) + 1..Len(sent)
        /\ sent[Place(r[i].msg)] = [msg |-> r[i].msg, size |-> r[i].size]
    /\ Len(r) > 0 => Before(r[1]) = 0 /\ Place(r[1].msg) = Len(delivered) + 1
    /\ up => IF Len(r) = 0 THEN Len(delivered) = Len(sent)
             ELSE r[Len(r)].msg = written /\ Before(r[Len(r)]) = Total(r[Len(r)]) - 1

\* What is delivered is what was sent.
Prefix ==
    /\ Len(delivered) <= Len(sent)
    /\ \A i \in 1..Len(delivered) : delivered[i] = sent[i]

\* The reader is within the buffer that it fills, which has the size in the header.
WithinBuffer ==
    /\ reader = "header" => got <= HeaderLength
    /\ reader = "body" => got <= Len(inbound_data) /\ Len(inbound_data) = inbound_header[1].size

\* The inductive invariant.
FramingInv ==
    /\ FramingTypeOK
    /\ WithinBuffer
    /\ InBlocks(Run)
    /\ InStep(Run)
    /\ Prefix

-----------------------------------------------------------------------------
(* The bytes of Run, one by one.                                           *)

Have == IF reader = "header" THEN got ELSE IF reader = "body" THEN HeaderLength + got ELSE 0

ByteAt(i) ==
    IF i > Have THEN wire[i - Have]
    ELSE IF i <= HeaderLength THEN inbound_header[i]
    ELSE inbound_data[i - HeaderLength]

LEMMA Types ==
    ASSUME FramingTypeOK
    PROVE  /\ HeaderLength \in Nat /\ HeaderLength >= 1
           /\ wire \in Seq(Byte) /\ wire \in Seq(Bytes) /\ Len(wire) \in Nat
           /\ inbound_header \in Seq(Bytes) /\ Len(inbound_header) = HeaderLength
           /\ inbound_data \in Seq(Bytes) /\ Len(inbound_data) \in Nat
           /\ got \in Nat /\ written \in Nat
           /\ Len(sent) \in Nat /\ Len(delivered) \in Nat
  <1>1. HeaderLength \in Nat /\ HeaderLength >= 1
    BY FramingAssumption
  <1>2. wire \in Seq(Byte) /\ wire \in Seq(Bytes) /\ Len(wire) \in Nat
    BY SeqMonotonic DEF FramingTypeOK, Bytes
  <1>3. inbound_header \in [1..HeaderLength -> Bytes]
    BY DEF FramingTypeOK, Bytes
  <1>4. inbound_header \in Seq(Bytes) /\ Len(inbound_header) = HeaderLength
    BY <1>1, <1>3
  <1>5. inbound_data \in Seq(Bytes) /\ Len(inbound_data) \in Nat
    BY DEF FramingTypeOK, Bytes
  <1> QED
    BY <1>1, <1>2, <1>4, <1>5 DEF FramingTypeOK

RunIs ==
    /\ Have \in Nat /\ Run \in Seq(Bytes) /\ Len(Run) = Have + Len(wire)
    /\ \A i \in 1..Have + Len(wire) : Run[i] = ByteAt(i)

LEMMA RunBytes == FramingTypeOK /\ WithinBuffer => RunIs
  <1> SUFFICES ASSUME FramingTypeOK, WithinBuffer PROVE RunIs
    OBVIOUS
  <1> USE Types
  <1>1. /\ Consumed \in Seq(Bytes) /\ Len(Consumed) = Have /\ Have \in Nat
        /\ \A i \in 1..Have : Consumed[i] = ByteAt(i)
    <2>1. CASE reader = "header"
      <3>1. got <= HeaderLength /\ Have = got /\ Consumed = SubSeq(inbound_header, 1, got)
        BY <2>1 DEF WithinBuffer, Have, Consumed
      <3>2. \A i \in 1..got : inbound_header[i] \in Bytes
        BY <3>1, ElementOfSeq
      <3>3. /\ Consumed \in Seq(Bytes) /\ Len(Consumed) = got
            /\ \A i \in 1..got : Consumed[i] = inbound_header[i]
        BY <3>1, <3>2, SubSeqProperties
      <3> QED
        BY <3>1, <3>3 DEF ByteAt
    <2>2. CASE reader = "body"
      <3> DEFINE part == SubSeq(inbound_data, 1, got)
      <3>1. /\ got <= Len(inbound_data) /\ Have = HeaderLength + got
            /\ Consumed = inbound_header \o part
        BY <2>2 DEF WithinBuffer, Have, Consumed
      <3>2. \A i \in 1..got : inbound_data[i] \in Bytes
        BY <3>1, ElementOfSeq
      <3>3. /\ part \in Seq(Bytes) /\ Len(part) = got
            /\ \A i \in 1..got : part[i] = inbound_data[i]
        BY <3>1, <3>2, SubSeqProperties
      <3> HIDE DEF part
      <3>4. /\ Consumed \in Seq(Bytes) /\ Len(Consumed) = HeaderLength + got
            /\ \A i \in 1..HeaderLength + got :
                Consumed[i] = IF i <= HeaderLength THEN inbound_header[i]
                              ELSE part[i - HeaderLength]
        BY <3>1, <3>3, ConcatProperties
      <3>5. \A i \in 1..HeaderLength + got :
                i > HeaderLength => i - HeaderLength \in 1..got
        OBVIOUS
      <3>6. ASSUME NEW i \in 1..Have PROVE Consumed[i] = ByteAt(i)
        <4>1. i \in 1..HeaderLength + got /\ ~(i > Have) /\ i \in Nat
          BY <3>1
        <4>2. ~(i <= HeaderLength) => part[i - HeaderLength] = inbound_data[i - HeaderLength]
          BY <3>3, <3>5, <4>1
        <4> QED
          BY <3>4, <4>1, <4>2 DEF ByteAt
      <3> QED
        BY <3>1, <3>4, <3>6
    <2>3. CASE reader \notin {"header", "body"}
      BY <2>3, EmptySeq DEF Have, Consumed, ByteAt
    <2> QED
      BY <2>1, <2>2, <2>3
  <1>2. /\ Run \in Seq(Bytes) /\ Len(Run) = Have + Len(wire)
        /\ \A i \in 1..Have + Len(wire) :
            Run[i] = IF i <= Have THEN Consumed[i] ELSE wire[i - Have]
    BY <1>1, ConcatProperties DEF Run
  <1>3. ASSUME NEW i \in 1..Have + Len(wire) PROVE Run[i] = ByteAt(i)
    <2>1. CASE i <= Have
      BY <1>1, <1>2, <2>1
    <2>2. CASE i > Have
      BY <1>1, <1>2, <2>2 DEF ByteAt
    <2> QED
      BY <1>1, <2>1, <2>2
  <1> QED
    BY <1>1, <1>2, <1>3 DEF RunIs

\* The same of the state after a step.
LEMMA RunBytesNext == FramingTypeOK' /\ WithinBuffer' => RunIs'
  BY RunBytes, PTL

-----------------------------------------------------------------------------
(* Sequences of messages.                                                  *)

LEMMA ByteNumbers ==
    ASSUME NEW b \in Byte
    PROVE  /\ b.msg \in Nat /\ b.msg \in 1..MaxMessages /\ b.size \in Nat /\ b.size \in Sizes
           /\ b.size >= 1 /\ b.pos \in Nat /\ b.pos >= 1 /\ b.part \in {"header", "body"}
           /\ Before(b) \in Nat /\ Total(b) \in Nat /\ HeaderLength \in Nat
  <1>1. /\ b.msg \in 1..MaxMessages /\ b.size \in Sizes /\ b.part \in {"header", "body"}
        /\ b.pos \in Nat \ {0}
    BY DEF Byte
  <1>2. HeaderLength \in Nat /\ b.size \in Nat \ {0} /\ b.msg \in Nat
    <2>1. HeaderLength \in Nat /\ Sizes \subseteq Nat \ {0} /\ MaxMessages \in Nat
      BY FramingAssumption
    <2>2. \A x \in 1..MaxMessages : x \in Nat
      BY <2>1
    <2> QED
      BY <1>1, <2>1, <2>2
  <1>3. b.pos \in Nat /\ b.pos >= 1 /\ b.size \in Nat /\ b.size >= 1
    BY <1>1, <1>2
  <1>4. Before(b) \in Nat /\ Total(b) \in Nat
    BY <1>2, <1>3 DEF Before, Total
  <1> QED
    BY <1>1, <1>2, <1>3, <1>4

\* Cutting the end off a sequence leaves the rest in blocks.
LEMMA BlocksCut ==
    ASSUME NEW r \in Seq(Bytes), NEW q \in Seq(Bytes), InBlocks(r), Len(q) <= Len(r),
           \A i \in 1..Len(q) : q[i] = r[i]
    PROVE  InBlocks(q)
  <1>1. \A i \in 1..Len(q) : i \in 1..Len(r)
    OBVIOUS
  <1> HIDE DEF Before, Total
  <1>2. Formed(q)
    <2> SUFFICES ASSUME NEW i \in 1..Len(q)
                 PROVE  /\ q[i] \in Byte /\ Before(q[i]) < Total(q[i])
                        /\ q[i].part = "header" => q[i].pos <= HeaderLength
      BY DEF Formed
    <2>1. q[i] = r[i] /\ i \in 1..Len(r)
      BY <1>1
    <2> QED
      BY <2>1 DEF InBlocks, Formed
  <1>3. SameMessage(q)
    BY <1>1 DEF InBlocks, SameMessage
  <1>4. NextMessage(q)
    BY <1>1 DEF InBlocks, NextMessage
  <1>5. Ordered(q)
    BY <1>1 DEF InBlocks, Ordered
  <1> QED
    BY <1>2, <1>3, <1>4, <1>5 DEF InBlocks

\* And so does taking any number of bytes from its beginning.
LEMMA BlocksDropped ==
    ASSUME NEW r \in Seq(Bytes), NEW q \in Seq(Bytes), InBlocks(r),
           NEW n \in Nat, Len(r) = Len(q) + n,
           \A i \in 1..Len(q) : q[i] = r[i + n]
    PROVE  InBlocks(q)
  <1>1. \A i \in 1..Len(q) : i + n \in 1..Len(r)
    OBVIOUS
  <1>2. \A i, j \in 1..Len(q) : j - i = (j + n) - (i + n) /\ (i <= j => i + n <= j + n)
    OBVIOUS
  <1>3. Formed(q)
    BY <1>1 DEF InBlocks, Formed
  <1>4. SameMessage(q)
    <2> SUFFICES ASSUME NEW i \in 1..Len(q), NEW j \in 1..Len(q), i <= j,
                        Before(q[i]) + (j - i) < Total(q[i])
                 PROVE  /\ q[j].msg = q[i].msg /\ q[j].size = q[i].size
                        /\ Before(q[j]) = Before(q[i]) + (j - i)
      BY DEF SameMessage
    <2>1. /\ i + n \in 1..Len(r) /\ j + n \in 1..Len(r) /\ i + n <= j + n
          /\ q[i] = r[i + n] /\ q[j] = r[j + n] /\ (j + n) - (i + n) = j - i
      BY <1>1, <1>2
    <2> QED
      BY <2>1 DEF InBlocks, SameMessage
  <1>5. NextMessage(q)
    <2> SUFFICES ASSUME NEW i \in 1..Len(q), NEW j \in 1..Len(q), i <= j,
                        Before(q[i]) + (j - i) = Total(q[i])
                 PROVE  q[j].msg = q[i].msg + 1 /\ Before(q[j]) = 0
      BY DEF NextMessage
    <2>1. /\ i + n \in 1..Len(r) /\ j + n \in 1..Len(r) /\ i + n <= j + n
          /\ q[i] = r[i + n] /\ q[j] = r[j + n] /\ (j + n) - (i + n) = j - i
      BY <1>1, <1>2
    <2> QED
      BY <2>1 DEF InBlocks, NextMessage
  <1>6. Ordered(q)
    BY <1>1, <1>2 DEF InBlocks, Ordered
  <1> QED
    BY <1>3, <1>4, <1>5, <1>6 DEF InBlocks

\* The bytes of one message.
MessageText(m, size) == Header(m, size, HeaderLength) \o Body(m, size)

LEMMA MessageBytes ==
    ASSUME NEW m \in 1..MaxMessages, NEW size \in Sizes
    PROVE  /\ Header(m, size, HeaderLength) \in Seq(Byte) /\ Body(m, size) \in Seq(Byte)
           /\ MessageText(m, size) \in Seq(Byte)
           /\ Len(MessageText(m, size)) = HeaderLength + size
           /\ \A p \in 1..HeaderLength + size :
                /\ MessageText(m, size)[p].msg = m /\ MessageText(m, size)[p].size = size
                /\ Before(MessageText(m, size)[p]) = p - 1
                /\ MessageText(m, size)[p].part = "header"
                     => MessageText(m, size)[p].pos <= HeaderLength
  <1> DEFINE s == MessageText(m, size)
             h == Header(m, size, HeaderLength)
             d == Body(m, size)
  <1>1. HeaderLength \in Nat /\ HeaderLength >= 1 /\ size \in Nat /\ size >= 1
    BY FramingAssumption
  <1>2. h \in [1..HeaderLength -> Byte] /\ d \in [1..size -> Byte]
    BY <1>1 DEF Header, Body, Byte
  <1>3. /\ h \in Seq(Byte) /\ Len(h) = HeaderLength
        /\ d \in Seq(Byte) /\ Len(d) = size
    BY <1>1, <1>2
  <1>4. /\ \A p \in 1..HeaderLength : h[p] = [msg |-> m, size |-> size, part |-> "header", pos |-> p]
        /\ \A p \in 1..size : d[p] = [msg |-> m, size |-> size, part |-> "body", pos |-> p]
    BY DEF Header, Body
  <1>5. s = h \o d
    BY DEF MessageText
  <1> HIDE DEF h, d, s
  <1>6. /\ s \in Seq(Byte) /\ Len(s) = HeaderLength + size
        /\ \A p \in 1..HeaderLength + size :
            s[p] = IF p <= HeaderLength THEN h[p] ELSE d[p - HeaderLength]
    BY <1>3, <1>5, ConcatProperties
  <1>7. ASSUME NEW p \in 1..HeaderLength + size
        PROVE  /\ s[p].msg = m /\ s[p].size = size /\ Before(s[p]) = p - 1
               /\ s[p].part = "header" => s[p].pos <= HeaderLength
    <2>1. CASE p <= HeaderLength
      <3>1. p \in 1..HeaderLength
        BY <1>1, <2>1
      <3>2. s[p] = [msg |-> m, size |-> size, part |-> "header", pos |-> p]
        BY <1>4, <1>6, <2>1, <3>1
      <3> QED
        BY <2>1, <3>2 DEF Before
    <2>2. CASE ~(p <= HeaderLength)
      <3>1. p - HeaderLength \in 1..size
        BY <1>1, <2>2
      <3>2. s[p] = [msg |-> m, size |-> size, part |-> "body", pos |-> p - HeaderLength]
        BY <1>4, <1>6, <2>2, <3>1
      <3>3. HeaderLength + (p - HeaderLength) - 1 = p - 1
        BY <1>1
      <3> QED
        BY <3>2, <3>3 DEF Before
    <2> QED
      BY <2>1, <2>2
  <1> QED
    BY <1>3, <1>6, <1>7 DEF h, d, s

\* A byte i before the last one, n, of a sequence, and a byte j after it: what is left of
\* the message of i, of which b bytes of x come before it, ends with n or before n.
LEMMA PastTheEnd ==
    ASSUME NEW b \in Nat, NEW x \in Nat, NEW n \in Nat, NEW i \in Nat, NEW j \in Nat,
           j >= n + 1
    PROVE  /\ b + (n - i) = x - 1 => b + (j - i) >= x /\ (b + (j - i) = x => j = n + 1)
           /\ ~(b + (n - i) < x) => b + (j - i) >= x /\ b + (j - i) # x
  OBVIOUS

\* A message after the last byte of the one before it.
LEMMA BlocksAppended ==
    ASSUME NEW r \in Seq(Bytes), NEW s \in Seq(Byte), NEW q \in Seq(Bytes), InBlocks(r),
           NEW m \in Nat, NEW size \in Sizes,
           Len(s) = HeaderLength + size,
           \A p \in 1..HeaderLength + size :
                /\ s[p].msg = m /\ s[p].size = size /\ Before(s[p]) = p - 1
                /\ s[p].part = "header" => s[p].pos <= HeaderLength,
           \A i \in 1..Len(r) : r[i].msg < m,
           Len(r) > 0 => /\ r[Len(r)].msg + 1 = m
                         /\ Before(r[Len(r)]) = Total(r[Len(r)]) - 1,
           Len(q) = Len(r) + Len(s),
           \A i \in 1..Len(q) : q[i] = IF i <= Len(r) THEN r[i] ELSE s[i - Len(r)]
    PROVE  InBlocks(q)
  <1> DEFINE n == Len(r)
             t == HeaderLength + size
  <1>1. /\ n \in Nat /\ HeaderLength \in Nat /\ HeaderLength >= 1
        /\ size \in Nat /\ size >= 1 /\ t \in Nat /\ Len(q) = n + t
    BY FramingAssumption
  <1>2. \A i \in 1..n : /\ i \in 1..Len(q) /\ q[i] = r[i] /\ q[i] \in Byte /\ q[i].msg < m
                        /\ Before(q[i]) < Total(q[i])
                        /\ q[i].part = "header" => q[i].pos <= HeaderLength
    <2> SUFFICES ASSUME NEW i \in 1..n
                 PROVE  /\ i \in 1..Len(q) /\ q[i] = r[i] /\ q[i] \in Byte /\ q[i].msg < m
                        /\ Before(q[i]) < Total(q[i])
                        /\ q[i].part = "header" => q[i].pos <= HeaderLength
      OBVIOUS
    <2>1. i \in 1..Len(q) /\ i <= Len(r) /\ i \in 1..Len(r)
      BY <1>1
    <2>2. q[i] = r[i] /\ r[i].msg < m
      BY <2>1
    <2>3. /\ r[i] \in Byte /\ Before(r[i]) < Total(r[i])
          /\ r[i].part = "header" => r[i].pos <= HeaderLength
      BY <2>1 DEF InBlocks, Formed
    <2> QED
      BY <2>1, <2>2, <2>3
  <1>3. ASSUME NEW i \in n + 1..n + t
        PROVE  /\ q[i] \in Byte
               /\ q[i].msg = m /\ q[i].size = size /\ Before(q[i]) = i - n - 1
               /\ q[i].part = "header" => q[i].pos <= HeaderLength
               /\ Total(q[i]) = t
    <2>1. i - n \in 1..t /\ i > n /\ i \in 1..Len(q)
      BY <1>1
    <2>2. q[i] = s[i - n]
      BY <1>1, <2>1
    <2>3. s[i - n] \in Byte
      BY <1>1, <2>1, ElementOfSeq
    <2> HIDE DEF n
    <2> QED
      BY <1>1, <2>1, <2>2, <2>3 DEF Total
  <1>4. \A i \in 1..Len(q) : i \in Nat /\ (i \in 1..n \/ i \in n + 1..n + t)
    BY <1>1
  <1>5. Len(r) > 0 => n \in 1..n /\ q[n].msg + 1 = m /\ Before(q[n]) = Total(q[n]) - 1
    BY <1>1, <1>2
  <1>6. /\ \A i, j \in 1..n :
            i <= j /\ Before(q[i]) + (j - i) < Total(q[i])
                => /\ q[j].msg = q[i].msg /\ q[j].size = q[i].size
                   /\ Before(q[j]) = Before(q[i]) + (j - i)
        /\ \A i, j \in 1..n :
            i <= j /\ Before(q[i]) + (j - i) = Total(q[i])
                => q[j].msg = q[i].msg + 1 /\ Before(q[j]) = 0
        /\ \A i, j \in 1..n : i <= j => q[i].msg <= q[j].msg
    <2>1. SameMessage(r) /\ NextMessage(r) /\ Ordered(r) /\ \A i \in 1..n : q[i] = r[i]
      BY <1>2 DEF InBlocks
    <2> SUFFICES ASSUME NEW i \in 1..n, NEW j \in 1..n, i <= j
                 PROVE  /\ Before(q[i]) + (j - i) < Total(q[i])
                             => /\ q[j].msg = q[i].msg /\ q[j].size = q[i].size
                                /\ Before(q[j]) = Before(q[i]) + (j - i)
                        /\ Before(q[i]) + (j - i) = Total(q[i])
                             => q[j].msg = q[i].msg + 1 /\ Before(q[j]) = 0
                        /\ q[i].msg <= q[j].msg
      OBVIOUS
    <2>2. q[i] = r[i] /\ q[j] = r[j]
      BY <2>1
    <2>3. /\ Before(r[i]) + (j - i) < Total(r[i])
             => /\ r[j].msg = r[i].msg /\ r[j].size = r[i].size
                /\ Before(r[j]) = Before(r[i]) + (j - i)
          /\ Before(r[i]) + (j - i) = Total(r[i])
             => r[j].msg = r[i].msg + 1 /\ Before(r[j]) = 0
          /\ r[i].msg <= r[j].msg
      BY <2>1 DEF SameMessage, NextMessage, Ordered
    <2> QED
      BY <2>2, <2>3
  <1>7. \A i \in 1..Len(q) : /\ q[i].msg \in Nat /\ Before(q[i]) \in Nat /\ Total(q[i]) \in Nat
                             /\ Total(q[i]) = HeaderLength + q[i].size /\ q[i].size \in Nat
    BY <1>2, <1>3, <1>4, ByteNumbers DEF Total
  <1> HIDE DEF n, t
  \* The messages of r end with it.
  <1>8. ASSUME NEW i \in 1..n, NEW j \in n + 1..n + t
        PROVE  /\ Before(q[i]) + (j - i) >= Total(q[i])
               /\ Before(q[i]) + (j - i) = Total(q[i])
                    => j = n + 1 /\ q[i].msg + 1 = m
    <2>1. /\ n \in 1..n /\ i \in Nat /\ i <= n /\ j \in Nat /\ j >= n + 1 /\ Len(r) > 0
      BY <1>1 DEF n
    <2>2. CASE Before(q[i]) + (n - i) < Total(q[i])
      <3>1. q[n].msg = q[i].msg /\ q[n].size = q[i].size
            /\ Before(q[n]) = Before(q[i]) + (n - i)
        BY <1>6, <2>1, <2>2
      <3>2. Total(q[n]) = Total(q[i])
        BY <1>2, <1>7, <2>1, <3>1
      <3>3. Before(q[i]) + (n - i) = Total(q[i]) - 1
        BY <1>5, <2>1, <3>1, <3>2
      <3>4. q[i].msg + 1 = m
        BY <1>5, <2>1, <3>1
      <3>5. Before(q[i]) \in Nat /\ Total(q[i]) \in Nat
        BY <1>2, <1>7
      <3>7. /\ Before(q[i]) + (j - i) >= Total(q[i])
            /\ Before(q[i]) + (j - i) = Total(q[i]) => j = n + 1
        <4> DEFINE b == Before(q[i])
                   x == Total(q[i])
        <4>1. /\ b \in Nat /\ x \in Nat /\ n \in Nat /\ i \in Nat /\ j \in Nat
              /\ b + (n - i) = x - 1 /\ j >= n + 1
          BY <1>1, <2>1, <3>3, <3>5
        <4> HIDE DEF b, x
        <4>2. b + (j - i) >= x /\ (b + (j - i) = x => j = n + 1)
          BY <4>1, PastTheEnd
        <4> QED
          BY <4>2 DEF b, x
      <3> QED
        BY <3>4, <3>7
    <2>3. CASE ~(Before(q[i]) + (n - i) < Total(q[i]))
      <3>1. Before(q[i]) \in Nat /\ Total(q[i]) \in Nat
        BY <1>2, <1>7
      <3>2. Before(q[i]) + (j - i) >= Total(q[i]) /\ Before(q[i]) + (j - i) # Total(q[i])
        <4> DEFINE b == Before(q[i])
                   x == Total(q[i])
        <4>1. /\ b \in Nat /\ x \in Nat /\ n \in Nat /\ i \in Nat /\ j \in Nat
              /\ ~(b + (n - i) < x) /\ j >= n + 1
          BY <1>1, <2>1, <2>3, <3>1
        <4> HIDE DEF b, x
        <4>2. b + (j - i) >= x /\ b + (j - i) # x
          BY <4>1, PastTheEnd
        <4> QED
          BY <4>2 DEF b, x
      <3> QED
        BY <3>2
    <2> QED
      BY <2>2, <2>3
  <1>9. Formed(q)
    <2> SUFFICES ASSUME NEW i \in 1..Len(q)
                 PROVE  /\ q[i] \in Byte /\ Before(q[i]) < Total(q[i])
                        /\ q[i].part = "header" => q[i].pos <= HeaderLength
      BY DEF Formed
    <2>1. CASE i \in 1..n
      BY <1>2, <2>1
    <2>2. CASE i \in n + 1..n + t
      <3>1. i - n - 1 < t
        BY <1>1, <2>2
      <3> QED
        BY <1>3, <2>2, <3>1
    <2> QED
      BY <1>4, <2>1, <2>2
  <1>10. SameMessage(q)
    <2> SUFFICES ASSUME NEW i \in 1..Len(q), NEW j \in 1..Len(q), i <= j,
                        Before(q[i]) + (j - i) < Total(q[i])
                 PROVE  /\ q[j].msg = q[i].msg /\ q[j].size = q[i].size
                        /\ Before(q[j]) = Before(q[i]) + (j - i)
      BY DEF SameMessage
    <2>1. CASE i \in 1..n /\ j \in 1..n
      BY <1>6, <2>1
    <2>2. CASE i \in 1..n /\ j \in n + 1..n + t
      <3>1. Before(q[i]) + (j - i) >= Total(q[i])
        BY <1>8, <2>2
      <3>2. Before(q[i]) \in Nat /\ Total(q[i]) \in Nat /\ i \in Nat /\ j \in Nat
        BY <1>4, <1>7
      <3> QED
        BY <3>1, <3>2
    <2>3. CASE i \in n + 1..n + t /\ j \in n + 1..n + t
      <3>1. i - n - 1 + (j - i) = j - n - 1
        BY <1>1, <2>3
      <3> QED
        BY <1>3, <2>3, <3>1
    <2> QED
      BY <1>1, <1>4, <2>1, <2>2, <2>3
  <1>11. NextMessage(q)
    <2> SUFFICES ASSUME NEW i \in 1..Len(q), NEW j \in 1..Len(q), i <= j,
                        Before(q[i]) + (j - i) = Total(q[i])
                 PROVE  q[j].msg = q[i].msg + 1 /\ Before(q[j]) = 0
      BY DEF NextMessage
    <2>1. CASE i \in 1..n /\ j \in 1..n
      BY <1>6, <2>1
    <2>2. CASE i \in 1..n /\ j \in n + 1..n + t
      <3>1. j = n + 1 /\ q[i].msg + 1 = m
        BY <1>8, <2>2
      <3>2. q[j].msg = m /\ Before(q[j]) = j - n - 1
        BY <1>3, <2>2
      <3> QED
        BY <1>1, <3>1, <3>2
    <2>3. CASE i \in n + 1..n + t /\ j \in n + 1..n + t
      <3>1. Before(q[i]) = i - n - 1 /\ Total(q[i]) = t
        BY <1>3, <2>3
      <3> QED
        BY <1>1, <2>3, <3>1
    <2> QED
      BY <1>1, <1>4, <2>1, <2>2, <2>3
  <1>12. Ordered(q)
    <2> SUFFICES ASSUME NEW i \in 1..Len(q), NEW j \in 1..Len(q), i <= j
                 PROVE  q[i].msg <= q[j].msg
      BY DEF Ordered
    <2>1. q[i].msg \in Nat /\ q[j].msg \in Nat
      BY <1>7
    <2>2. CASE j \in 1..n
      <3>1. i \in 1..n
        BY <1>1, <1>4, <2>2
      <3>2. \A x, y \in 1..n : x <= y => q[x].msg <= q[y].msg
        BY <1>6
      <3> QED
        BY <2>2, <3>1, <3>2
    <2>3. CASE j \in n + 1..n + t
      <3>1. q[j].msg = m
        BY <1>3, <2>3
      <3>2. i \in 1..n => q[i].msg < m
        BY <1>2
      <3>3. i \in n + 1..n + t => q[i].msg = m
        BY <1>3
      <3>4. i \in 1..n \/ i \in n + 1..n + t
        BY <1>4
      <3> QED
        BY <2>1, <3>1, <3>2, <3>3, <3>4
    <2> QED
      BY <1>4, <2>2, <2>3
  <1> QED
    BY <1>9, <1>10, <1>11, <1>12 DEF InBlocks

-----------------------------------------------------------------------------
(* Steps that leave the messages alone.                                    *)

\* A step that sends and delivers nothing keeps the invariant if it only takes bytes from
\* the end of Run, and none while the connection is up.
LEMMA RunKept ==
    ASSUME FramingInv, FramingTypeOK', WithinBuffer',
           UNCHANGED <<written, sent, delivered>>,
           Len(Run') <= Len(Run), \A i \in 1..Len(Run') : Run'[i] = Run[i],
           up' => up /\ Len(Run') = Len(Run)
    PROVE  FramingInv'
  <1>1. Run \in Seq(Bytes) /\ Run' \in Seq(Bytes)
    BY RunBytes, RunBytesNext DEF FramingInv, RunIs
  <1>2. InBlocks(Run) /\ InStep(Run) /\ Prefix
    BY DEF FramingInv
  <1>3. Len(Run) \in Nat /\ Len(Run') \in Nat
    BY <1>1
  <1>4. InBlocks(Run')
    BY <1>1, <1>2, BlocksCut
  <1>5. InStep(Run)'
    <2>1. \A i \in 1..Len(Run') : i \in 1..Len(Run)
      BY <1>3
    <2>2. Len(Run') > 0 => Len(Run) > 0 /\ 1 \in 1..Len(Run') /\ Len(Run') \in 1..Len(Run')
      BY <1>3
    <2>3. \A i \in 1..Len(Run') :
            /\ Place(Run'[i].msg) \in Len(delivered) + 1..Len(sent)
            /\ sent[Place(Run'[i].msg)] = [msg |-> Run'[i].msg, size |-> Run'[i].size]
      BY <1>2, <2>1 DEF InStep
    <2>4. Len(Run') > 0 => Before(Run'[1]) = 0 /\ Place(Run'[1].msg) = Len(delivered) + 1
      BY <1>2, <2>2 DEF InStep
    <2>5. up' => IF Len(Run') = 0 THEN Len(delivered) = Len(sent)
                 ELSE /\ Run'[Len(Run')].msg = written
                      /\ Before(Run'[Len(Run')]) = Total(Run'[Len(Run')]) - 1
      BY <1>2, <1>3, <2>2 DEF InStep
    <2> QED
      BY <2>3, <2>4, <2>5 DEF InStep, Place
  <1> QED
    BY <1>2, <1>4, <1>5 DEF FramingInv, Prefix

LEMMA InitHolds == FramingInit => FramingInv
  <1> SUFFICES ASSUME FramingInit PROVE FramingInv
    OBVIOUS
  <1>1. HeaderLength \in Nat /\ MaxMessages \in Nat
    BY FramingAssumption
  <1>2. FramingTypeOK
    BY <1>1 DEF FramingInit, FramingTypeOK
  <1>3. WithinBuffer
    BY DEF FramingInit, WithinBuffer
  <1>4. Run \in Seq(Bytes) /\ Len(Run) = 0
    BY <1>2, <1>3, RunBytes, EmptySeq DEF RunIs, Have, FramingInit
  <1>5. InBlocks(Run)
    BY <1>4 DEF InBlocks, Formed, SameMessage, NextMessage, Ordered
  <1>6. InStep(Run) /\ Prefix
    BY <1>4, EmptySeq DEF InStep, Prefix, FramingInit
  <1> QED
    BY <1>2, <1>3, <1>5, <1>6 DEF FramingInv

LEMMA StartReadHolds == FramingInv /\ StartRead => FramingInv'
  <1> SUFFICES ASSUME FramingInv, StartRead PROVE FramingInv'
    OBVIOUS
  <1>1. FramingTypeOK' /\ WithinBuffer'
    BY FramingAssumption DEF FramingInv, FramingTypeOK, WithinBuffer, StartRead
  <1>2. RunIs /\ RunIs'
    BY <1>1, RunBytes, RunBytesNext DEF FramingInv
  <1>3. Len(Run') = Len(Run) /\ \A i \in 1..Len(Run') : Run'[i] = Run[i]
    BY <1>2 DEF RunIs, Have, ByteAt, StartRead
  <1> QED
    BY <1>1, <1>3, RunKept, Types DEF StartRead, FramingInv, RunIs

LEMMA ReadHeaderByteHolds == FramingInv /\ ReadHeaderByte => FramingInv'
  <1> SUFFICES ASSUME FramingInv, ReadHeaderByte PROVE FramingInv'
    OBVIOUS
  <1>1. FramingTypeOK /\ WithinBuffer
    BY DEF FramingInv
  <1>2. /\ HeaderLength \in Nat /\ wire \in Seq(Byte) /\ wire # <<>> /\ got \in Nat
        /\ Len(wire) \in Nat
        /\ got < HeaderLength /\ reader = "header" /\ reader' = reader
        /\ wire' = Tail(wire) /\ got' = got + 1
        /\ inbound_header \in [1..HeaderLength -> Bytes]
        /\ inbound_header' = [inbound_header EXCEPT ![got + 1] = Head(wire)]
    BY <1>1, Types DEF ReadHeaderByte, FramingTypeOK, Bytes
  <1>3. /\ Head(wire) = wire[1] /\ Head(wire) \in Bytes
        /\ wire' \in Seq(Byte) /\ Len(wire') = Len(wire) - 1
        /\ \A i \in 1..Len(wire) - 1 : wire'[i] = wire[i + 1]
    BY <1>2, HeadTailProperties DEF Bytes
  <1>4. inbound_header' \in [1..HeaderLength -> Bytes]
    BY <1>2, <1>3
  <1>5. FramingTypeOK' /\ WithinBuffer'
    BY <1>1, <1>2, <1>3, <1>4 DEF FramingTypeOK, WithinBuffer, ReadHeaderByte, Bytes
  <1>6. RunIs /\ RunIs'
    BY <1>1, <1>5, RunBytes, RunBytesNext
  <1>7. Len(Run) = got + Len(wire) /\ Len(Run') = got + 1 + Len(wire')
    BY <1>2, <1>6 DEF RunIs, Have
  <1>8. Len(Run') = Len(Run)
    BY <1>2, <1>3, <1>7
  <1>9. ASSUME NEW i \in 1..Len(Run') PROVE Run'[i] = Run[i]
    <2>1. Run[i] = IF i > got THEN wire[i - got] ELSE inbound_header[i]
      BY <1>2, <1>6, <1>7, <1>8 DEF RunIs, Have, ByteAt
    <2>2. Run'[i] = IF i > got + 1 THEN wire'[i - (got + 1)] ELSE inbound_header'[i]
      BY <1>2, <1>6, <1>7 DEF RunIs, Have, ByteAt
    <2>3. CASE i > got + 1
      <3>1. i - (got + 1) \in 1..Len(wire) - 1 /\ (i - (got + 1)) + 1 = i - got
        BY <1>2, <1>7, <1>8, <2>3
      <3> QED
        BY <1>2, <1>3, <2>1, <2>2, <2>3, <3>1
    <2>4. CASE i = got + 1
      <3>1. i \in 1..HeaderLength /\ i - got = 1
        BY <1>2, <2>4
      <3> QED
        BY <1>2, <1>3, <2>1, <2>2, <2>4, <3>1
    <2>5. CASE i <= got
      <3>1. i \in 1..HeaderLength /\ i # got + 1
        BY <1>2, <2>5
      <3> QED
        BY <1>2, <2>1, <2>2, <2>5, <3>1
    <2>6. i \in Nat
      OBVIOUS
    <2> QED
      BY <1>2, <2>3, <2>4, <2>5, <2>6
  <1>10. UNCHANGED <<up, written, sent, delivered>>
    BY DEF ReadHeaderByte
  <1>11. Len(Run') <= Len(Run)
    BY <1>2, <1>7, <1>8
  <1> QED
    BY <1>5, <1>8, <1>9, <1>10, <1>11, RunKept

LEMMA ReadBodyByteHolds == FramingInv /\ ReadBodyByte => FramingInv'
  <1> SUFFICES ASSUME FramingInv, ReadBodyByte PROVE FramingInv'
    OBVIOUS
  <1>1. FramingTypeOK /\ WithinBuffer
    BY DEF FramingInv
  <1> DEFINE n == Len(inbound_data)
  <1>2. /\ HeaderLength \in Nat /\ wire \in Seq(Byte) /\ wire # <<>> /\ got \in Nat
        /\ Len(wire) \in Nat
        /\ got < n /\ n \in Nat /\ reader = "body" /\ reader' = reader
        /\ wire' = Tail(wire) /\ got' = got + 1
        /\ inbound_data \in [1..n -> Bytes] /\ inbound_header' = inbound_header
        /\ inbound_data' = [inbound_data EXCEPT ![got + 1] = Head(wire)]
    BY <1>1, Types DEF ReadBodyByte, FramingTypeOK, Bytes
  <1>3. /\ Head(wire) = wire[1] /\ Head(wire) \in Bytes
        /\ wire' \in Seq(Byte) /\ Len(wire') = Len(wire) - 1
        /\ \A i \in 1..Len(wire) - 1 : wire'[i] = wire[i + 1]
    BY <1>2, HeadTailProperties DEF Bytes
  <1>4. /\ inbound_data' \in [1..n -> Bytes]
        /\ inbound_data' \in Seq(Bytes) /\ Len(inbound_data') = n
    <2>1. inbound_data' \in [1..n -> Bytes]
      BY <1>2, <1>3
    <2> HIDE DEF n
    <2> QED
      BY <1>2, <2>1
  <1>5. FramingTypeOK' /\ WithinBuffer'
    BY <1>1, <1>2, <1>3, <1>4 DEF FramingTypeOK, WithinBuffer, ReadBodyByte, Bytes
  <1>6. RunIs /\ RunIs'
    BY <1>1, <1>5, RunBytes, RunBytesNext
  <1>7. /\ Len(Run) = HeaderLength + got + Len(wire)
        /\ Len(Run') = HeaderLength + (got + 1) + Len(wire')
    BY <1>2, <1>6 DEF RunIs, Have
  <1>8. Len(Run') = Len(Run)
    BY <1>2, <1>3, <1>7
  <1>9. ASSUME NEW i \in 1..Len(Run') PROVE Run'[i] = Run[i]
    <2>1. Run[i] = IF i > HeaderLength + got THEN wire[i - (HeaderLength + got)]
                   ELSE IF i <= HeaderLength THEN inbound_header[i]
                   ELSE inbound_data[i - HeaderLength]
      BY <1>2, <1>6, <1>7, <1>8 DEF RunIs, Have, ByteAt
    <2>2. Run'[i] = IF i > HeaderLength + (got + 1) THEN wire'[i - (HeaderLength + (got + 1))]
                    ELSE IF i <= HeaderLength THEN inbound_header[i]
                    ELSE inbound_data'[i - HeaderLength]
      BY <1>2, <1>6, <1>7 DEF RunIs, Have, ByteAt
    <2>3. CASE i > HeaderLength + (got + 1)
      <3>1. /\ i - (HeaderLength + (got + 1)) \in 1..Len(wire) - 1
            /\ (i - (HeaderLength + (got + 1))) + 1 = i - (HeaderLength + got)
            /\ i > HeaderLength + got
        BY <1>2, <1>7, <1>8, <2>3
      <3> QED
        BY <1>3, <2>1, <2>2, <2>3, <3>1
    <2>4. CASE i = HeaderLength + (got + 1)
      <3>1. /\ i - HeaderLength = got + 1 /\ got + 1 \in 1..n /\ i - (HeaderLength + got) = 1
            /\ i > HeaderLength + got /\ ~(i > HeaderLength + (got + 1)) /\ ~(i <= HeaderLength)
        BY <1>2, <2>4
      <3> QED
        BY <1>2, <1>3, <2>1, <2>2, <3>1
    <2>5. CASE i <= HeaderLength
      <3>1. ~(i > HeaderLength + got) /\ ~(i > HeaderLength + (got + 1))
        BY <1>2, <2>5
      <3> QED
        BY <2>1, <2>2, <2>5, <3>1
    <2>6. CASE i > HeaderLength /\ i <= HeaderLength + got
      <3>1. /\ i - HeaderLength \in 1..n /\ i - HeaderLength # got + 1
            /\ ~(i > HeaderLength + got) /\ ~(i > HeaderLength + (got + 1)) /\ ~(i <= HeaderLength)
        BY <1>2, <2>6
      <3> QED
        BY <1>2, <2>1, <2>2, <3>1
    <2>7. i \in Nat
      OBVIOUS
    <2> QED
      BY <1>2, <2>3, <2>4, <2>5, <2>6, <2>7
  <1>10. UNCHANGED <<up, written, sent, delivered>>
    BY DEF ReadBodyByte
  <1>11. Len(Run') <= Len(Run)
    BY <1>2, <1>7, <1>8
  <1> QED
    BY <1>5, <1>8, <1>9, <1>10, <1>11, RunKept

LEMMA ReadFailsHolds == FramingInv /\ (HeaderFails \/ BodyFails) => FramingInv'
  <1> SUFFICES ASSUME FramingInv, HeaderFails \/ BodyFails PROVE FramingInv'
    OBVIOUS
  <1>1. FramingTypeOK /\ WithinBuffer
    BY DEF FramingInv
  <1>2. /\ reader' = "stopped" /\ wire' = wire /\ wire = <<>> /\ up = FALSE /\ up' = up
        /\ UNCHANGED <<async, connections, bufferVars, written, sent, delivered>>
        /\ result' \in {"error", "thrown"}
    BY <1>1 DEF HeaderFails, BodyFails, FramingTypeOK
  <1>3. FramingTypeOK'
    BY <1>1, <1>2 DEF FramingTypeOK, bufferVars
  <1>4. WithinBuffer'
    BY <1>2 DEF WithinBuffer
  <1>5. RunIs /\ RunIs'
    BY <1>1, <1>3, <1>4, RunBytes, RunBytesNext
  <1>6. Len(Run') = 0 /\ Len(Run) \in Nat
    BY <1>2, <1>5, EmptySeq DEF RunIs, Have
  <1>7. Len(Run') <= Len(Run) /\ \A i \in 1..Len(Run') : Run'[i] = Run[i]
    BY <1>6
  <1> QED
    BY <1>2, <1>3, <1>4, <1>7, RunKept

LEMMA WriteRefusedHolds ==
    ASSUME FramingInv, NEW size \in Sizes, WriteRefused(size) PROVE FramingInv'
  <1>1. FramingTypeOK /\ WithinBuffer
    BY DEF FramingInv
  <1>2. FramingTypeOK' /\ WithinBuffer'
    BY <1>1 DEF FramingTypeOK, WithinBuffer, WriteRefused, bufferVars
  <1>3. RunIs /\ RunIs'
    BY <1>1, <1>2, RunBytes, RunBytesNext
  <1>4. Len(Run') = Len(Run) /\ \A i \in 1..Len(Run') : Run'[i] = Run[i]
    BY <1>3 DEF RunIs, Have, ByteAt, WriteRefused, bufferVars
  <1>5. Len(Run') <= Len(Run)
    BY <1>3, <1>4 DEF RunIs
  <1>6. ~up' /\ UNCHANGED <<written, sent, delivered>>
    BY DEF WriteRefused
  <1> QED
    BY <1>2, <1>4, <1>5, <1>6, RunKept

LEMMA CutHolds == FramingInv /\ Cut => FramingInv'
  <1> SUFFICES ASSUME FramingInv, Cut PROVE FramingInv'
    OBVIOUS
  <1>1. FramingTypeOK /\ WithinBuffer
    BY DEF FramingInv
  <1>2. wire \in Seq(Byte) /\ Len(wire) \in Nat
    BY <1>1, Types
  <1>3. PICK n \in 0..Len(wire) : wire' = SubSeq(wire, 1, n)
    BY DEF Cut
  <1>4. \A i \in 1..n : wire[i] \in Byte
    BY <1>2, ElementOfSeq
  <1>5. wire' \in Seq(Byte) /\ Len(wire') = n /\ \A i \in 1..n : wire'[i] = wire[i]
    BY <1>2, <1>3, <1>4, SubSeqProperties
  <1>6. FramingTypeOK' /\ WithinBuffer'
    BY <1>1, <1>5 DEF FramingTypeOK, WithinBuffer, Cut, bufferVars
  <1>7. RunIs /\ RunIs'
    BY <1>1, <1>6, RunBytes, RunBytesNext
  <1>8. /\ Have' = Have /\ Have \in Nat /\ Len(Run') = Have + n /\ Len(Run) = Have + Len(wire)
        /\ inbound_header' = inbound_header /\ inbound_data' = inbound_data
    BY <1>5, <1>7 DEF RunIs, Have, Cut, bufferVars
  <1>9. Len(Run') <= Len(Run)
    BY <1>2, <1>8
  <1>10. ASSUME NEW i \in 1..Len(Run') PROVE Run'[i] = Run[i]
    <2>1. i \in 1..Have + n /\ i \in 1..Have + Len(wire) /\ (i > Have => i - Have \in 1..n)
      BY <1>2, <1>8
    <2>2. Run[i] = ByteAt(i) /\ Run'[i] = ByteAt(i)'
      BY <1>5, <1>7, <1>8, <2>1 DEF RunIs
    <2> QED
      BY <1>5, <1>8, <2>1, <2>2 DEF ByteAt
  <1>11. ~up' /\ UNCHANGED <<written, sent, delivered>>
    BY DEF Cut
  <1> QED
    BY <1>6, <1>9, <1>10, <1>11, RunKept

LEMMA ReconnectHolds == FramingInv /\ Reconnect => FramingInv'
  <1> SUFFICES ASSUME FramingInv, Reconnect PROVE FramingInv'
    OBVIOUS
  <1>1. FramingTypeOK /\ WithinBuffer
    BY DEF FramingInv
  <1>2. HeaderLength \in Nat /\ connections \in Nat /\ MaxConnections \in Nat
    BY <1>1, FramingAssumption DEF FramingTypeOK
  <1>3. connections' \in 1..MaxConnections
    BY <1>2 DEF Reconnect
  <1>4. inbound_header' \in [1..HeaderLength -> Byte \cup {Blank}]
    BY <1>1, <1>2 DEF Reconnect, FramingTypeOK
  <1>5. inbound_data' \in Seq(Byte \cup {Blank}) /\ wire' \in Seq(Byte)
    BY <1>1 DEF Reconnect, FramingTypeOK
  <1>6. FramingTypeOK'
    BY <1>1, <1>3, <1>4, <1>5 DEF FramingTypeOK, Reconnect
  <1>7. WithinBuffer'
    BY DEF WithinBuffer, Reconnect
  <1>8. Run' \in Seq(Bytes) /\ Len(Run') = 0
    BY <1>6, <1>7, RunBytesNext, EmptySeq DEF RunIs, Have, Reconnect
  <1>9. InBlocks(Run')
    BY <1>8 DEF InBlocks, Formed, SameMessage, NextMessage, Ordered
  <1>10. InStep(Run)'
    BY <1>8 DEF InStep, Reconnect
  <1>11. Len(delivered) \in Nat
    BY <1>1, Types
  <1>12. Prefix'
    BY <1>11 DEF Prefix, Reconnect
  <1> QED
    BY <1>6, <1>7, <1>9, <1>10, <1>12 DEF FramingInv

-----------------------------------------------------------------------------
(* The oldest message.                                                     *)

\* Run begins with the bytes of the oldest message not delivered, as far as there are any.
LEMMA OldestMessage ==
    ASSUME FramingInv, Len(Run) > 0
    PROVE  /\ Run[1] \in Byte /\ Before(Run[1]) = 0
           /\ Place(Run[1].msg) = Len(delivered) + 1
           /\ Len(delivered) < Len(sent)
           /\ sent[Len(delivered) + 1] = [msg |-> Run[1].msg, size |-> Run[1].size]
           /\ \A j \in 1..Len(Run) : j <= HeaderLength + Run[1].size =>
                Run[j] = IF j <= HeaderLength
                         THEN [msg |-> Run[1].msg, size |-> Run[1].size,
                               part |-> "header", pos |-> j]
                         ELSE [msg |-> Run[1].msg, size |-> Run[1].size,
                               part |-> "body", pos |-> j - HeaderLength]
  <1>1. Run \in Seq(Bytes) /\ InBlocks(Run) /\ InStep(Run) /\ Len(Run) \in Nat
    BY RunBytes DEF FramingInv, RunIs
  <1>2. 1 \in 1..Len(Run)
    BY <1>1
  <1>3. Run[1] \in Byte /\ Before(Run[1]) = 0
    BY <1>1, <1>2 DEF InBlocks, Formed, InStep
  <1>4. /\ Place(Run[1].msg) = Len(delivered) + 1
        /\ Place(Run[1].msg) \in Len(delivered) + 1..Len(sent)
        /\ sent[Place(Run[1].msg)] = [msg |-> Run[1].msg, size |-> Run[1].size]
    BY <1>1, <1>2 DEF InStep
  <1>5. Len(delivered) \in Nat /\ Len(sent) \in Nat /\ HeaderLength \in Nat /\ HeaderLength >= 1
    BY Types DEF FramingInv
  <1>6. Len(delivered) < Len(sent)
    BY <1>4, <1>5
  <1>7. ASSUME NEW j \in 1..Len(Run), j <= HeaderLength + Run[1].size
        PROVE  Run[j] = IF j <= HeaderLength
                        THEN [msg |-> Run[1].msg, size |-> Run[1].size,
                              part |-> "header", pos |-> j]
                        ELSE [msg |-> Run[1].msg, size |-> Run[1].size,
                              part |-> "body", pos |-> j - HeaderLength]
    <2> DEFINE a == Run[1]
               b == Run[j]
    <2>1. b \in Byte /\ (b.part = "header" => b.pos <= HeaderLength)
      BY <1>1 DEF InBlocks, Formed
    <2>2. a.size \in Nat /\ j \in Nat /\ j >= 1 /\ Total(a) = HeaderLength + a.size
      BY <1>3, ByteNumbers DEF Total
    <2>3. Before(a) + (j - 1) = j - 1 /\ j - 1 < Total(a)
      BY <1>3, <1>5, <1>7, <2>2
    <2>4. b.msg = a.msg /\ b.size = a.size /\ Before(b) = j - 1
      BY <1>1, <1>2, <2>2, <2>3 DEF InBlocks, SameMessage
    <2>5. b.pos \in Nat /\ b.pos >= 1 /\ b.part \in {"header", "body"}
      BY <2>1, ByteNumbers
    <2>6. b = [msg |-> b.msg, size |-> b.size, part |-> b.part, pos |-> b.pos]
      BY <2>1 DEF Byte
    <2>7. CASE b.part = "header"
      <3>1. b.pos = j /\ j <= HeaderLength
        BY <2>1, <2>2, <2>4, <2>5, <2>7 DEF Before
      <3> QED
        BY <2>4, <2>6, <2>7, <3>1
    <2>8. CASE b.part = "body"
      <3>1. HeaderLength + b.pos - 1 = j - 1
        BY <2>4, <2>8 DEF Before
      <3>2. b.pos = j - HeaderLength /\ ~(j <= HeaderLength)
        <4> DEFINE x == b.pos
        <4>1. x \in Nat /\ x >= 1 /\ j \in Nat /\ HeaderLength \in Nat /\ HeaderLength + x - 1 = j - 1
          BY <1>5, <2>2, <2>5, <3>1
        <4> HIDE DEF x
        <4>2. x = j - HeaderLength /\ ~(j <= HeaderLength)
          BY <4>1
        <4> QED
          BY <4>2 DEF x
      <3> QED
        BY <2>4, <2>6, <2>8, <3>2
    <2> QED
      BY <2>5, <2>7, <2>8
  <1> QED
    BY <1>3, <1>4, <1>6, <1>7

\* A header that has been read is that of the oldest message: it always parses.
LEMMA HeaderIsWhole ==
    ASSUME FramingInv, reader = "header", got = HeaderLength
    PROVE  HeaderParses /\ inbound_header[1].size \in Sizes
  <1>1. RunIs /\ HeaderLength \in Nat /\ HeaderLength >= 1 /\ Len(wire) \in Nat
    BY RunBytes, Types DEF FramingInv
  <1>2. Len(Run) = HeaderLength + Len(wire) /\ \A i \in 1..HeaderLength : Run[i] = inbound_header[i]
    BY <1>1 DEF RunIs, Have, ByteAt
  <1>3. Len(Run) > 0 /\ 1 \in 1..HeaderLength
    BY <1>1, <1>2
  <1>4. Run[1] \in Byte /\ Run[1] = inbound_header[1]
    BY <1>2, <1>3, OldestMessage
  <1>5. inbound_header[1].size \in Sizes /\ inbound_header[1].size \in Nat
    BY <1>4, ByteNumbers
  <1>6. ASSUME NEW p \in 1..HeaderLength
        PROVE  inbound_header[p] = [msg |-> inbound_header[1].msg, size |-> inbound_header[1].size,
                                    part |-> "header", pos |-> p]
    <2>1. p \in 1..Len(Run) /\ p <= HeaderLength + inbound_header[1].size /\ p <= HeaderLength
      BY <1>1, <1>2, <1>5
    <2> QED
      BY <1>2, <1>3, <1>4, <2>1, OldestMessage
  <1>7. inbound_header \in [1..HeaderLength -> Byte \cup {Blank}]
    BY DEF FramingInv, FramingTypeOK
  <1> QED
    BY <1>5, <1>6, <1>7 DEF HeaderParses, Header

\* A body that has been read is that of the oldest message, whole.
LEMMA BodyIsWhole ==
    ASSUME FramingInv, reader = "body", got = Len(inbound_data)
    PROVE  /\ Len(Run) = HeaderLength + Run[1].size + Len(wire) /\ Len(Run) > 0
           /\ Run[1].size \in Nat /\ Run[1].size >= 1
           /\ \A i \in 1..Len(wire) : wire[i] = Run[i + (HeaderLength + Run[1].size)]
           /\ Decoded(inbound_data) = sent[Len(delivered) + 1]
  <1>1. /\ RunIs /\ HeaderLength \in Nat /\ HeaderLength >= 1 /\ Len(wire) \in Nat
        /\ Len(inbound_data) \in Nat /\ WithinBuffer
    BY RunBytes, Types DEF FramingInv
  <1> DEFINE n == Len(inbound_data)
  <1>2. /\ Len(Run) = HeaderLength + n + Len(wire)
        /\ \A i \in 1..HeaderLength + n + Len(wire) :
            Run[i] = IF i > HeaderLength + n THEN wire[i - (HeaderLength + n)]
                     ELSE IF i <= HeaderLength THEN inbound_header[i]
                     ELSE inbound_data[i - HeaderLength]
    BY <1>1 DEF RunIs, Have, ByteAt
  <1>3. Len(Run) > 0 /\ 1 \in 1..HeaderLength + n + Len(wire) /\ 1 <= HeaderLength
        /\ ~(1 > HeaderLength + n)
    BY <1>1, <1>2
  <1>4. Run[1] = inbound_header[1]
    BY <1>2, <1>3
  <1>5. n = Run[1].size
    BY <1>1, <1>4 DEF WithinBuffer
  <1>6. n >= 1
    BY <1>3, <1>5, OldestMessage, ByteNumbers
  <1>7. ASSUME NEW i \in 1..Len(wire) PROVE wire[i] = Run[i + (HeaderLength + n)]
    <2>1. /\ i + (HeaderLength + n) \in 1..HeaderLength + n + Len(wire)
          /\ i + (HeaderLength + n) > HeaderLength + n
          /\ (i + (HeaderLength + n)) - (HeaderLength + n) = i
      BY <1>1
    <2> QED
      BY <1>2, <2>1
  <1>8. ASSUME NEW p \in 1..n
        PROVE  inbound_data[p] = [msg |-> Run[1].msg, size |-> n, part |-> "body", pos |-> p]
    <2>1. /\ HeaderLength + p \in 1..HeaderLength + n + Len(wire)
          /\ ~(HeaderLength + p > HeaderLength + n) /\ ~(HeaderLength + p <= HeaderLength)
          /\ HeaderLength + p <= HeaderLength + n /\ (HeaderLength + p) - HeaderLength = p
      BY <1>1
    <2>2. Run[HeaderLength + p] = inbound_data[p]
      BY <1>2, <2>1
    <2>3. HeaderLength + p \in 1..Len(Run) /\ HeaderLength + p <= HeaderLength + Run[1].size
      BY <1>2, <1>5, <2>1
    <2>4. Run[HeaderLength + p] = [msg |-> Run[1].msg, size |-> Run[1].size, part |-> "body",
                                   pos |-> (HeaderLength + p) - HeaderLength]
      BY <1>3, <2>1, <2>3, OldestMessage
    <2> QED
      BY <1>5, <2>1, <2>2, <2>4
  <1>9. inbound_data = Body(Run[1].msg, n)
    <2>1. inbound_data \in [1..n -> Bytes]
      BY Types DEF FramingInv
    <2> HIDE DEF n
    <2> QED
      BY <1>8, <2>1 DEF Body
  <1>10. inbound_data # <<>> /\ inbound_data[1].msg = Run[1].msg /\ inbound_data[1].size = n
    <2>1. 1 \in 1..n
      BY <1>1, <1>6
    <2>2. inbound_data[1] = [msg |-> Run[1].msg, size |-> n, part |-> "body", pos |-> 1]
      BY <1>8, <2>1
    <2>3. inbound_data # <<>>
      <3>1. inbound_data = <<>> => Len(inbound_data) = 0
        OBVIOUS
      <3> QED
        BY <1>6, <3>1
    <2> QED
      BY <2>2, <2>3
  <1>11. Decoded(inbound_data) = [msg |-> Run[1].msg, size |-> n]
    BY <1>9, <1>10 DEF Decoded
  <1> QED
    BY <1>1, <1>2, <1>3, <1>5, <1>6, <1>7, <1>11, OldestMessage

-----------------------------------------------------------------------------
(* Steps that concern the messages.                                        *)

LEMMA HeaderReadHolds == FramingInv /\ HeaderRead => FramingInv' /\ UNCHANGED <<sent, delivered>>
  <1> SUFFICES ASSUME FramingInv, HeaderRead PROVE FramingInv' /\ UNCHANGED <<sent, delivered>>
    OBVIOUS
  <1>1. FramingTypeOK /\ WithinBuffer /\ reader = "header" /\ got = HeaderLength
    BY DEF FramingInv, HeaderRead
  <1>2. HeaderParses /\ inbound_header[1].size \in Sizes
    BY <1>1, HeaderIsWhole
  <1> DEFINE size == inbound_header[1].size
  <1>3. /\ reader' = "body" /\ got' = 0 /\ inbound_data' = Resized(inbound_data, size)
        /\ inbound_header' = inbound_header /\ wire' = wire /\ up' = up /\ result' = result
        /\ UNCHANGED <<async, connections, written, sent, delivered>>
    BY <1>2 DEF HeaderRead
  <1>4. size \in Nat /\ inbound_data \in Seq(Byte \cup {Blank}) /\ Len(inbound_data) \in Nat
    <2>1. size \in Nat
      <3> HIDE DEF size
      <3>1. size \in Sizes
        BY <1>2 DEF size
      <3> QED
        BY <3>1, FramingAssumption
    <2> QED
      BY <1>1, <2>1, Types DEF FramingTypeOK
  <1>5. inbound_data' \in [1..size -> Byte \cup {Blank}]
    <2>1. \A p \in 1..size : p <= Len(inbound_data) => inbound_data[p] \in Byte \cup {Blank}
      BY <1>4, ElementOfSeq
    <2> HIDE DEF size
    <2> QED
      BY <1>3, <2>1 DEF Resized
  <1>6. inbound_data' \in Seq(Byte \cup {Blank}) /\ Len(inbound_data') = size
    <2> HIDE DEF size
    <2> QED
      BY <1>4, <1>5
  <1>7. FramingTypeOK'
    BY <1>1, <1>3, <1>6 DEF FramingTypeOK
  <1>8. WithinBuffer'
    BY <1>3, <1>4, <1>6 DEF WithinBuffer
  <1>9. RunIs /\ RunIs'
    BY <1>1, <1>7, <1>8, RunBytes, RunBytesNext
  <1>10. HeaderLength \in Nat /\ Have = HeaderLength /\ Have' = HeaderLength
    BY <1>1, <1>3, Types DEF Have
  <1>11. Len(Run) = HeaderLength + Len(wire) /\ Len(Run') = Len(Run) /\ Len(Run) \in Nat
    BY <1>3, <1>9, <1>10 DEF RunIs
  <1>12. ASSUME NEW i \in 1..Len(Run') PROVE Run'[i] = Run[i]
    <2>1. i \in 1..HeaderLength + Len(wire)
      BY <1>11
    <2>2. Run[i] = ByteAt(i) /\ Run'[i] = ByteAt(i)'
      BY <1>3, <1>9, <1>10, <2>1 DEF RunIs
    <2> QED
      BY <1>3, <1>10, <2>1, <2>2 DEF ByteAt
  <1>13. Len(Run') <= Len(Run)
    BY <1>11
  <1> QED
    BY <1>3, <1>7, <1>8, <1>11, <1>12, <1>13, RunKept

\* The messages that are written have the numbers after those written before.
LEMMA NewestMessage ==
    ASSUME FramingInv
    PROVE  \A i \in 1..Len(Run) : Run[i].msg \in Nat /\ Run[i].msg <= written
  <1> SUFFICES ASSUME NEW i \in 1..Len(Run) PROVE Run[i].msg \in Nat /\ Run[i].msg <= written
    OBVIOUS
  <1>1. Run[i] \in Byte /\ Place(Run[i].msg) <= Len(sent)
    <2>1. Place(Run[i].msg) \in Len(delivered) + 1..Len(sent)
      BY DEF FramingInv, InStep
    <2> QED
      BY <2>1 DEF FramingInv, InBlocks, Formed
  <1>2. Run[i].msg \in Nat /\ Len(sent) \in Nat /\ written \in Nat
    BY <1>1, ByteNumbers, Types DEF FramingInv
  <1> QED
    BY <1>1, <1>2 DEF Place

LEMMA WriteMessageHolds ==
    ASSUME FramingInv, NEW size \in Sizes, WriteMessage(size)
    PROVE  /\ FramingInv' /\ delivered' = delivered
           /\ Len(sent') = Len(sent) + 1 /\ SubSeq(sent', 1, Len(sent)) = sent
  <1>1. FramingTypeOK /\ WithinBuffer /\ InBlocks(Run) /\ InStep(Run) /\ Prefix
    BY DEF FramingInv
  <1> DEFINE m == written + 1
             s == MessageText(m, size)
             new == [msg |-> m, size |-> size]
             Message == [msg : 1..MaxMessages, size : Sizes]
  <1>2. /\ written \in Nat /\ m \in 1..MaxMessages /\ m \in Nat /\ written' = m
        /\ HeaderLength \in Nat /\ size \in Nat /\ size >= 1 /\ up
        /\ Len(sent) \in Nat /\ Len(delivered) \in Nat
    <2>1. written < MaxMessages /\ MaxMessages \in Nat /\ written \in Nat
      BY FramingAssumption, Types DEF FramingInv, WriteMessage
    <2> QED
      BY <1>1, <2>1, FramingAssumption, Types DEF WriteMessage
  <1>3. /\ s \in Seq(Byte) /\ Len(s) = HeaderLength + size
        /\ Header(m, size, HeaderLength) \in Seq(Byte) /\ Body(m, size) \in Seq(Byte)
        /\ \A p \in 1..HeaderLength + size :
            /\ s[p].msg = m /\ s[p].size = size /\ Before(s[p]) = p - 1
            /\ s[p].part = "header" => s[p].pos <= HeaderLength
    <2>1. m \in 1..MaxMessages
      BY <1>2
    <2> HIDE DEF m
    <2> QED
      BY <2>1, MessageBytes
  <1>4. wire \in Seq(Byte) /\ sent \in Seq(Message)
    BY <1>1 DEF FramingTypeOK
  <1>5. wire' = wire \o s
    <2> DEFINE h == Header(m, size, HeaderLength)
               d == Body(m, size)
    <2>1. wire' = (wire \o h) \o d
      BY <1>2 DEF WriteMessage
    <2>2. s = h \o d
      BY DEF MessageText
    <2>3. h \in Seq(Byte) /\ d \in Seq(Byte) /\ wire \in Seq(Byte)
      BY <1>3, <1>4
    <2> HIDE DEF h, d, s
    <2>4. (wire \o h) \o d = wire \o (h \o d)
      BY <2>3, ConcatAssociative
    <2> QED
      BY <2>1, <2>2, <2>4
  <1> HIDE DEF s
  <1>6. /\ wire' \in Seq(Byte) /\ Len(wire') = Len(wire) + Len(s)
        /\ \A i \in 1..Len(wire) + Len(s) :
            wire'[i] = IF i <= Len(wire) THEN wire[i] ELSE s[i - Len(wire)]
    BY <1>3, <1>4, <1>5, ConcatProperties
  <1>7. sent' = Append(sent, new) /\ new \in Message
    BY <1>2 DEF WriteMessage
  <1>8. /\ sent' \in Seq(Message) /\ Len(sent') = Len(sent) + 1
        /\ \A i \in 1..Len(sent) : sent'[i] = sent[i]
        /\ sent'[Len(sent) + 1] = new
    <2> HIDE DEF new, Message
    <2> QED
      BY <1>4, <1>7, AppendProperties
  <1>9. UNCHANGED <<async, up, connections, bufferVars, reader, result, delivered>>
    BY DEF WriteMessage
  <1>10. FramingTypeOK' /\ WithinBuffer'
    BY <1>1, <1>2, <1>6, <1>8, <1>9 DEF FramingTypeOK, WithinBuffer, bufferVars
  <1>11. RunIs /\ RunIs'
    BY <1>1, <1>10, RunBytes, RunBytesNext
  <1>12. /\ Have' = Have /\ Have \in Nat /\ Len(wire) \in Nat
         /\ Run \in Seq(Bytes) /\ Run' \in Seq(Bytes)
         /\ Len(Run) = Have + Len(wire) /\ Len(Run') = Have + (Len(wire) + Len(s))
         /\ inbound_header' = inbound_header /\ inbound_data' = inbound_data
    BY <1>1, <1>6, <1>9, <1>11, Types DEF RunIs, Have, bufferVars
  <1>13. Len(Run') = Len(Run) + Len(s)
    BY <1>2, <1>3, <1>12
  <1>14. ASSUME NEW i \in 1..Len(Run')
         PROVE  Run'[i] = IF i <= Len(Run) THEN Run[i] ELSE s[i - Len(Run)]
    <2>1. i \in Nat /\ i \in 1..Have + (Len(wire) + Len(s)) /\ Len(s) \in Nat
      BY <1>2, <1>3, <1>12
    <2>2. Run'[i] = ByteAt(i)'
      BY <1>6, <1>11, <1>12, <2>1 DEF RunIs
    <2>3. CASE i <= Have
      <3>1. i <= Len(Run) /\ i \in 1..Have + Len(wire) /\ ~(i > Have)
        BY <1>12, <2>1, <2>3
      <3>2. Run[i] = ByteAt(i)
        BY <1>11, <3>1 DEF RunIs
      <3> QED
        BY <1>12, <2>2, <3>1, <3>2 DEF ByteAt
    <2>4. CASE i > Have /\ i <= Len(Run)
      <3>1. /\ i - Have \in 1..Len(wire) + Len(s) /\ i - Have <= Len(wire)
            /\ i \in 1..Have + Len(wire)
        BY <1>12, <2>1, <2>4
      <3>2. Run[i] = wire[i - Have]
        BY <1>11, <2>4, <3>1 DEF RunIs, ByteAt
      <3>3. Run'[i] = wire'[i - Have]
        BY <1>12, <2>2, <2>4 DEF ByteAt
      <3> QED
        BY <1>6, <2>4, <3>1, <3>2, <3>3
    <2>5. CASE ~(i <= Len(Run))
      <3>1. /\ i > Have /\ i - Have \in 1..Len(wire) + Len(s) /\ ~(i - Have <= Len(wire))
            /\ (i - Have) - Len(wire) = i - Len(Run)
        BY <1>12, <2>1, <2>5
      <3>2. Run'[i] = wire'[i - Have]
        BY <1>12, <2>2, <3>1 DEF ByteAt
      <3> QED
        BY <1>6, <2>5, <3>1, <3>2
    <2> QED
      BY <1>12, <2>1, <2>3, <2>4, <2>5
  <1>15. /\ \A i \in 1..Len(Run) : Run[i].msg \in Nat /\ Run[i].msg < m
         /\ Len(Run) > 0 => /\ Run[Len(Run)].msg + 1 = m
                            /\ Before(Run[Len(Run)]) = Total(Run[Len(Run)]) - 1
    <2>1. \A i \in 1..Len(Run) : Run[i].msg \in Nat /\ Run[i].msg < m
      BY <1>2, NewestMessage
    <2> QED
      BY <1>1, <1>2, <1>12, <2>1 DEF InStep
  <1>16. InBlocks(Run')
    BY <1>1, <1>2, <1>3, <1>12, <1>13, <1>14, <1>15, BlocksAppended
  <1>17. InStep(Run)'
    <2>1. Len(Run) \in Nat /\ Len(Run') = Len(Run) + (HeaderLength + size)
      BY <1>3, <1>12, <1>13
    <2>2. Len(sent') - written' = Len(sent) - written
      BY <1>2, <1>8
    <2>3. ASSUME NEW i \in 1..Len(Run')
          PROVE  /\ Len(sent') - written' + Run'[i].msg \in Len(delivered) + 1..Len(sent')
                 /\ sent'[Len(sent') - written' + Run'[i].msg]
                        = [msg |-> Run'[i].msg, size |-> Run'[i].size]
      <3>1. CASE i <= Len(Run)
        <4>1. i \in 1..Len(Run) /\ Run'[i] = Run[i]
          BY <1>14, <2>1, <3>1
        <4>2. /\ Place(Run[i].msg) \in Len(delivered) + 1..Len(sent)
              /\ sent[Place(Run[i].msg)] = [msg |-> Run[i].msg, size |-> Run[i].size]
          BY <1>1, <4>1 DEF InStep
        <4>3. Len(sent') - written' + Run'[i].msg = Place(Run[i].msg)
          BY <2>2, <4>1 DEF Place
        <4>4. /\ Place(Run[i].msg) \in 1..Len(sent)
              /\ Place(Run[i].msg) \in Len(delivered) + 1..Len(sent')
          BY <1>2, <1>8, <4>2
        <4> QED
          BY <1>8, <4>1, <4>2, <4>3, <4>4
      <3>2. CASE ~(i <= Len(Run))
        <4>1. i - Len(Run) \in 1..HeaderLength + size
          BY <1>2, <2>1, <3>2
        <4>2. Run'[i].msg = m /\ Run'[i].size = size
          BY <1>3, <1>14, <3>2, <4>1
        <4>3. /\ Len(sent') - written' + m = Len(sent) + 1
              /\ Len(sent) + 1 \in Len(delivered) + 1..Len(sent')
          <5>1. Len(delivered) <= Len(sent)
            BY <1>1 DEF Prefix
          <5> QED
            BY <1>2, <1>8, <5>1
        <4>4. sent'[Len(sent) + 1] = [msg |-> m, size |-> size]
          BY <1>8
        <4> HIDE DEF m
        <4> QED
          BY <4>2, <4>3, <4>4
      <3> QED
        BY <3>1, <3>2
    <2>4. Len(Run') > 0 => /\ Before(Run'[1]) = 0
                           /\ Len(sent') - written' + Run'[1].msg = Len(delivered) + 1
      <3>1. CASE Len(Run) > 0
        <4>1. 1 \in 1..Len(Run') /\ 1 <= Len(Run)
          BY <1>2, <2>1, <3>1
        <4>2. Run'[1] = Run[1]
          BY <1>14, <4>1
        <4>3. Before(Run[1]) = 0 /\ Place(Run[1].msg) = Len(delivered) + 1
          BY <1>1, <3>1 DEF InStep
        <4> QED
          BY <2>2, <4>2, <4>3 DEF Place
      <3>2. CASE Len(Run) = 0
        <4>1. Len(delivered) = Len(sent)
          BY <1>1, <1>2, <3>2 DEF InStep
        <4>2. 1 \in 1..Len(Run') /\ ~(1 <= Len(Run)) /\ 1 - Len(Run) = 1
              /\ 1 \in 1..HeaderLength + size /\ 1 - 1 = 0
          BY <1>2, <2>1, <3>2
        <4>3. Run'[1] = s[1]
          BY <1>14, <4>2
        <4>4. Before(Run'[1]) = 0 /\ Run'[1].msg = m
          BY <1>3, <4>2, <4>3
        <4>5. Len(sent') - written' + m = Len(delivered) + 1
          BY <1>2, <1>8, <4>1
        <4> QED
          BY <4>4, <4>5
      <3> QED
        BY <2>1, <3>1, <3>2
    <2>5. /\ Len(Run') # 0
          /\ Run'[Len(Run')].msg = m /\ Before(Run'[Len(Run')]) = Total(Run'[Len(Run')]) - 1
      <3>1. /\ Len(Run') \in 1..Len(Run') /\ ~(Len(Run') <= Len(Run))
            /\ Len(Run') - Len(Run) = HeaderLength + size
            /\ HeaderLength + size \in 1..HeaderLength + size
        BY <1>2, <2>1
      <3>2. Run'[Len(Run')] = s[HeaderLength + size]
        BY <1>14, <3>1
      <3> QED
        BY <1>2, <1>3, <3>1, <3>2 DEF Total
    <2>6. delivered' = delivered /\ written' = m
      BY <1>2, <1>9
    <2> HIDE DEF m
    <2> QED
      BY <2>3, <2>4, <2>5, <2>6 DEF InStep, Place
  <1>18. Prefix'
    BY <1>1, <1>2, <1>8, <1>9 DEF Prefix
  <1>19. SubSeq(sent', 1, Len(sent)) = sent
    <2> HIDE DEF new, Message
    <2>1. \A i \in 1..Len(sent) : sent'[i] \in Message
      BY <1>4, <1>8, ElementOfSeq
    <2>2. Len(sent) <= Len(sent')
      BY <1>2, <1>8
    <2>3. /\ SubSeq(sent', 1, Len(sent)) \in Seq(Message)
          /\ Len(SubSeq(sent', 1, Len(sent))) = Len(sent)
          /\ \A i \in 1..Len(sent) : SubSeq(sent', 1, Len(sent))[i] = sent'[i]
      BY <1>2, <1>8, <2>1, <2>2, SubSeqProperties
    <2> QED
      BY <1>4, <1>8, <2>3, SeqEqual
  <1> QED
    BY <1>8, <1>9, <1>10, <1>16, <1>17, <1>18, <1>19 DEF FramingInv

LEMMA BodyReadHolds ==
    ASSUME FramingInv, BodyRead
    PROVE  /\ FramingInv' /\ sent' = sent /\ Len(delivered) < Len(sent)
           /\ delivered' = Append(delivered, sent[Len(delivered) + 1])
  <1>1. FramingTypeOK /\ WithinBuffer /\ InBlocks(Run) /\ InStep(Run) /\ Prefix
    BY DEF FramingInv
  <1>2. reader = "body" /\ got = Len(inbound_data) /\ reader' = "idle" /\ result' = "ok"
        /\ delivered' = Append(delivered, Decoded(inbound_data))
        /\ UNCHANGED <<async, up, connections, written, wire, bufferVars, sent>>
    BY DEF BodyRead
  <1> DEFINE a == Run[1]
             n == HeaderLength + a.size
             Message == [msg : 1..MaxMessages, size : Sizes]
  <1>3. /\ Len(Run) = n + Len(wire) /\ Len(Run) > 0 /\ a.size \in Nat /\ a.size >= 1
        /\ \A i \in 1..Len(wire) : wire[i] = Run[i + n]
        /\ delivered' = Append(delivered, sent[Len(delivered) + 1])
    BY <1>2, BodyIsWhole
  <1>4. /\ a \in Byte /\ Before(a) = 0 /\ Place(a.msg) = Len(delivered) + 1
        /\ Len(delivered) < Len(sent)
    BY <1>3, OldestMessage
  <1>5. /\ HeaderLength \in Nat /\ HeaderLength >= 1 /\ Len(wire) \in Nat
        /\ Len(sent) \in Nat /\ Len(delivered) \in Nat /\ written \in Nat /\ n \in Nat /\ n >= 1
        /\ a.msg \in Nat /\ Total(a) = n
    <2>1. /\ HeaderLength \in Nat /\ HeaderLength >= 1 /\ Len(wire) \in Nat
          /\ Len(sent) \in Nat /\ Len(delivered) \in Nat /\ written \in Nat
      BY <1>1, Types
    <2>2. a.msg \in Nat
      BY <1>4, ByteNumbers
    <2>3. Total(a) = n
      BY DEF Total
    <2>4. n \in Nat /\ n >= 1
      <3>1. a.size \in Nat
        BY <1>3
      <3> HIDE DEF a
      <3> QED
        BY <2>1, <3>1
    <2> HIDE DEF a, n
    <2> QED
      BY <2>1, <2>2, <2>3, <2>4
  <1>6. /\ delivered \in Seq(Message) /\ sent \in Seq(Message)
        /\ sent[Len(delivered) + 1] \in Message
    <2>1. delivered \in Seq(Message) /\ sent \in Seq(Message)
      BY <1>1 DEF FramingTypeOK
    <2>2. Len(delivered) + 1 \in 1..Len(sent)
      BY <1>4, <1>5
    <2> HIDE DEF Message
    <2> QED
      BY <2>1, <2>2, ElementOfSeq
  <1>7. /\ delivered' \in Seq(Message) /\ Len(delivered') = Len(delivered) + 1
        /\ \A i \in 1..Len(delivered) : delivered'[i] = delivered[i]
        /\ delivered'[Len(delivered) + 1] = sent[Len(delivered) + 1]
    <2> HIDE DEF Message
    <2> QED
      BY <1>3, <1>6, AppendProperties
  <1>8. FramingTypeOK' /\ WithinBuffer'
    BY <1>1, <1>2, <1>7 DEF FramingTypeOK, WithinBuffer, bufferVars
  <1>9. /\ Run \in Seq(Bytes) /\ Run' \in Seq(Bytes) /\ Len(Run') = Len(wire)
        /\ \A i \in 1..Len(wire) : Run'[i] = wire[i]
    <2>1. RunIs /\ RunIs'
      BY <1>1, <1>8, RunBytes, RunBytesNext
    <2>2. Have' = 0 /\ wire' = wire
      BY <1>2 DEF Have
    <2>3. Run \in Seq(Bytes) /\ Run' \in Seq(Bytes) /\ Len(Run') = Len(wire)
      BY <1>5, <2>1, <2>2 DEF RunIs
    <2>4. ASSUME NEW i \in 1..Len(wire) PROVE Run'[i] = wire[i]
      <3>1. i \in 1..0 + Len(wire) /\ i > 0 /\ i - 0 = i
        BY <1>5
      <3>2. Run'[i] = ByteAt(i)'
        BY <2>1, <2>2, <3>1 DEF RunIs
      <3> QED
        BY <2>2, <3>1, <3>2 DEF ByteAt
    <2> QED
      BY <2>3, <2>4
  <1>10. \A i \in 1..Len(Run') : Run'[i] = Run[i + n]
    BY <1>3, <1>9
  <1> HIDE DEF n
  <1>11. InBlocks(Run')
    <2>1. Len(Run) = Len(Run') + n
      BY <1>3, <1>5, <1>9
    <2> QED
      BY <1>1, <1>5, <1>9, <1>10, <2>1, BlocksDropped
  \* What follows is the next message.
  <1>12. ASSUME NEW i \in 1..Len(Run')
         PROVE  /\ Run'[i].msg \in Nat /\ Run'[i].msg >= a.msg + 1 /\ i + n \in 1..Len(Run)
                /\ Run'[1].msg = a.msg + 1 /\ Before(Run'[1]) = 0
    <2>1. /\ 1 \in 1..Len(Run) /\ 1 + n \in 1..Len(Run) /\ i + n \in 1..Len(Run) /\ 1 <= 1 + n
          /\ 1 + n <= i + n /\ 1 \in 1..Len(Run') /\ 0 + ((1 + n) - 1) = n
      BY <1>3, <1>5, <1>9
    <2>2. Run'[1] = Run[1 + n] /\ Run'[i] = Run[i + n]
      BY <1>10, <2>1
    <2>3. Run[1 + n].msg = a.msg + 1 /\ Before(Run[1 + n]) = 0
      BY <1>1, <1>4, <1>5, <2>1 DEF InBlocks, NextMessage
    <2>4. Run[1 + n].msg <= Run[i + n].msg
      BY <1>1, <2>1 DEF InBlocks, Ordered
    <2>5. Run[i + n].msg \in Nat
      BY <2>1, NewestMessage
    <2> QED
      BY <1>5, <2>1, <2>2, <2>3, <2>4, <2>5
  <1>13. InStep(Run)'
    <2>1. ASSUME NEW i \in 1..Len(Run')
          PROVE  /\ Len(sent) - written + Run'[i].msg \in (Len(delivered) + 1) + 1..Len(sent)
                 /\ sent[Len(sent) - written + Run'[i].msg]
                        = [msg |-> Run'[i].msg, size |-> Run'[i].size]
      <3>1. i + n \in 1..Len(Run) /\ Run'[i] = Run[i + n]
        BY <1>10, <1>12
      <3>2. /\ Len(sent) - written + Run'[i].msg \in Len(delivered) + 1..Len(sent)
            /\ sent[Len(sent) - written + Run'[i].msg]
                 = [msg |-> Run'[i].msg, size |-> Run'[i].size]
        BY <1>1, <3>1 DEF InStep, Place
      <3>3. Len(sent) - written + a.msg = Len(delivered) + 1
        BY <1>4 DEF Place
      <3>4. Run'[i].msg \in Nat /\ Run'[i].msg >= a.msg + 1
        BY <1>12
      <3>5. Len(sent) - written + Run'[i].msg \in (Len(delivered) + 1) + 1..Len(sent)
        <4> DEFINE x == Run'[i].msg
                   y == a.msg
        <4>1. /\ x \in Nat /\ y \in Nat /\ x >= y + 1 /\ Len(sent) \in Nat /\ written \in Nat
              /\ Len(delivered) \in Nat /\ Len(sent) - written + y = Len(delivered) + 1
              /\ Len(sent) - written + x \in Len(delivered) + 1..Len(sent)
          BY <1>5, <3>2, <3>3, <3>4
        <4> HIDE DEF x, y
        <4>2. Len(sent) - written + x \in (Len(delivered) + 1) + 1..Len(sent)
          BY <4>1
        <4> QED
          BY <4>2 DEF x
      <3> QED
        BY <3>2, <3>5
    <2>2. Len(Run') > 0 => /\ Before(Run'[1]) = 0
                           /\ Len(sent) - written + Run'[1].msg = (Len(delivered) + 1) + 1
      <3> SUFFICES ASSUME Len(Run') > 0
                   PROVE  /\ Before(Run'[1]) = 0
                          /\ Len(sent) - written + Run'[1].msg = (Len(delivered) + 1) + 1
        OBVIOUS
      <3>1. 1 \in 1..Len(Run')
        BY <1>5, <1>9
      <3>2. Run'[1].msg = a.msg + 1 /\ Before(Run'[1]) = 0
        BY <1>12, <3>1
      <3>3. Len(sent) - written + a.msg = Len(delivered) + 1
        BY <1>4 DEF Place
      <3> QED
        BY <1>5, <3>2, <3>3
    <2>3. up => IF Len(Run') = 0 THEN Len(delivered) + 1 = Len(sent)
                ELSE /\ Run'[Len(Run')].msg = written
                     /\ Before(Run'[Len(Run')]) = Total(Run'[Len(Run')]) - 1
      <3> SUFFICES ASSUME up
                   PROVE  IF Len(Run') = 0 THEN Len(delivered) + 1 = Len(sent)
                          ELSE /\ Run'[Len(Run')].msg = written
                               /\ Before(Run'[Len(Run')]) = Total(Run'[Len(Run')]) - 1
        OBVIOUS
      <3>1. Run[Len(Run)].msg = written /\ Before(Run[Len(Run)]) = Total(Run[Len(Run)]) - 1
        BY <1>1, <1>3 DEF InStep
      <3>2. CASE Len(Run') = 0
        <4>1. Len(Run) = n /\ 1 \in 1..Len(Run) /\ n \in 1..Len(Run) /\ 1 <= n
              /\ 0 + (n - 1) < n
          BY <1>3, <1>5, <1>9, <3>2
        <4>2. Run[n].msg = a.msg
          BY <1>1, <1>4, <1>5, <4>1 DEF InBlocks, SameMessage
        <4>3. Len(sent) - written + a.msg = Len(delivered) + 1 /\ a.msg = written
          BY <1>4, <3>1, <4>1, <4>2 DEF Place
        <4> QED
          BY <1>5, <3>2, <4>3
      <3>3. CASE Len(Run') # 0
        <4>1. Len(Run') \in 1..Len(Run') /\ Len(Run') + n = Len(Run)
          BY <1>3, <1>5, <1>9, <3>3
        <4>2. Run'[Len(Run')] = Run[Len(Run)]
          BY <1>10, <4>1
        <4> QED
          BY <3>1, <3>3, <4>2
      <3> QED
        BY <3>2, <3>3
    <2>4. up' = up /\ sent' = sent /\ written' = written
      BY <1>2
    <2> HIDE DEF a
    <2> QED
      BY <1>7, <2>1, <2>2, <2>3, <2>4 DEF InStep, Place
  <1>14. Prefix'
    BY <1>1, <1>2, <1>4, <1>5, <1>7 DEF Prefix
  <1> QED
    BY <1>2, <1>3, <1>4, <1>8, <1>11, <1>13, <1>14 DEF FramingInv

-----------------------------------------------------------------------------
(* The theorems.                                                           *)

LEMMA StepHolds ==
    ASSUME FramingInv, [FramingNext]_framingVars
    PROVE  FramingInv' /\ [Channel!Next]_<<sent, delivered>>
  <1> USE DEF Channel!Next
  <1>1. ASSUME NEW size \in Sizes, WriteMessage(size)
        PROVE  FramingInv' /\ [Channel!Next]_<<sent, delivered>>
    BY <1>1, WriteMessageHolds DEF Channel!Send
  <1>2. ASSUME NEW size \in Sizes, WriteRefused(size)
        PROVE  FramingInv' /\ [Channel!Next]_<<sent, delivered>>
    BY <1>2, WriteRefusedHolds DEF WriteRefused
  <1>3. CASE Cut
    BY <1>3, CutHolds DEF Cut
  <1>4. CASE StartRead
    BY <1>4, StartReadHolds DEF StartRead
  <1>5. CASE ReadHeaderByte
    BY <1>5, ReadHeaderByteHolds DEF ReadHeaderByte
  <1>6. CASE HeaderRead
    BY <1>6, HeaderReadHolds
  <1>7. CASE HeaderFails \/ BodyFails
    BY <1>7, ReadFailsHolds DEF HeaderFails, BodyFails
  <1>8. CASE ReadBodyByte
    BY <1>8, ReadBodyByteHolds DEF ReadBodyByte
  <1>9. CASE BodyRead
    BY <1>9, BodyReadHolds DEF Channel!Deliver
  <1>10. CASE Reconnect
    BY <1>10, ReconnectHolds DEF Reconnect, Channel!Lose
  <1>11. CASE UNCHANGED framingVars
    <2>1. FramingTypeOK' /\ WithinBuffer'
      BY <1>11 DEF FramingInv, FramingTypeOK, WithinBuffer, framingVars, bufferVars
    <2>2. RunIs /\ RunIs'
      BY <2>1, RunBytes, RunBytesNext DEF FramingInv
    <2>3. Len(Run') = Len(Run) /\ \A i \in 1..Len(Run') : Run'[i] = Run[i]
      BY <1>11, <2>2 DEF RunIs, Have, ByteAt, framingVars, bufferVars
    <2>4. Len(Run') <= Len(Run)
      BY <2>2, <2>3 DEF RunIs
    <2> QED
      BY <1>11, <2>1, <2>3, <2>4, RunKept DEF framingVars
  <1> QED
    BY <1>1, <1>2, <1>3, <1>4, <1>5, <1>6, <1>7, <1>8, <1>9, <1>10, <1>11
       DEF FramingNext, ReaderStep

\* The inductive invariant of one direction of a connection.
THEOREM FramingInvariance == FramingSpec => []FramingInv
  <1>1. FramingInit => FramingInv
    BY InitHolds
  <1>2. FramingInv /\ [FramingNext]_framingVars => FramingInv'
    BY StepHolds
  <1> QED
    BY <1>1, <1>2, PTL DEF FramingSpec

\* No variable leaves its type: in particular a read returns a message that was written,
\* and never what another mixture of bytes decodes to, and the header that is no number is
\* never met.
THEOREM FramingTypeCorrect == FramingSpec => []FramingTypeOK
  <1>1. FramingInv => FramingTypeOK
    BY DEF FramingInv
  <1> QED
    BY <1>1, FramingInvariance, PTL

\* The reader never loses the boundaries of the messages.
THEOREM BoundariesKept == FramingSpec => []Aligned
  <1>1. ASSUME FramingInv PROVE Aligned
    <2>1. /\ Run \in Seq(Bytes) /\ Len(Run) \in Nat /\ InBlocks(Run) /\ InStep(Run) /\ Prefix
          /\ HeaderLength \in Nat /\ HeaderLength >= 1
          /\ Len(sent) \in Nat /\ Len(delivered) \in Nat /\ written \in Nat
      <3>1. FramingTypeOK /\ WithinBuffer /\ InBlocks(Run) /\ InStep(Run) /\ Prefix
        BY <1>1 DEF FramingInv
      <3>2. Run \in Seq(Bytes)
        BY <3>1, RunBytes DEF RunIs
      <3> QED
        BY <3>1, <3>2, Types
    <2>2. ASSUME NEW i \in 1..Len(Run) - 1 PROVE Follows(Run[i], Run[i + 1])
      <3> DEFINE a == Run[i]
                 b == Run[i + 1]
      <3> SUFFICES Follows(a, b)
        OBVIOUS
      <3>1. i \in 1..Len(Run) /\ i + 1 \in 1..Len(Run) /\ i <= i + 1 /\ (i + 1) - i = 1
        BY <2>1
      <3>2. /\ a \in Byte /\ Before(a) < Total(a) /\ (a.part = "header" => a.pos <= HeaderLength)
            /\ b \in Byte /\ (b.part = "header" => b.pos <= HeaderLength)
        BY <2>1, <3>1 DEF InBlocks, Formed
      <3>3. /\ a.part \in {"header", "body"} /\ b.part \in {"header", "body"}
            /\ a.pos \in Nat /\ b.pos \in Nat /\ a.pos >= 1 /\ b.pos >= 1
            /\ a.size \in Nat /\ a.size >= 1
            /\ Before(a) \in Nat /\ Total(a) \in Nat
        BY <3>2, ByteNumbers
      <3>4. CASE Before(a) + 1 < Total(a)
        <4>1. b.msg = a.msg /\ b.size = a.size /\ Before(b) = Before(a) + 1
          BY <2>1, <3>1, <3>4 DEF InBlocks, SameMessage
        <4> HIDE DEF a, b
        <4>6. /\ HeaderLength \in Nat /\ a.pos \in Nat /\ b.pos \in Nat
              /\ a.pos >= 1 /\ b.pos >= 1
          BY <2>1, <3>3
        <4>2. CASE a.part = "header" /\ b.part = "header"
          <5>1. b.pos - 1 = (a.pos - 1) + 1
            BY <4>1, <4>2 DEF Before
          <5>2. b.pos = a.pos + 1
            BY <4>6, <5>1
          <5> QED
            BY <4>1, <4>2, <5>2 DEF Follows
        <4>3. CASE a.part = "header" /\ b.part = "body"
          <5>1. HeaderLength + b.pos - 1 = (a.pos - 1) + 1 /\ a.pos <= HeaderLength
            BY <3>2, <4>1, <4>3 DEF Before
          <5>2. b.pos = 1 /\ a.pos = HeaderLength
            BY <4>6, <5>1
          <5> QED
            BY <4>1, <4>3, <5>2 DEF Follows
        <4>4. CASE a.part = "body" /\ b.part = "header"
          <5>1. b.pos - 1 = (HeaderLength + a.pos - 1) + 1 /\ b.pos <= HeaderLength
            BY <3>2, <4>1, <4>4 DEF Before
          <5> QED
            BY <4>6, <5>1
        <4>5. CASE a.part = "body" /\ b.part = "body"
          <5>1. HeaderLength + b.pos - 1 = (HeaderLength + a.pos - 1) + 1
            BY <4>1, <4>5 DEF Before
          <5>2. b.pos = a.pos + 1
            BY <4>6, <5>1
          <5> QED
            BY <4>1, <4>5, <5>2 DEF Follows
        <4> QED
          BY <3>3, <4>2, <4>3, <4>4, <4>5
      <3>5. CASE Before(a) + 1 = Total(a)
        <4>1. b.msg = a.msg + 1 /\ Before(b) = 0
          BY <2>1, <3>1, <3>5 DEF InBlocks, NextMessage
        <4> HIDE DEF a, b
        <4>2. b.part = "header" /\ b.pos = 1
          BY <2>1, <3>3, <4>1 DEF Before
        <4>3. a.part = "body" /\ a.pos = a.size
          <5>1. CASE a.part = "header"
            <6>1. (a.pos - 1) + 1 = HeaderLength + a.size /\ a.pos <= HeaderLength
              BY <3>2, <3>5, <5>1 DEF Before, Total
            <6> QED
              BY <2>1, <3>3, <6>1
          <5>2. CASE a.part = "body"
            <6>1. (HeaderLength + a.pos - 1) + 1 = HeaderLength + a.size
              BY <3>5, <5>2 DEF Before, Total
            <6>2. a.pos = a.size
              BY <2>1, <3>3, <6>1
            <6> QED
              BY <5>2, <6>2
          <5> QED
            BY <3>3, <5>1, <5>2
        <4> QED
          BY <4>1, <4>2, <4>3 DEF Follows
      <3> HIDE DEF a, b
      <3>6. Before(a) + 1 < Total(a) \/ Before(a) + 1 = Total(a)
        BY <3>2, <3>3
      <3> QED
        BY <3>4, <3>5, <3>6 DEF a, b
    <2>3. ASSUME NEW b \in Byte PROVE Before(b) = 0 => b.part = "header" /\ b.pos = 1
      BY <2>1, ByteNumbers DEF Before
    <2>4. ASSUME Run # <<>>
          PROVE  /\ Run[1].part = "header" /\ Run[1].pos = 1
                 /\ Len(delivered) < Len(sent)
                 /\ sent[Len(delivered) + 1] = [msg |-> Run[1].msg, size |-> Run[1].size]
      <3>1. Len(Run) > 0
        BY <2>1, <2>4, EmptySeq
      <3>2. /\ Run[1] \in Byte /\ Before(Run[1]) = 0 /\ Len(delivered) < Len(sent)
            /\ sent[Len(delivered) + 1] = [msg |-> Run[1].msg, size |-> Run[1].size]
        BY <1>1, <3>1, OldestMessage
      <3> QED
        BY <2>3, <3>2
    <2>5. ASSUME up, Run = <<>> PROVE delivered = sent
      <3>1. Len(Run) = 0
        BY <2>5, EmptySeq
      <3>2. Len(delivered) = Len(sent)
        BY <2>1, <2>5, <3>1 DEF InStep
      <3>3. delivered \in Seq([msg : 1..MaxMessages, size : Sizes])
            /\ sent \in Seq([msg : 1..MaxMessages, size : Sizes])
        BY <1>1 DEF FramingInv, FramingTypeOK
      <3>4. \A i \in 1..Len(delivered) : delivered[i] = sent[i]
        BY <2>1 DEF Prefix
      <3> QED
        BY <3>2, <3>3, <3>4, SeqEqual
    <2>6. ASSUME up, Run # <<>>
          PROVE  /\ Run[Len(Run)].part = "body" /\ Run[Len(Run)].pos = Run[Len(Run)].size
                 /\ sent[Len(sent)] = [msg |-> Run[Len(Run)].msg, size |-> Run[Len(Run)].size]
      <3> DEFINE b == Run[Len(Run)]
      <3>1. Len(Run) # 0 /\ Len(Run) \in 1..Len(Run)
        BY <2>1, <2>6, EmptySeq
      <3>2. b.msg = written /\ Before(b) = Total(b) - 1
        BY <2>1, <2>6, <3>1 DEF InStep
      <3>3. b \in Byte /\ (b.part = "header" => b.pos <= HeaderLength)
            /\ sent[Place(b.msg)] = [msg |-> b.msg, size |-> b.size]
        BY <2>1, <3>1 DEF InBlocks, Formed, InStep
      <3> HIDE DEF b
      <3>4. b.size \in Nat /\ b.size >= 1 /\ b.pos \in Nat /\ b.part \in {"header", "body"}
        BY <3>3, ByteNumbers
      <3>5. b.part = "body" /\ b.pos = b.size
        <4>1. CASE b.part = "header"
          <5>1. b.pos - 1 = HeaderLength + b.size - 1 /\ b.pos <= HeaderLength
            BY <2>1, <3>2, <3>3, <3>4, <4>1 DEF Before, Total
          <5> QED
            BY <2>1, <3>4, <5>1
        <4>2. CASE b.part = "body"
          <5>1. HeaderLength + b.pos - 1 = HeaderLength + b.size - 1
            BY <2>1, <3>2, <3>4, <4>2 DEF Before, Total
          <5>2. b.pos = b.size
            BY <2>1, <3>4, <5>1
          <5> QED
            BY <4>2, <5>2
        <4> QED
          BY <3>4, <4>1, <4>2
      <3>6. Place(b.msg) = Len(sent)
        BY <2>1, <3>2 DEF Place
      <3> QED
        BY <3>3, <3>5, <3>6 DEF b
    <2> QED
      BY <2>2, <2>4, <2>5, <2>6 DEF Aligned, Run
  <1> QED
    BY <1>1, FramingInvariance, PTL

\* One direction of a Connection_base is a channel of whole messages.
THEOREM ConnectionIsChannel == FramingSpec => ImplementsChannel
  <1>1. FramingInit => Channel!Init
    BY DEF FramingInit, Channel!Init
  <1>2. FramingInv /\ [FramingNext]_framingVars => [Channel!Next]_<<sent, delivered>>
    BY StepHolds
  <1> QED
    BY <1>1, <1>2, FramingInvariance, PTL DEF FramingSpec, ImplementsChannel, Channel!Spec
=============================================================================
