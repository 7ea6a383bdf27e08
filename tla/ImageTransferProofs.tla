------------------------ MODULE ImageTransferProofs ------------------------
(***************************************************************************)
(* Lemmas about ImageTransfer: whatever a worker does with the transfer,   *)
(* its state keeps its types, and what the client has and what is on the   *)
(* wire are bytes of the file the server opened.  WorkerNodeProofs has the *)
(* theorems.                                                               *)
(***************************************************************************)
EXTENDS ImageTransfer, SequenceTheorems, TLAPS

-----------------------------------------------------------------------------
(* What a worker does with the transfer.                                    *)

\* It asks for the image.
Ask ==
  /\ cli.pc = "idle"
  /\ cli' = [Idle EXCEPT !.pc = "ask"]
  /\ UNCHANGED <<masterImage, srv, wire, got, events>>

\* It ends, and its call with it.
Leave == Return /\ UNCHANGED <<masterImage, got, events>>

\* It does something else.
Elsewhere == UNCHANGED imageVars /\ events' \in events .. MaxEvents

ImageStep ==
  \/ Upload \/ Answer \/ Serve \/ Client
  \/ RecvEof \/ CallBreaks \/ Received
  \/ Ask \/ Leave \/ Elsewhere

-----------------------------------------------------------------------------
(* The inductive invariant.                                                 *)

\* Who is in a call: only the server that serves the client sends to it.
CallInv ==
  /\ srv.client => cli.pc # "idle"
  /\ cli.pc = "recv" => srv.client
  /\ ~srv.client => \A j \in 1 .. Len(wire) : wire[j].kind = "eof"
  /\ cli.pc = "idle" => wire = <<>>

\* The server of a call that no upload has disturbed reads what it opened.
CleanInv ==
  /\ srv.size = Len(srv.opened)
  /\ disk = srv.opened
  /\ upload.pc = "copy" => Len(disk) = upload.size
  /\ srv.done <= srv.size

\* The place in the file of the frame at j, if it is a chunk and the client is
\* at pc and has that many bytes.
Offset(j, pc, bytes) == IF pc = "ask" THEN Chunk * (j - 2) ELSE bytes + Chunk * (j - 1)

\* The bytes b are those of the file f from offset o on, as far as it goes.
Matches(b, o, f) ==
  \A i \in 1 .. Len(b) : o + i <= Len(f) => b[i] = f[o + i]

\* What is on the wire: the details, chunks at their offsets, the end.
WireInv ==
  /\ cli.pc = "ask" => wire # <<>>
  /\ \A j \in 1 .. Len(wire) :
       /\ wire[j].kind = "details" <=> j = 1 /\ cli.pc = "ask"
       /\ wire[j].kind = "details" => wire[j].size = Int32(srv.size)
       /\ wire[j].kind = "eof" => j = Len(wire) /\ srv.pc = "off"
       /\ wire[j].kind = "chunk" =>
            /\ Len(wire[j].data) = Chunk
            /\ Matches(wire[j].data, Offset(j, cli.pc, Len(got)), srv.opened)
  /\ srv.pc = "serve" =>
       IF srv.done < srv.size
         THEN Offset(Len(wire) + 1, cli.pc, Len(got)) = srv.done
         ELSE Offset(Len(wire) + 1, cli.pc, Len(got)) >= srv.size

\* What the client has, and how much it believes to have.
ClientInv ==
  cli.pc = "recv" =>
    /\ cli.size = Int32(srv.size)
    /\ Matches(got, 0, srv.opened)
    /\ Countable(srv.size) => cli.done = Len(got) /\ Len(got) < srv.size + Chunk

TransferInv ==
  /\ CallInv
  /\ srv.client /\ srv.clean /\ cli.whole => CleanInv /\ WireInv /\ ClientInv

-----------------------------------------------------------------------------
(* Arithmetic and sequences.                                                *)

\* A number that an int32 holds is not changed.
LEMMA Int32Small == ASSUME NEW x \in Nat, x < Limit PROVE Int32(x) = x
<1>1. x + Limit \in 0 .. 2 * Limit - 1
  BY ImageTransferAssumption
<1>2. \A n, d \in Nat : n < d => n % d = n
  OBVIOUS
<1>3. (x + Limit) % (2 * Limit) = x + Limit
  BY <1>1, <1>2, ImageTransferAssumption
<1> QED
  BY <1>3, ImageTransferAssumption DEF Int32

\* A conversion to an int32 gives a number.
LEMMA Int32Type == ASSUME NEW x \in Int PROVE Int32(x) \in Int
<1>1. x + Limit \in Int /\ 2 * Limit \in Int /\ 2 * Limit > 0
  BY ImageTransferAssumption
<1>2. (x + Limit) % (2 * Limit) \in Int
  BY <1>1
<1> QED
  BY <1>2, ImageTransferAssumption DEF Int32

\* Offsets grow by a chunk.
LEMMA OffsetStep ==
  ASSUME NEW j \in Int
  PROVE  Chunk * (j + 1) = Chunk * j + Chunk /\ Chunk * j \in Int
BY ImageTransferAssumption

\* What RegisterProblem has copied is a file.
LEMMA ImageType ==
  ASSUME NEW v \in 0 .. MaxEvents, NEW n \in Nat
  PROVE  Image(v, n) \in Seq(Byte)
BY DEF Image, Byte

\* A new file, a wire without frames.
LEMMA Empty == \A S : <<>> \in Seq(S) /\ Len(<<>>) = 0
BY EmptySeq

\* What is left when a frame is taken off the wire.
LEMMA WireTail ==
  ASSUME wire \in Seq(Frame), wire # <<>>
  PROVE  /\ Head(wire) \in Frame /\ Head(wire) = wire[1]
         /\ Tail(wire) \in Seq(Frame)
         /\ Len(wire) \in Nat \ {0} /\ Len(Tail(wire)) = Len(wire) - 1
         /\ \A j \in 1 .. Len(Tail(wire)) : Tail(wire)[j] = wire[j + 1]
<1>1. Head(wire) = wire[1]
  OBVIOUS
<1> QED
  BY <1>1, HeadTailProperties, EmptySeq

\* A chunk that is read holds bytes.
LEMMA FilledType ==
  ASSUME ImageTypeOK, NEW k \in Nat, srv.done + k <= Len(disk)
  PROVE  Filled(k) \in [1 .. Chunk -> Byte]
<1>0. /\ disk \in Seq(Byte) /\ srv.done \in Nat
      /\ srv.buf \in [1 .. Chunk -> Byte]
  BY DEF ImageTypeOK
<1>1. ASSUME NEW i \in 1 .. Chunk, i <= k PROVE disk[srv.done + i] \in Byte
  <2>1. Len(disk) \in Nat /\ i \in Nat /\ i > 0
    BY <1>0, ImageTransferAssumption
  <2>2. srv.done + i \in 1 .. Len(disk)
    BY <1>0, <1>1, <2>1
  <2> QED
    BY <1>0, <2>2
<1>2. \A i \in 1 .. Chunk : srv.buf[i] \in Byte
  BY <1>0
<1> QED
  BY <1>1, <1>2 DEF Filled

\* Read returns no more than the buffer holds and the file has.
LEMMA ReadableType ==
  ASSUME ImageTypeOK
  PROVE  /\ Readable \in 0 .. Chunk
         /\ srv.done <= Len(disk) => srv.done + Readable <= Len(disk)
         /\ Readable > 0 => srv.done + Readable <= Len(disk)
<1>1. Len(disk) \in Nat /\ srv.done \in Nat
  BY DEF ImageTypeOK
<1> QED
  BY <1>1, ImageTransferAssumption DEF Readable

LEMMA ChunkFrame ==
  ASSUME NEW b \in [1 .. Chunk -> Byte]
  PROVE  b \in Seq(Byte) /\ Len(b) = Chunk /\ Data(b) \in Frame
<1>1. b \in Seq(Byte) /\ Len(b) = Chunk
  BY ImageTransferAssumption
<1> QED
  BY <1>1 DEF Data, Frame

LEMMA BlankType == Blank \in [1 .. Chunk -> Byte]
BY ImageTransferAssumption DEF Blank, Byte

LEMMA IdleType ==
  /\ Idle \in Clients
  /\ [Idle EXCEPT !.pc = "ask"] \in Clients
<1>1. Idle \in Clients
  BY DEF Idle, Clients
<1> QED
  BY <1>1 DEF Clients

\* An environment step is counted.
LEMMA EventCounts ==
  ASSUME events \in 0 .. MaxEvents, Event
  PROVE  events' \in 0 .. MaxEvents /\ events' \in events .. MaxEvents /\ events' = events + 1
BY ImageTransferAssumption DEF Event

-----------------------------------------------------------------------------
(* Types.                                                                   *)

LEMMA ImageInitType == ImageInit => ImageTypeOK
<1> SUFFICES ASSUME ImageInit PROVE ImageTypeOK
  OBVIOUS
<1>1. Blank \in [1 .. Chunk -> Byte]
  BY BlankType
<1> QED
  BY <1>1, ImageTransferAssumption DEF ImageInit, ImageTypeOK, Idle, Clients

\* However a call ends.
LEMMA ReturnType ==
  ASSUME ImageTypeOK, Return, UNCHANGED <<masterImage, got>>, events' \in events .. MaxEvents
  PROVE  ImageTypeOK'
<1> USE ImageTransferAssumption DEF ImageTypeOK, Return, masterImage
<1>1. cli' \in Clients
  BY IdleType
<1>2. srv' \in [pc : {"off", "serve"}, client : BOOLEAN, size : Nat, done : Nat,
                buf : [1 .. Chunk -> Byte], opened : Seq(Byte), clean : BOOLEAN]
  BY Empty
<1>3. wire' \in Seq(Frame) /\ Len(wire') <= Window
  BY Empty
<1>4. upload' \in [pc : {"idle", "copy", "register"}, num : 0 .. events', size : Nat]
  <2>1. /\ upload.num \in 0 .. events /\ events \in 0 .. MaxEvents
        /\ events' \in events .. MaxEvents
    OBVIOUS
  <2>2. upload.num \in 0 .. events'
    BY ONLY <2>1, ImageTransferAssumption
  <2> QED
    BY <2>2
<1>5. events' \in 0 .. MaxEvents
  OBVIOUS
<1>6. disk' \in Seq(Byte) /\ got' \in Seq(Byte) /\ meta' \in {"none", "noPath", "path"}
  OBVIOUS
<1> QED
  BY <1>1, <1>2, <1>3, <1>4, <1>5, <1>6

\* A new upload is numbered by the steps so far.
LEMMA CreateFileType ==
  ASSUME ImageTypeOK, NEW n \in Sizes, CreateFile(n)
  PROVE  ImageTypeOK'
<1>1. events \in 0 .. MaxEvents /\ upload.num \in 0 .. events
  BY DEF ImageTypeOK
<1>2. events' \in 0 .. MaxEvents /\ events' = events + 1
  BY <1>1, EventCounts DEF CreateFile
<1>3. upload' \in [pc : {"idle", "copy", "register"}, num : 0 .. events', size : Nat]
  <2>1. n \in Nat /\ upload.num + 1 \in 0 .. events'
    BY <1>1, <1>2, ImageTransferAssumption
  <2>2. upload' = [pc |-> "copy", num |-> upload.num + 1, size |-> n]
    BY DEF CreateFile
  <2> QED
    BY <2>1, <2>2
<1>4. disk' \in Seq(Byte)
  BY Empty DEF CreateFile
<1>5. srv' \in [pc : {"off", "serve"}, client : BOOLEAN, size : Nat, done : Nat,
                buf : [1 .. Chunk -> Byte], opened : Seq(Byte), clean : BOOLEAN]
  BY DEF CreateFile, ImageTypeOK
<1>6. UNCHANGED <<meta, wire, cli, got>>
  BY DEF CreateFile
<1> QED
  BY <1>2, <1>3, <1>4, <1>5, <1>6 DEF ImageTypeOK

\* A file that is opened is what its server reads.
LEMMA OpenType == ASSUME ImageTypeOK, Open PROVE ImageTypeOK'
<1>1. disk \in Seq(Byte) /\ Len(disk) \in Nat
  BY DEF ImageTypeOK
<1>2. srv' \in [pc : {"off", "serve"}, client : BOOLEAN, size : Nat, done : Nat,
                buf : [1 .. Chunk -> Byte], opened : Seq(Byte), clean : BOOLEAN]
  <2>1. (upload.pc = "copy" => Len(disk) = upload.size) \in BOOLEAN
    OBVIOUS
  <2> QED
    BY <1>1, <2>1, BlankType DEF Open
<1>3. Details(Int32(Len(disk))) \in Frame
  BY <1>1, Int32Type, Empty DEF Details, Frame
<1>4. wire' \in Seq(Frame) /\ Len(wire') <= Window
  BY <1>3, ImageTransferAssumption DEF Open
<1>5. UNCHANGED <<masterImage, cli, got, events>>
  BY DEF Open
<1> QED
  BY <1>2, <1>4, <1>5 DEF ImageTypeOK, masterImage

\* Every step of the transfer keeps its types.
LEMMA ImageTypeStep == ImageTypeOK /\ ImageStep => ImageTypeOK'
<1> SUFFICES ASSUME ImageTypeOK, ImageStep PROVE ImageTypeOK'
  OBVIOUS
<1> USE ImageTransferAssumption DEF ImageTypeOK, masterImage, download, imageVars
<1>1. CASE Upload
  <2>1. ASSUME NEW n \in Sizes, CreateFile(n) PROVE ImageTypeOK'
    BY <2>1, CreateFileType
  <2>2. ASSUME NEW n \in {Len(disk) + Chunk, upload.size}, CopyBlock(n) PROVE ImageTypeOK'
    <3>1. n \in Nat /\ upload.num \in 0 .. MaxEvents
      BY SMTT(30)
    <3>2. disk' \in Seq(Byte)
      BY <2>2, <3>1, ImageType DEF CopyBlock
    <3> QED
      BY <2>2, <3>2 DEF CopyBlock
  <2>3. CASE CopyFails
    BY <2>3 DEF CopyFails
  <2>4. CASE NewProblem
    BY <2>4 DEF NewProblem
  <2>5. CASE RegisterImage
    BY <2>5 DEF RegisterImage
  <2> QED
    BY <1>1, <2>1, <2>2, <2>3, <2>4, <2>5 DEF Upload
<1>2. CASE Answer \/ Serve
  <2>1. CASE Refuse
    BY <2>1 DEF Refuse, Eof, Frame
  <2>2. CASE Open
    BY <2>2, OpenType
  <2>3. CASE ServeChunk
    <3> DEFINE k == Readable
    <3>1. k \in Nat /\ (k > 0 => srv.done + k <= Len(disk))
      BY ReadableType
    <3>2. Filled(k) \in [1 .. Chunk -> Byte]
      <4>1. CASE k > 0
        BY <3>1, <4>1, FilledType
      <4>2. CASE k = 0
        BY <4>2 DEF Filled
      <4> QED
        BY <3>1, <4>1, <4>2
    <3>3. wire' \in Seq(Frame) /\ Len(wire') <= Window
      <4>1. Data(Filled(k)) \in Frame
        BY <3>2, ChunkFrame
      <4> QED
        BY <2>3, <4>1 DEF ServeChunk, CanSend
    <3>4. srv' = [srv EXCEPT !.buf = Filled(k), !.done = @ + k]
      BY <2>3 DEF ServeChunk
    <3>5. srv.done + k \in Nat
      BY <3>1
    <3> HIDE DEF k
    <3>6. srv' \in [pc : {"off", "serve"}, client : BOOLEAN, size : Nat, done : Nat,
                    buf : [1 .. Chunk -> Byte], opened : Seq(Byte), clean : BOOLEAN]
      BY <3>2, <3>4, <3>5
    <3> QED
      BY <2>3, <3>3, <3>6 DEF ServeChunk
  <2>4. CASE ServeEnds
    <3>1. Eof \in Frame
      BY Empty DEF Eof, Frame
    <3>2. wire' \in Seq(Frame) /\ Len(wire') <= Window
      BY <2>4, <3>1 DEF ServeEnds, CanSend
    <3>3. srv' = [srv EXCEPT !.pc = "off", !.buf = Blank]
      BY <2>4 DEF ServeEnds
    <3>4. srv' \in [pc : {"off", "serve"}, client : BOOLEAN, size : Nat, done : Nat,
                    buf : [1 .. Chunk -> Byte], opened : Seq(Byte), clean : BOOLEAN]
      BY <3>3, BlankType
    <3> QED
      BY <2>4, <3>2, <3>4 DEF ServeEnds
  <2> QED
    BY <1>2, <2>1, <2>2, <2>3, <2>4 DEF Answer, Serve
<1>3. CASE Client
  <2>1. CASE RecvDetails
    <3>1. Head(wire) \in Frame /\ Tail(wire) \in Seq(Frame) /\ Len(Tail(wire)) <= Window
      BY <2>1, WireTail DEF RecvDetails
    <3>2. got' \in Seq(Byte)
      BY <2>1, Empty DEF RecvDetails
    <3>3. cli' \in Clients
      <4>1. Head(wire).size \in Int
        BY <3>1 DEF Frame
      <4>2. cli' = [cli EXCEPT !.pc = "recv", !.size = Head(wire).size, !.done = 0]
        BY <2>1 DEF RecvDetails
      <4>3. cli \in Clients
        OBVIOUS
      <4>4. cli'.whole \in BOOLEAN /\ DOMAIN cli' = {"pc", "size", "done", "whole"}
        BY ONLY <4>2, <4>3 DEF Clients
      <4>5. cli' = [pc |-> "recv", size |-> Head(wire).size, done |-> 0,
                    whole |-> cli'.whole]
        BY ONLY <4>2, <4>3 DEF Clients
      <4> QED
        BY ONLY <4>1, <4>4, <4>5 DEF Clients
    <3> QED
      BY <2>1, <3>1, <3>2, <3>3 DEF RecvDetails
  <2>3. ASSUME NEW k \in 0 .. Chunk - 1, WriteFails(k) PROVE ImageTypeOK'
    <3>1. Head(wire) \in Frame /\ Tail(wire) \in Seq(Frame) /\ Len(Tail(wire)) <= Window
      <4>1. wire # <<>> /\ wire \in Seq(Frame) /\ Len(wire) <= Window
        BY <2>3 DEF WriteFails
      <4> QED
        BY <4>1, WireTail
    <3>2. got \o SubSeq(Head(wire).data, 1, k) \in Seq(Byte)
      <4>1. Head(wire).data \in Seq(Byte)
        BY <3>1 DEF Frame
      <4>2. SubSeq(Head(wire).data, 1, k) \in Seq(Byte)
        <5>1. k \in 0 .. Len(Head(wire).data)
          <6>1. k \in Nat /\ k < Len(Head(wire).data)
            BY ONLY <2>3, k \in 0 .. Chunk - 1, ImageTransferAssumption DEF WriteFails
          <6>2. Len(Head(wire).data) \in Nat
            BY ONLY <4>1, LenProperties
          <6> QED
            BY ONLY <6>1, <6>2
        <5> QED
          BY ONLY <4>1, <5>1, SubSeqProperties
      <4> QED
        BY <4>2, ConcatProperties
    <3>3. Int32(cli.done + Chunk) \in Int
      BY Int32Type DEF Clients
    <3>4. events' \in 0 .. MaxEvents /\ upload.num \in 0 .. events'
      <4>1. events \in 0 .. MaxEvents /\ upload.num \in 0 .. events /\ Event /\ upload' = upload
        BY <2>3 DEF WriteFails
      <4>2. events' \in 0 .. MaxEvents /\ events' = events + 1
        BY ONLY <4>1, EventCounts
      <4> QED
        BY ONLY <4>1, <4>2, ImageTransferAssumption
    <3>5. cli' \in Clients
      BY <2>3, <3>3 DEF WriteFails, Clients
    <3> QED
      BY <2>3, <3>1, <3>2, <3>4, <3>5 DEF WriteFails
  <2>2. CASE RecvChunk
    <3>1. Head(wire) \in Frame /\ Tail(wire) \in Seq(Frame) /\ Len(Tail(wire)) <= Window
      BY <2>2, WireTail DEF RecvChunk
    <3>2. got \o Head(wire).data \in Seq(Byte)
      <4>1. Head(wire).data \in Seq(Byte)
        BY <3>1 DEF Frame
      <4> QED
        BY <4>1, ConcatProperties
    <3>3. Int32(cli.done + Chunk) \in Int
      BY Int32Type DEF Clients
    <3>4. cli' \in Clients
      BY <2>2, <3>3 DEF RecvChunk, Clients
    <3> QED
      BY <2>2, <3>1, <3>2, <3>4 DEF RecvChunk
  <2> QED
    BY <1>3, <2>1, <2>2, <2>3 DEF Client
<1>4. CASE RecvEof \/ Received \/ Leave
  <2>1. Return /\ UNCHANGED <<masterImage, got, events>>
    BY <1>4 DEF RecvEof, Received, Leave
  <2> QED
    BY <2>1, ReturnType
<1>5. CASE CallBreaks
  <2>1. /\ Return /\ UNCHANGED <<masterImage, got>>
        /\ events' = events + 1 /\ events' <= MaxEvents
    BY <1>5 DEF CallBreaks, Event
  <2> QED
    BY <2>1, ReturnType
<1>6. CASE Ask
  <2>1. cli' \in Clients
    <3>1. cli' = [Idle EXCEPT !.pc = "ask"]
      BY <1>6 DEF Ask
    <3> QED
      BY ONLY <3>1, IdleType
  <2> QED
    BY <1>6, <2>1 DEF Ask
<1>7. CASE Elsewhere
  <2>1. events' \in 0 .. MaxEvents /\ upload.num \in 0 .. events'
    <3>1. /\ upload.num \in 0 .. events /\ events \in 0 .. MaxEvents
          /\ events' \in events .. MaxEvents
      BY <1>7 DEF Elsewhere
    <3> QED
      BY ONLY <3>1, ImageTransferAssumption
  <2> QED
    BY <1>7, <2>1 DEF Elsewhere
<1> QED
  BY <1>1, <1>2, <1>3, <1>4, <1>5, <1>6, <1>7 DEF ImageStep

-----------------------------------------------------------------------------
(* The invariant.                                                           *)

LEMMA TransferInit == ImageInit => TransferInv
BY DEF ImageInit, TransferInv, CallInv, Idle

\* No upload changes what a clean call reads, wire and client apart.
LEMMA UploadKeeps == ImageTypeOK /\ TransferInv /\ Upload => TransferInv'
<1> SUFFICES ASSUME ImageTypeOK, TransferInv, Upload PROVE TransferInv'
  OBVIOUS
<1> USE DEF TransferInv, masterImage, download
<1>1. ASSUME NEW n \in Sizes, CreateFile(n) PROVE TransferInv'
  BY <1>1 DEF CreateFile, CallInv, ImageTypeOK
<1>2. ASSUME NEW n \in {Len(disk) + Chunk, upload.size}, CopyBlock(n) PROVE TransferInv'
  BY <1>2 DEF CopyBlock, CallInv, CleanInv, ImageTypeOK
<1>3. CASE CopyFails \/ NewProblem \/ RegisterImage
  <2>1. UNCHANGED <<disk, srv, wire, cli, got>> /\ upload'.pc # "copy"
    BY <1>3 DEF CopyFails, NewProblem, RegisterImage, ImageTypeOK
  <2> QED
    BY <2>1 DEF CallInv, CleanInv, WireInv, ClientInv
<1> QED
  BY <1>1, <1>2, <1>3 DEF Upload

\* The server's steps.
LEMMA ServerKeeps == ImageTypeOK /\ TransferInv /\ (Answer \/ Serve) => TransferInv'
<1> SUFFICES ASSUME ImageTypeOK, TransferInv, Answer \/ Serve PROVE TransferInv'
  OBVIOUS
<1> USE ImageTransferAssumption DEF TransferInv, masterImage
<1>1. CASE Refuse
  BY <1>1 DEF Refuse, CallInv, Eof, ImageTypeOK
<1>2. CASE Open
  <2>1. CallInv'
    BY <1>2 DEF Open, CallInv, ImageTypeOK
  <2>2. ASSUME srv'.clean, cli'.whole PROVE CleanInv' /\ WireInv' /\ ClientInv'
    <3>1. CleanInv'
      BY <1>2, <2>2 DEF Open, CleanInv, ImageTypeOK
    <3>2. Chunk * 0 = 0
      OBVIOUS
    <3>3. WireInv'
      BY <1>2, <3>2 DEF Open, WireInv, Offset, Details, ImageTypeOK
    <3> QED
      BY <1>2, <3>1, <3>3 DEF Open, ClientInv
  <2> QED
    BY <2>1, <2>2
<1>3. CASE ServeChunk
  <2> DEFINE k == Readable
             b == Filled(k)
  <2>1. CallInv'
    BY <1>3 DEF ServeChunk, CallInv, ImageTypeOK
  <2>2. ASSUME srv'.client, srv'.clean, cli'.whole PROVE CleanInv' /\ WireInv' /\ ClientInv'
    <3>1. srv.client /\ srv.clean /\ cli.whole /\ srv.pc = "serve" /\ srv.done < srv.size
      BY <1>3, <2>2 DEF ServeChunk, Serving, ImageTypeOK
    <3>2. CleanInv /\ WireInv /\ ClientInv
      BY <3>1
    <3>3. /\ k \in 1 .. Chunk
          /\ srv.done + k <= srv.size
          /\ k < Chunk => srv.done + k = srv.size
      BY <3>1, <3>2 DEF Readable, CleanInv, ImageTypeOK
    <3>4. /\ srv' = [srv EXCEPT !.buf = b, !.done = @ + k]
          /\ wire' = Append(wire, Data(b))
          /\ UNCHANGED <<masterImage, cli, got>>
      BY <1>3, <3>1 DEF ServeChunk
    <3>5. b \in [1 .. Chunk -> Byte] /\ b \in Seq(Byte) /\ Len(b) = Chunk
      <4>1. k \in Nat /\ srv.done + k <= Len(disk)
        BY <3>2, <3>3, ImageTransferAssumption DEF CleanInv
      <4>2. b \in [1 .. Chunk -> Byte]
        BY <4>1, FilledType
      <4> QED
        BY <4>2, ChunkFrame
    <3>6. Matches(b, srv.done, srv.opened)
      <4>1. srv.done \in Nat /\ k \in Nat /\ disk = srv.opened
        BY <3>2, <3>3 DEF CleanInv, ImageTypeOK
      <4>2. srv.size = Len(srv.opened)
        BY <3>2 DEF CleanInv
      <4>3. ASSUME NEW i \in 1 .. Chunk, srv.done + i <= Len(srv.opened) PROVE i <= k
        BY <3>3, <4>1, <4>2, <4>3
      <4>4. \A i \in 1 .. Chunk : i <= k => b[i] = disk[srv.done + i]
        BY DEF Filled
      <4>5. Len(b) = Chunk
        BY <3>5
      <4> HIDE DEF b, k
      <4> QED
        BY <4>1, <4>3, <4>4, <4>5 DEF Matches
    <3> HIDE DEF k, b
    <3>0. /\ UNCHANGED <<srv.size, srv.opened, srv.pc, srv.client, srv.clean>>
          /\ srv'.done = srv.done + k
      BY <3>4 DEF ImageTypeOK
    <3>7. CleanInv'
      BY <3>2, <3>3, <3>4 DEF CleanInv, ImageTypeOK
    <3>8. ClientInv'
      BY <3>2, <3>4 DEF ClientInv, Matches, ImageTypeOK
    <3>9. /\ Offset(Len(wire) + 1, cli.pc, Len(got)) = srv.done
          /\ Offset(Len(wire) + 2, cli.pc, Len(got)) = srv.done + Chunk
          /\ Len(wire) \in Nat
      <4>1. Offset(Len(wire) + 2, cli.pc, Len(got))
              = Offset(Len(wire) + 1, cli.pc, Len(got)) + Chunk
        BY OffsetStep DEF Offset, ImageTypeOK
      <4> QED
        BY <3>1, <3>2, <4>1 DEF WireInv, ImageTypeOK
    <3>10. WireInv'
      <4>1. UNCHANGED <<cli.pc, got>>
        BY <3>4
      <4>2. Len(wire') = Len(wire) + 1 /\ wire'[Len(wire) + 1] = Data(b)
            /\ \A j \in 1 .. Len(wire) : wire'[j] = wire[j]
        BY <3>4 DEF ImageTypeOK
      <4>3. ASSUME NEW j \in 1 .. Len(wire') PROVE
              /\ wire'[j].kind = "details" <=> j = 1 /\ cli'.pc = "ask"
              /\ wire'[j].kind = "details" => wire'[j].size = Int32(srv'.size)
              /\ wire'[j].kind = "eof" => j = Len(wire') /\ srv'.pc = "off"
              /\ wire'[j].kind = "chunk" =>
                   /\ Len(wire'[j].data) = Chunk
                   /\ Matches(wire'[j].data, Offset(j, cli'.pc, Len(got')), srv'.opened)
        <5>1. CASE j = Len(wire) + 1
          <6>1. Matches(b, Offset(j, cli'.pc, Len(got')), srv'.opened)
            BY <5>1, <4>1, <3>9, <3>6, <3>0
          <6>2. wire'[j] = Data(b) /\ (cli.pc = "ask" => wire # <<>>)
            BY <5>1, <4>2, <3>2 DEF WireInv
          <6> QED
            BY <5>1, <6>1, <6>2, <3>4, <3>5 DEF Data, ImageTypeOK
        <5>2. CASE j # Len(wire) + 1
          <6>1. j \in 1 .. Len(wire) /\ wire'[j] = wire[j]
            BY <5>2, <4>2, <3>9
          <6>2. wire[j].kind # "eof"
            BY <6>1, <3>1, <3>2 DEF WireInv
          <6>3. Matches(wire'[j].data, Offset(j, cli'.pc, Len(got')), srv'.opened)
                  <=> Matches(wire[j].data, Offset(j, cli.pc, Len(got)), srv.opened)
            BY <6>1, <4>1, <3>0
          <6>4. cli'.pc = cli.pc /\ srv'.size = srv.size
            BY <4>1, <3>0
          <6> QED
            BY <6>1, <6>2, <6>3, <6>4, <3>2 DEF WireInv
        <5> QED
          BY <5>1, <5>2
      <4>4. srv'.pc = "serve" =>
              IF srv'.done < srv'.size
                THEN Offset(Len(wire') + 1, cli'.pc, Len(got')) = srv'.done
                ELSE Offset(Len(wire') + 1, cli'.pc, Len(got')) >= srv'.size
        <5>1. Offset(Len(wire') + 1, cli'.pc, Len(got')) = srv.done + Chunk
          BY <4>1, <4>2, <3>9
        <5>2. srv.done \in Nat /\ srv.size \in Nat
          BY DEF ImageTypeOK
        <5> QED
          BY <5>1, <5>2, <3>0, <3>3
      <4>5. wire' # <<>>
        BY <4>2, <3>9
      <4> QED
        BY <4>3, <4>4, <4>5 DEF WireInv
    <3> QED
      BY <3>7, <3>8, <3>10
  <2> QED
    BY <2>1, <2>2
<1>4. CASE ServeEnds
  <2>1. CallInv'
    BY <1>4 DEF ServeEnds, CallInv, ImageTypeOK
  <2>2. ASSUME srv'.client, srv'.clean, cli'.whole PROVE CleanInv' /\ WireInv' /\ ClientInv'
    <3>1. srv.client /\ srv.clean /\ cli.whole /\ srv.pc = "serve" /\ CleanInv /\ WireInv /\ ClientInv
      BY <1>4, <2>2 DEF ServeEnds, ImageTypeOK
    <3>2. /\ srv' = [srv EXCEPT !.pc = "off", !.buf = Blank]
          /\ wire' = Append(wire, Eof)
          /\ UNCHANGED <<masterImage, cli, got>>
      BY <1>4, <3>1 DEF ServeEnds
    <3>3. CleanInv' /\ ClientInv'
      BY <3>1, <3>2 DEF CleanInv, ClientInv, Matches, ImageTypeOK
    <3>4. WireInv'
      <4>1. UNCHANGED <<cli.pc, got, srv.size, srv.opened, srv.client, srv.clean>>
        BY <3>2 DEF ImageTypeOK
      <4>2. Len(wire') = Len(wire) + 1 /\ wire'[Len(wire) + 1] = Eof
            /\ (\A j \in 1 .. Len(wire) : wire'[j] = wire[j]) /\ Len(wire) \in Nat
        <5>1. wire \in Seq(Frame)
          BY DEF ImageTypeOK
        <5> QED
          BY <3>2, <5>1, AppendProperties, LenProperties
      <4>3. ASSUME NEW j \in 1 .. Len(wire') PROVE
              /\ wire'[j].kind = "details" <=> j = 1 /\ cli'.pc = "ask"
              /\ wire'[j].kind = "details" => wire'[j].size = Int32(srv'.size)
              /\ wire'[j].kind = "eof" => j = Len(wire') /\ srv'.pc = "off"
              /\ wire'[j].kind = "chunk" =>
                   /\ Len(wire'[j].data) = Chunk
                   /\ Matches(wire'[j].data, Offset(j, cli'.pc, Len(got')), srv'.opened)
        <5>1. CASE j = Len(wire) + 1
          <6>2. wire'[j] = Eof /\ (cli.pc = "ask" => wire # <<>>)
            BY <5>1, <4>2, <3>1 DEF WireInv
          <6> QED
            BY <5>1, <6>2, <4>2, <3>2 DEF Eof, ImageTypeOK
        <5>2. CASE j # Len(wire) + 1
          <6>1. j \in 1 .. Len(wire) /\ wire'[j] = wire[j]
            BY <5>2, <4>2
          <6>2. wire[j].kind # "eof"
            BY <6>1, <3>1 DEF WireInv
          <6>3. Matches(wire'[j].data, Offset(j, cli'.pc, Len(got')), srv'.opened)
                  <=> Matches(wire[j].data, Offset(j, cli.pc, Len(got)), srv.opened)
            BY <6>1, <4>1
          <6> QED
            BY <6>1, <6>2, <6>3, <4>1, <3>1 DEF WireInv
        <5> QED
          BY <5>1, <5>2
      <4>4. wire' # <<>> /\ srv'.pc = "off"
        <5>1. wire' # <<>>
          BY <4>2, EmptySeq
        <5>2. srv'.pc = "off"
          BY <3>2 DEF ImageTypeOK
        <5> QED
          BY <5>1, <5>2
      <4> QED
        BY <4>3, <4>4 DEF WireInv
    <3> QED
      BY <3>3, <3>4
  <2> QED
    BY <2>1, <2>2
<1> QED
  BY <1>1, <1>2, <1>3, <1>4 DEF Answer, Serve

\* The client's steps: the frame at j + 1 comes to be at j.
LEMMA ClientKeeps == ImageTypeOK /\ TransferInv /\ Client => TransferInv'
<1> SUFFICES ASSUME ImageTypeOK, TransferInv, Client PROVE TransferInv'
  OBVIOUS
<1> USE ImageTransferAssumption DEF TransferInv, masterImage
<1>1. /\ wire # <<>> /\ wire' = Tail(wire) /\ UNCHANGED srv
      /\ cli'.pc = "recv" /\ cli.pc \in {"ask", "recv"}
  <2>1. CASE RecvDetails
    BY <2>1 DEF RecvDetails
  <2>3. ASSUME NEW k \in 0 .. Chunk - 1, WriteFails(k)
        PROVE  /\ wire # <<>> /\ wire' = Tail(wire) /\ UNCHANGED srv
               /\ cli'.pc = "recv" /\ cli.pc \in {"ask", "recv"}
    BY <2>3 DEF WriteFails, ImageTypeOK, Clients
  <2>2. CASE RecvChunk
    <3>1. cli'.pc = cli.pc
      BY <2>2 DEF RecvChunk, ImageTypeOK, Clients
    <3> QED
      BY <2>2, <3>1 DEF RecvChunk
  <2> QED
    BY <2>1, <2>2, <2>3 DEF Client
<1>2. /\ Head(wire) \in Frame /\ Head(wire) = wire[1]
      /\ Len(wire) \in Nat \ {0} /\ Len(wire') = Len(wire) - 1
      /\ \A j \in 1 .. Len(wire') : wire'[j] = wire[j + 1]
  BY <1>1, WireTail DEF ImageTypeOK
\* With the bytes before it accounted for, the wire is still in order.
<1>5. ASSUME CleanInv, WireInv,
             \A j \in Int : Offset(j, cli'.pc, Len(got')) = Offset(j + 1, cli.pc, Len(got))
      PROVE  WireInv'
  <2>1. ASSUME NEW j \in 1 .. Len(wire') PROVE
          /\ wire'[j].kind # "details"
          /\ wire'[j].kind = "eof" => j = Len(wire') /\ srv'.pc = "off"
          /\ wire'[j].kind = "chunk" =>
               /\ Len(wire'[j].data) = Chunk
               /\ Matches(wire'[j].data, Offset(j, cli'.pc, Len(got')), srv'.opened)
    <3>1. /\ j + 1 \in 1 .. Len(wire) /\ j + 1 # 1
          /\ wire'[j] = wire[j + 1]
          /\ j + 1 = Len(wire) <=> j = Len(wire')
      BY <1>2
    <3>2. Offset(j, cli'.pc, Len(got')) = Offset(j + 1, cli.pc, Len(got))
      BY <1>5
    <3> QED
      BY <1>1, <1>5, <3>1, <3>2 DEF WireInv
  <2>2. Offset(Len(wire') + 1, cli'.pc, Len(got')) = Offset(Len(wire) + 1, cli.pc, Len(got))
    <3>1. Len(wire') + 1 \in Int /\ Len(wire') + 1 + 1 = Len(wire) + 1
      BY <1>2
    <3> QED
      BY <1>5, <3>1
  <2> QED
    BY <1>1, <1>5, <2>1, <2>2 DEF WireInv
<1>3. CASE RecvDetails
  <2>1. CallInv'
    BY <1>1, <1>2, <1>3 DEF RecvDetails, CallInv
  <2>2. ASSUME srv.client, srv.clean, cli.whole PROVE CleanInv' /\ WireInv' /\ ClientInv'
    <3>1. CleanInv'
      BY <1>3, <2>2 DEF RecvDetails, CleanInv
    <3>2. \A j \in Int : Offset(j, cli'.pc, Len(got')) = Offset(j + 1, cli.pc, Len(got))
      BY <1>3, OffsetStep DEF RecvDetails, Offset
    <3>3. WireInv'
      BY <1>3, <1>5, <2>2, <3>2 DEF RecvDetails
    <3>4. ClientInv'
      <4>1. cli'.size = Int32(srv.size)
        <5>1. 1 \in 1 .. Len(wire) /\ wire[1].kind = "details" /\ WireInv
          BY <1>2, <1>3, <2>2 DEF RecvDetails
        <5>2. wire[1].size = Int32(srv.size)
          BY <5>1 DEF WireInv
        <5>3. cli'.size = wire[1].size
          BY <1>2, <1>3 DEF RecvDetails
        <5> QED
          BY <5>2, <5>3
      <4> QED
        <5>1. got' = <<>> /\ cli'.done = 0 /\ srv' = srv
          BY <1>1, <1>3 DEF RecvDetails
        <5>2. Len(<<>>) = 0 /\ srv.size \in Nat /\ 0 < srv.size + Chunk
          BY Empty DEF ImageTypeOK
        <5> QED
          BY <4>1, <5>1, <5>2 DEF ClientInv, Matches
    <3> QED
      BY <3>1, <3>3, <3>4
  <2> QED
    BY <1>3, <2>1, <2>2 DEF RecvDetails
<1>4. CASE RecvChunk
  <2>1. CallInv'
    BY <1>1, <1>2, <1>4 DEF RecvChunk, CallInv
  <2>2. ASSUME srv.client, srv.clean, cli.whole PROVE CleanInv' /\ WireInv' /\ ClientInv'
    <3> DEFINE b == Head(wire).data
    <3>1. CleanInv /\ WireInv /\ ClientInv /\ CleanInv'
      BY <1>4, <2>2 DEF RecvChunk, CleanInv
    <3>2. b \in Seq(Byte) /\ Len(b) = Chunk /\ Matches(b, Len(got), srv.opened)
      <4>1. wire[1].data \in Seq(Byte) /\ wire[1].kind = "chunk" /\ b = wire[1].data
        BY <1>2, <1>4 DEF RecvChunk, Frame
      <4>2. Offset(1, cli.pc, Len(got)) = Len(got)
        <5>1. Len(got) \in Nat /\ Chunk * (1 - 1) = 0
          BY DEF ImageTypeOK
        <5> QED
          BY <1>4, <5>1 DEF RecvChunk, Offset
      <4> QED
        BY <1>2, <3>1, <4>1, <4>2 DEF WireInv
    <3>3. /\ got' = got \o b
          /\ Len(got') = Len(got) + Chunk /\ Len(got) \in Nat
          /\ \A i \in 1 .. Len(got) + Chunk :
               got'[i] = IF i <= Len(got) THEN got[i] ELSE b[i - Len(got)]
      <4>1. got' = got \o b /\ got \in Seq(Byte)
        BY <1>4 DEF RecvChunk, ImageTypeOK
      <4> HIDE DEF b
      <4> QED
        BY <3>2, <4>1, ConcatProperties, LenProperties
    <3> HIDE DEF b
    <3>4. \A j \in Int : Offset(j, cli'.pc, Len(got')) = Offset(j + 1, cli.pc, Len(got))
      <4>1. cli.pc = "recv" /\ cli'.pc = "recv"
        BY <1>1, <1>4 DEF RecvChunk
      <4>2. ASSUME NEW j \in Int
            PROVE  Len(got) + Chunk + Chunk * (j - 1) = Len(got) + Chunk * (j + 1 - 1)
        <5>1. Chunk * (j - 1 + 1) = Chunk * (j - 1) + Chunk /\ Chunk * (j - 1) \in Int
          BY OffsetStep
        <5>2. j - 1 + 1 = j + 1 - 1
          OBVIOUS
        <5> QED
          BY <3>3, <5>1, <5>2
      <4> QED
        BY <3>3, <4>1, <4>2 DEF Offset
    <3>5. WireInv'
      BY <1>5, <3>1, <3>4
    <3>6. Matches(got', 0, srv'.opened)
      <4>1. Matches(got, 0, srv.opened) /\ srv'.opened = srv.opened
        BY <1>1, <1>4, <3>1 DEF RecvChunk, ClientInv
      <4>2. ASSUME NEW i \in 1 .. Len(got'), i <= Len(srv.opened)
            PROVE  got'[i] = srv.opened[i]
        <5>1. CASE i <= Len(got)
          BY <3>3, <4>1, <4>2, <5>1 DEF Matches
        <5>2. CASE i > Len(got)
          <6>1. i - Len(got) \in 1 .. Chunk /\ Len(got) + (i - Len(got)) = i
            BY <3>3, <4>2, <5>2
          <6>2. b[i - Len(got)] = srv.opened[i]
            BY <3>2, <4>2, <6>1 DEF Matches
          <6> QED
            BY <3>3, <4>2, <5>2, <6>2
        <5> QED
          BY <3>3, <4>2, <5>1, <5>2
      <4>3. \A i \in 1 .. Len(got') : 0 + i = i
        BY <3>3
      <4> QED
        BY <4>1, <4>2, <4>3 DEF Matches
    <3>7. ASSUME Countable(srv.size)
          PROVE  cli'.done = Len(got') /\ Len(got') < srv.size + Chunk
      <4>1. cli.size = srv.size /\ cli.done = Len(got)
        <5>1. srv.size \in Nat /\ srv.size < Limit
          BY <3>7 DEF Countable, ImageTypeOK
        <5>2. Int32(srv.size) = srv.size
          BY <5>1, Int32Small
        <5> QED
          BY <1>4, <3>1, <3>7, <5>2 DEF RecvChunk, ClientInv
      <4>2. Int32(Len(got) + Chunk) = Len(got) + Chunk
        <5>1. Len(got) < srv.size /\ srv.size \in Nat
          BY <1>4, <4>1 DEF RecvChunk, ImageTypeOK
        <5>2. Len(got) + Chunk \in Nat /\ Len(got) + Chunk < Limit
          BY <3>3, <3>7, <5>1 DEF Countable
        <5> QED
          BY <5>2, Int32Small
      <4> QED
        <5>1. cli'.done = Int32(cli.done + Chunk) /\ cli.done < cli.size
          BY <1>4 DEF RecvChunk, ImageTypeOK
        <5>2. srv.size \in Nat
          BY DEF ImageTypeOK
        <5> QED
          BY <3>3, <4>1, <4>2, <5>1, <5>2
    <3>8. ClientInv'
      BY <1>4, <3>1, <3>6, <3>7 DEF RecvChunk, ClientInv, Countable, ImageTypeOK
    <3> QED
      BY <3>1, <3>5, <3>8
  <2> QED
    BY <1>4, <2>1, <2>2 DEF RecvChunk
\* After a write that failed nothing is claimed of what the client has.
<1>6. ASSUME NEW k \in 0 .. Chunk - 1, WriteFails(k) PROVE TransferInv'
  <2>1. ~cli'.whole
    BY <1>6 DEF WriteFails, ImageTypeOK, Clients
  <2>2. CallInv'
    BY <1>1, <1>2, <1>6 DEF WriteFails, CallInv
  <2> QED
    BY <2>1, <2>2
<1> QED
  BY <1>3, <1>4, <1>6 DEF Client

\* Every step of the transfer keeps the invariant.
LEMMA TransferStep == ImageTypeOK /\ TransferInv /\ ImageStep => TransferInv'
<1> SUFFICES ASSUME ImageTypeOK, TransferInv, ImageStep PROVE TransferInv'
  OBVIOUS
<1>1. CASE Return
  BY <1>1 DEF Return, TransferInv, CallInv, Idle, ImageTypeOK
<1>2. CASE Ask
  BY <1>2 DEF Ask, TransferInv, CallInv, Idle, masterImage, ImageTypeOK
<1>3. CASE Elsewhere
  BY <1>3 DEF Elsewhere, imageVars, masterImage, download, TransferInv, CallInv, CleanInv,
              WireInv, ClientInv, Matches, Offset
<1> QED
  BY <1>1, <1>2, <1>3, UploadKeeps, ServerKeeps, ClientKeeps
  DEF ImageStep, RecvEof, CallBreaks, Received, Leave

\* A download that ends well has the whole file that was opened, and less than
\* a chunk more.
LEMMA ReceivedWhole ==
  ASSUME ImageTypeOK, TransferInv, cli.pc = "recv", cli.done >= cli.size,
         srv.clean, cli.whole, Countable(Len(srv.opened))
  PROVE  /\ Len(got) >= Len(srv.opened)
         /\ Len(got) < Len(srv.opened) + Chunk
         /\ \A i \in 1 .. Len(srv.opened) : got[i] = srv.opened[i]
<1>1. CleanInv /\ ClientInv /\ srv.size = Len(srv.opened)
  BY DEF TransferInv, CallInv, CleanInv
<1>2. Int32(srv.size) = srv.size
  BY <1>1, Int32Small, ImageTransferAssumption DEF Countable, ImageTypeOK
<1>3. cli.size = srv.size /\ cli.done = Len(got) /\ Len(got) < srv.size + Chunk
  BY <1>1, <1>2 DEF ClientInv
<1>4. Len(got) \in Nat /\ srv.size \in Nat /\ Len(got) >= srv.size
  BY <1>3 DEF ImageTypeOK
<1>5. Matches(got, 0, srv.opened)
  BY <1>1 DEF ClientInv
<1>6. \A i \in 1 .. Len(srv.opened) : i \in 1 .. Len(got) /\ 0 + i = i
  BY <1>1, <1>4
<1> QED
  BY <1>1, <1>3, <1>4, <1>5, <1>6 DEF Matches
=============================================================================
