--------------------------- MODULE ImageTransfer ---------------------------
(***************************************************************************)
(* One problem's image on its way from the REST API to a worker:           *)
(* RegisterProblem (master/api/controller.go) writes the master's file,    *)
(* GetProblemData streams it (server comms/volpe/master.go, client         *)
(* comms/volpe/worker.go).  A file is the sequence of its bytes; a byte    *)
(* names the upload it is from and its place there.  WorkerNode says when  *)
(* a worker asks.                                                          *)
(***************************************************************************)
EXTENDS Integers, Sequences

CONSTANTS
  Chunk,       \* bytes in the server's buffer (512)
  Limit,       \* int32 holds -Limit .. Limit - 1
  Sizes,       \* sizes of the images that are uploaded
  Window,      \* bound: frames on the wire
  MaxFile,     \* bound: bytes the client writes into one file
  MaxEvents    \* bound: what the environment does

ASSUME ImageTransferAssumption ==
  /\ Chunk \in Nat \ {0}
  /\ Limit \in Nat \ {0}
  /\ Sizes \subseteq Nat \ {0}
  /\ Window \in Nat \ {0}
  /\ MaxFile \in Nat
  /\ MaxEvents \in Nat

VARIABLES
  disk,    \* the master's image file
  upload,  \* RegisterProblem: where it is, its number, the size of its image
  meta,    \* the master's ProblemStore: "none", "noPath" or "path"
  srv,     \* the server's GetProblemData of the last request it accepted
  wire,    \* frames from the server to the client
  cli,     \* the worker's GetProblemData
  got,     \* the file the worker writes
  events   \* environment steps so far, each of which may be the last

masterImage == <<disk, upload, meta>>
download == <<srv, wire, cli, got>>
imageVars == <<masterImage, download>>

Int32(x) == ((x + Limit) % (2 * Limit)) - Limit

\* The size fits an int32, and so does the count of the bytes received.
Countable(n) == n + Chunk <= Limit

Byte == (0 .. MaxEvents) \X Nat
Image(v, n) == [i \in 1 .. n |-> <<v, i>>]
Blank == [i \in 1 .. Chunk |-> <<0, 0>>]   \* a new buffer

Details(n) == [kind |-> "details", size |-> n, data |-> <<>>]
Data(b) == [kind |-> "chunk", size |-> 0, data |-> b]
Eof == [kind |-> "eof", size |-> 0, data |-> <<>>]

\* whole is history: no write of this call has failed.
Idle == [pc |-> "idle", size |-> 0, done |-> 0, whole |-> TRUE]

Clients ==
  [pc : {"idle", "ask", "recv"}, size : Int, done : Int, whole : BOOLEAN]

Frame == [kind : {"details", "chunk", "eof"}, size : Int, data : Seq(Byte)]

ImageTypeOK ==
  /\ events \in 0 .. MaxEvents
  /\ disk \in Seq(Byte)
  /\ upload \in [pc : {"idle", "copy", "register"}, num : 0 .. events, size : Nat]
  /\ meta \in {"none", "noPath", "path"}
  /\ srv \in [pc : {"off", "serve"}, client : BOOLEAN, size : Nat, done : Nat,
              buf : [1 .. Chunk -> Byte], opened : Seq(Byte), clean : BOOLEAN]
  /\ wire \in Seq(Frame)
  /\ Len(wire) <= Window
  /\ cli \in Clients
  /\ got \in Seq(Byte)

ImageInit ==
  /\ disk = <<>>
  /\ upload = [pc |-> "idle", num |-> 0, size |-> 0]
  /\ meta = "none"
  /\ srv = [pc |-> "off", client |-> FALSE, size |-> 0, done |-> 0,
            buf |-> Blank, opened |-> <<>>, clean |-> FALSE]
  /\ wire = <<>>
  /\ cli = Idle
  /\ got = <<>>
  /\ events = 0

\* Requests, faults and restarts are bounded together: the runs see every mix.
Event == events < MaxEvents /\ events' = events + 1

-----------------------------------------------------------------------------
(* RegisterProblem.                                                        *)

\* os.Create truncates the file, also under a server that is reading it.
CreateFile(n) ==
  /\ upload.pc = "idle"
  /\ Event
  /\ upload' = [pc |-> "copy", num |-> upload.num + 1, size |-> n]
  /\ disk' = <<>>
  /\ srv' = [srv EXCEPT !.clean = FALSE]
  /\ UNCHANGED <<meta, wire, cli, got>>

\* io.Copy, in blocks of a chunk or of all there is.
CopyBlock(n) ==
  /\ upload.pc = "copy"
  /\ Len(disk) < n /\ n <= upload.size
  /\ disk' = Image(upload.num, n)
  /\ UNCHANGED <<upload, meta, download, events>>

\* The request is answered with 500: the old metadata and what was copied stay.
CopyFails ==
  /\ upload.pc = "copy"
  /\ upload' = [upload EXCEPT !.pc = "idle"]
  /\ UNCHANGED <<disk, meta, download, events>>

\* probstore.NewProblem: the new metadata has no ImagePath yet.
NewProblem ==
  /\ upload.pc = "copy"
  /\ Len(disk) = upload.size
  /\ upload' = [upload EXCEPT !.pc = "register"]
  /\ meta' = "noPath"
  /\ UNCHANGED <<disk, download, events>>

RegisterImage ==
  /\ upload.pc = "register"
  /\ upload' = [upload EXCEPT !.pc = "idle"]
  /\ meta' = "path"
  /\ UNCHANGED <<disk, download, events>>

-----------------------------------------------------------------------------
(* The server.                                                             *)

Serving == srv.pc = "serve" /\ srv.done < srv.size

\* The file is now shorter than it was when the server looked: Read returns 0
\* and io.EOF for ever, and the loop goes on.
Spinning == Serving /\ Len(disk) <= srv.done

\* GetMetadata knows nothing of the problem, or os.Open("") fails and the call
\* returns nil: an error or io.EOF where the client expects the details.
Refuse ==
  /\ cli.pc = "ask"
  /\ wire = <<>>
  /\ ~srv.client
  /\ meta # "path"
  /\ wire' = <<Eof>>
  /\ UNCHANGED <<masterImage, srv, cli, got, events>>

\* os.Open and os.Stat; the first frame is the size as an int32.  opened and
\* clean are history: the file then, and that it was the whole of its upload and
\* no other has touched it since.
\* A server whose client left only reads; it is let come to its end, or to
\* its spinning, before the next request.
Open ==
  /\ cli.pc = "ask"
  /\ wire = <<>>
  /\ ~srv.client
  /\ srv.pc = "off" \/ Spinning
  /\ meta = "path"
  /\ srv' = [pc |-> "serve", client |-> TRUE, size |-> Len(disk), done |-> 0,
             buf |-> Blank, opened |-> disk,
             clean |-> Len(disk) = upload.size]
  /\ wire' = <<Details(Int32(Len(disk)))>>
  /\ UNCHANGED <<masterImage, cli, got, events>>

\* What Read leaves in the buffer, k bytes read: the rest is the last chunk's.
Filled(k) == [i \in 1 .. Chunk |-> IF i <= k THEN disk[srv.done + i] ELSE srv.buf[i]]

\* The number of bytes Read returns.
Readable ==
  IF Len(disk) <= srv.done THEN 0
  ELSE IF Len(disk) - srv.done < Chunk THEN Len(disk) - srv.done ELSE Chunk

\* Send waits for a client that is slow, and fails at once when it has left.
CanSend == srv.client => Len(wire) < Window

\* Mutant: only whole chunks count.
ServeChunkWhole ==
  /\ Serving
  /\ CanSend
  /\ srv' = [srv EXCEPT !.buf = Filled(Readable),
                        !.done = IF Readable = Chunk THEN @ + Chunk ELSE @]
  /\ wire' = IF srv.client THEN Append(wire, Data(Filled(Readable))) ELSE wire
  /\ UNCHANGED <<masterImage, cli, got, events>>

\* The whole buffer is sent whatever was read, and the error of Send ignored.
ServeChunk ==
  /\ Serving
  /\ CanSend
  /\ srv' = [srv EXCEPT !.buf = Filled(Readable), !.done = @ + Readable]
  /\ wire' = IF srv.client THEN Append(wire, Data(Filled(Readable))) ELSE wire
  /\ UNCHANGED <<masterImage, cli, got, events>>

ServeEnds ==
  /\ srv.pc = "serve"
  /\ srv.done >= srv.size
  /\ CanSend
  /\ srv' = [srv EXCEPT !.pc = "off", !.buf = Blank]
  /\ wire' = IF srv.client THEN Append(wire, Eof) ELSE wire
  /\ UNCHANGED <<masterImage, cli, got, events>>

-----------------------------------------------------------------------------
(* The client.                                                             *)

\* However the call ends, its context is cancelled.
Return ==
  /\ cli' = Idle
  /\ srv' = [srv EXCEPT !.client = FALSE, !.opened = <<>>, !.clean = FALSE,
                        !.size = IF srv.pc = "off" THEN 0 ELSE @,
                        !.done = IF srv.pc = "off" THEN 0 ELSE @]
  /\ wire' = <<>>

RecvDetails ==
  /\ cli.pc = "ask"
  /\ wire # <<>>
  /\ Head(wire).kind = "details"
  /\ cli' = [cli EXCEPT !.pc = "recv", !.size = Head(wire).size, !.done = 0]
  /\ got' = <<>>
  /\ wire' = Tail(wire)
  /\ UNCHANGED <<masterImage, srv, events>>

RecvChunk ==
  /\ cli.pc = "recv"
  /\ cli.done < cli.size
  /\ wire # <<>>
  /\ Head(wire).kind = "chunk"
  /\ Len(got) < MaxFile
  /\ got' = got \o Head(wire).data
  /\ cli' = [cli EXCEPT !.done = Int32(@ + Chunk)]
  /\ wire' = Tail(wire)
  /\ UNCHANGED <<masterImage, srv, events>>

\* file.Write fails after k bytes of the chunk.  Its error is not looked at, and
\* the chunk is counted.
WriteFails(k) ==
  /\ cli.pc = "recv"
  /\ cli.done < cli.size
  /\ wire # <<>>
  /\ Head(wire).kind = "chunk"
  /\ k < Len(Head(wire).data)
  /\ Event
  /\ got' = got \o SubSeq(Head(wire).data, 1, k)
  /\ cli' = [cli EXCEPT !.done = Int32(@ + Chunk), !.whole = FALSE]
  /\ wire' = Tail(wire)
  /\ UNCHANGED <<masterImage, srv>>

Waiting == cli.pc = "ask" \/ (cli.pc = "recv" /\ cli.done < cli.size)

\* Mutant: the error of Recv is not looked at.
RecvEofIgnored ==
  /\ Waiting
  /\ wire # <<>>
  /\ Head(wire).kind = "eof"
  /\ wire' = Tail(wire)
  /\ UNCHANGED <<masterImage, srv, cli, got, events>>

\* The server returned, with or without an error.
RecvEof ==
  /\ Waiting
  /\ wire # <<>>
  /\ Head(wire).kind = "eof"
  /\ Return
  /\ UNCHANGED <<masterImage, got, events>>

\* The call breaks off (environment).
CallBreaks ==
  /\ cli.pc # "idle"
  /\ Event
  /\ Return
  /\ UNCHANGED <<masterImage, got>>

\* Mutant: the loop ends one chunk early.
ReceivedEarly ==
  /\ cli.pc = "recv"
  /\ cli.done + Chunk >= cli.size
  /\ Return
  /\ UNCHANGED <<masterImage, got, events>>

\* Enough bytes: the call succeeds without waiting for the end of the stream.
Received ==
  /\ cli.pc = "recv"
  /\ cli.done >= cli.size
  /\ Return
  /\ UNCHANGED <<masterImage, got, events>>

-----------------------------------------------------------------------------
Upload ==
  \/ \E n \in Sizes : CreateFile(n)
  \/ \E n \in {Len(disk) + Chunk, upload.size} : CopyBlock(n)
  \/ CopyFails
  \/ NewProblem
  \/ RegisterImage

Answer == Refuse \/ Open
Serve == ServeChunk \/ ServeEnds
Client == RecvDetails \/ RecvChunk \/ \E k \in 0 .. Chunk - 1 : WriteFails(k)
=============================================================================
