---------------------------- MODULE ObjectStream ----------------------------
(***************************************************************************)
(* The streams of dmlc-core on an object store: Amazon S3 over libcurl     *)
(* (s3_filesys.cc) and Huawei OBS through its SDK (obs_filesys.cc).        *)
(*                                                                         *)
(* A write stream uploads its buffer in parts and makes the object of the  *)
(* parts when it is destroyed.  An S3 request whose connection fails is    *)
(* sent again, whether or not the store has carried it out.  A read stream *)
(* keeps one connection open; S3's is to open it again where it broke.      *)
(* The byte at position i of an object is the number i.  The store and the *)
(* network are external.                                                   *)
(***************************************************************************)
EXTENDS Integers, FiniteSets, Sequences, SequencesExt

CONSTANTS
    FileSize,       \* size of the object that is read
    MaxBuffer,      \* max_buffer_size_, in bytes
    MaxWritten,     \* bound on the bytes written
    MaxFailures     \* bound on the connections that fail

VARIABLES
    kind,       \* "s3" or "obs"
    wr,         \* the write stream
    store,      \* uploads: upload id -> part number -> bytes; object: the object, or NoObject
    rd,         \* the read stream
    failures

streamVars == <<kind, wr, store, rd, failures>>
writeVars == <<wr, store>>

NoObject == <<0>>
Bytes(a, b) == [i \in 1 .. b - a |-> a + i]     \* the bytes after position a up to position b
MayFail == failures < MaxFailures
CountFailure == failures' = failures + 1
-----------------------------------------------------------------------------
(* The write stream.  pc: "init", "open", "upload", "finish", "done" or    *)
(* "fatal"; ids: the upload ids in the responses collected by Run.         *)

MaxErrorRetry == 3

\* Write, up to the call of Upload
Write(n) ==
    /\ wr.pc = "open" /\ wr.written + n <= MaxWritten
    /\ LET b == wr.buffer \o Bytes(wr.written, wr.written + n)
       IN  wr' = [wr EXCEPT !.buffer = b, !.written = @ + n, !.then = "open",
                            !.pc = IF Len(b) >= MaxBuffer THEN "upload" ELSE "open"]
    /\ UNCHANGED <<kind, store, rd, failures>>

\* ~WriteStream: S3 uploads only what there is, OBS uploads even an empty part.
Destroy ==
    /\ wr.pc = "open"
    /\ wr' = [wr EXCEPT !.pc = IF kind = "s3" /\ wr.buffer = <<>> THEN "finish" ELSE "upload",
                        !.then = "finish"]
    /\ UNCHANGED <<kind, store, rd, failures>>

PartNo == Len(wr.etags) + 1

\* What the store does with the request of the stream: initiate an upload, store a part, or
\* complete the upload, which fails if the upload is gone or a part does not match.
Initiated == [store EXCEPT !.uploads = Append(@, <<>>)]
PartStored ==
    [store EXCEPT !.uploads[wr.id] =
        [p \in DOMAIN @ \cup {PartNo} |-> IF p = PartNo THEN wr.buffer ELSE @[p]]]
MayComplete ==
    /\ wr.etags # <<>>
    /\ store.uploads[wr.id] = [p \in DOMAIN wr.etags |-> wr.etags[p]]
Completed == [uploads |-> [store.uploads EXCEPT ![wr.id] = <<NoObject>>], object |-> FlattenSeq(wr.etags)]

Applied ==
    CASE wr.pc = "init" -> Initiated
      [] wr.pc = "upload" -> PartStored
      [] wr.pc = "finish" -> IF MayComplete THEN Completed ELSE store

\* WriteStream::Run when the connection fails, before or after the store got the request.  The
\* response of an initiated upload may have arrived.  OBS's SDK reports an error, which is fatal.
RequestFails ==
    /\ wr.pc \in {"init", "upload", "finish"} /\ MayFail /\ CountFailure
    /\ store' \in {store, Applied}
    /\ \E ids \in {wr.ids} \cup IF wr.pc = "init" /\ store' # store THEN {Append(wr.ids, Len(store'.uploads))} ELSE {} :
          wr' = [wr EXCEPT !.tries = @ + 1, !.ids = ids,
                           !.pc = IF kind = "obs" \/ wr.tries + 1 = MaxErrorRetry THEN "fatal" ELSE @]
    /\ UNCHANGED <<kind, rd>>

\* Run when the connection holds, and what Init, Upload and Finish make of the response: Init
\* takes the first upload id of what was collected.
InitRequest ==
    /\ wr.pc = "init"
    /\ store' = Applied
    /\ wr' = [wr EXCEPT !.id = Head(Append(wr.ids, Len(store'.uploads))), !.tries = 0, !.pc = "open"]
    /\ UNCHANGED <<kind, rd, failures>>

\* mutant of Upload: the buffer is not cleared
MutUpload ==
    /\ wr.pc = "upload"
    /\ store' = Applied
    /\ wr' = [wr EXCEPT !.etags = Append(@, wr.buffer), !.tries = 0, !.pc = wr.then]
    /\ UNCHANGED <<kind, rd, failures>>

Upload ==
    /\ wr.pc = "upload"
    /\ store' = Applied
    /\ wr' = [wr EXCEPT !.etags = Append(@, wr.buffer), !.buffer = <<>>, !.tries = 0, !.pc = wr.then]
    /\ UNCHANGED <<kind, rd, failures>>

Finish ==
    /\ wr.pc = "finish"
    /\ store' = Applied
    /\ wr' = [wr EXCEPT !.pc = IF MayComplete THEN "done" ELSE "fatal"]
    /\ UNCHANGED <<kind, rd, failures>>
-----------------------------------------------------------------------------
(* The read stream.  pc: "idle", "init", "copy", "fill", "finish", "retry" *)
(* or "fatal"; start, want, got: the call of Read; conn: "none", "open" or *)
(* "over"; sent: position up to which the connection has sent.             *)

NoConn == "none"
Reading(pc) == rd.pc = pc /\ kind = "s3"
ReadStep == UNCHANGED <<kind, wr, store>>

\* Cleanup, with the position the caller sets
Cleanup(r, pos) == [r EXCEPT !.conn = NoConn, !.buf = <<>>, !.curr = pos, !.end = FALSE]

Seek(pos) ==
    /\ rd.pc = "idle" /\ rd.curr # pos
    /\ rd' = [Cleanup(rd, pos) EXCEPT !.start = pos, !.got = <<>>]
    /\ ReadStep /\ UNCHANGED failures

\* Read up to its loop; at the end it returns nothing.
StartRead(n) ==
    /\ Reading("idle")
    /\ rd' = [rd EXCEPT !.start = rd.curr, !.want = n, !.got = <<>>,
                        !.pc = IF rd.conn = NoConn THEN "init" ELSE IF rd.end THEN "idle" ELSE "copy"]
    /\ ReadStep /\ UNCHANGED failures

\* FillBuffer(nwant): waits until the buffer has nwant bytes, or the connection is over, because
\* everything was sent or because it broke off.  more: bytes that arrive.
Fill(r, want, more) ==
    [r EXCEPT !.buf = @ \o Bytes(r.sent, r.sent + more), !.sent = @ + more,
              !.conn = IF Len(r.buf) + more >= want /\ r.sent + more < FileSize THEN "open" ELSE "over"]
FillNeeded(r, want) == Len(r.buf) < want
Breaks(r, want, more) == Len(r.buf) + more < want /\ r.sent + more < FileSize
MayFill(r, want, more) ==
    /\ r.sent + more <= FileSize
    /\ ~FillNeeded(r, want) => more = 0
    /\ Breaks(r, want, more) => MayFail
CountBreak(broken) == failures' = IF broken THEN failures + 1 ELSE failures
\* what it returns: the number of connections still running, 0 if it had nothing to wait for
FillBuffer(r, want, more) == IF FillNeeded(r, want) /\ Fill(r, want, more).conn = "open" THEN 1 ELSE 0

\* Init and InitRequest: a request for the bytes from pos on
Connect(pos) == [Cleanup(rd, pos) EXCEPT !.conn = "open", !.sent = pos, !.ptr = 0]

InitRead(more) ==
    /\ Reading("init")
    /\ LET r == Connect(rd.curr)
       IN  /\ MayFill(r, 1, more) /\ CountBreak(Breaks(r, 1, more))
           /\ rd' = [Fill(r, 1, more) EXCEPT !.pc = "copy"]
    /\ ReadStep

CopyBuffer ==
    /\ Reading("copy")
    /\ LET left == rd.want - Len(rd.got)
           n == IF left < Len(rd.buf) - rd.ptr THEN left ELSE Len(rd.buf) - rd.ptr
       IN  rd' = IF left = 0 THEN [rd EXCEPT !.pc = "finish"]
                 ELSE IF rd.ptr = Len(rd.buf) THEN [rd EXCEPT !.buf = <<>>, !.ptr = 0, !.pc = "fill"]
                 ELSE [rd EXCEPT !.got = @ \o SubSeq(rd.buf, rd.ptr + 1, rd.ptr + n), !.ptr = @ + n]
    /\ ReadStep /\ UNCHANGED failures

\* A connection that is over sends nothing more.
FillRead(more) ==
    /\ Reading("fill")
    /\ rd.conn = "over" => more = 0
    /\ LET want == rd.want - Len(rd.got)
           broken == rd.conn = "open" /\ Breaks(rd, want, more)
           r == Fill(rd, want, more)
       IN  /\ rd.sent + more <= FileSize
           /\ broken => MayFail
           /\ CountBreak(broken)
           /\ rd' = IF r.conn = "over" /\ r.buf = <<>> THEN [r EXCEPT !.end = TRUE, !.pc = "finish"]
                    ELSE [r EXCEPT !.pc = "copy"]
    /\ ReadStep

\* The end of Read: a stream that ended before the end of the object is connected again.
FinishRead ==
    /\ Reading("finish")
    /\ LET curr == rd.curr + Len(rd.got)
       IN  rd' = [rd EXCEPT !.curr = curr, !.retry = 0,
                            !.pc = IF rd.end /\ curr # FileSize THEN "retry" ELSE "idle"]
    /\ ReadStep /\ UNCHANGED failures

\* The loop that re-establishes the connection: Init waits for the first byte, then FillBuffer(1)
\* is asked for one.
Reconnect(more) ==
    /\ Reading("retry")
    /\ LET c == Connect(rd.curr)
           r == Fill(c, 1, more)
       IN  /\ MayFill(c, 1, more) /\ CountBreak(Breaks(c, 1, more))
           /\ rd' = IF FillBuffer(r, 1, 0) # 0 THEN [r EXCEPT !.pc = "idle"]
                    ELSE [r EXCEPT !.retry = @ + 1, !.pc = IF rd.retry + 1 < 4 THEN "retry" ELSE "fatal"]
    /\ ReadStep

\* OBS: every Read is a request of its own; one that fails is fatal.
ObsRead(n) ==
    /\ rd.pc = "idle" /\ kind = "obs"
    /\ \/ /\ MayFail /\ ~rd.end /\ CountFailure
          /\ rd' = [rd EXCEPT !.pc = "fatal"]
       \/ /\ UNCHANGED failures
          /\ LET to == IF rd.end THEN rd.curr ELSE IF rd.curr + n < FileSize THEN rd.curr + n ELSE FileSize
             IN  rd' = [rd EXCEPT !.start = rd.curr, !.want = n, !.got = Bytes(rd.curr, to), !.curr = to,
                                  !.end = (to = FileSize)]
    /\ ReadStep
-----------------------------------------------------------------------------
InitWrite ==
    /\ wr = [pc |-> "init", then |-> "open", buffer |-> <<>>, written |-> 0, etags |-> <<>>, tries |-> 0,
             id |-> 0, ids |-> <<>>]
    /\ store = [uploads |-> <<>>, object |-> NoObject]
InitReader ==
    rd = [pc |-> "idle", start |-> 0, want |-> 0, got |-> <<>>, curr |-> 0, end |-> FALSE, conn |-> NoConn,
          sent |-> 0, buf |-> <<>>, ptr |-> 0, retry |-> 0]

Init == kind \in {"s3", "obs"} /\ InitWrite /\ InitReader /\ failures = 0

NextWrite ==
    \/ \E n \in 1 .. MaxBuffer + 1 : Write(n)
    \/ Destroy \/ RequestFails \/ InitRequest \/ Upload \/ Finish

NextRead ==
    \/ \E pos \in 0 .. FileSize - 1 : Seek(pos)
    \/ \E n \in 1 .. FileSize : StartRead(n) \/ ObsRead(n)
    \/ \E more \in 0 .. FileSize : InitRead(more) \/ FillRead(more) \/ Reconnect(more)
    \/ CopyBuffer \/ FinishRead
-----------------------------------------------------------------------------
\* The object is there only when the stream was destroyed, and then it is the bytes written in
\* the order they were written: no request that is sent twice, no part and no empty buffer
\* shows in it, and an interrupted write leaves no object.
WholeOrNothing ==
    /\ store.object # NoObject =>
          store.object = Bytes(0, wr.written) /\ wr.pc \in {"finish", "done", "fatal"}
    /\ wr.pc = "done" => store.object # NoObject

\* A call of Read that returns gives the bytes from the position the stream was at, whatever seeks
\* and buffers there were, and the stream is then after them; a connection that breaks off is never
\* taken for the end of the object.  Whether the stream then goes on is Reconnects.
ReadsRight ==
    rd.pc = "idle" =>
        /\ rd.got = Bytes(rd.start, rd.start + Len(rd.got)) /\ Len(rd.got) <= rd.want
        /\ rd.curr = rd.start + Len(rd.got)
        /\ rd.end => rd.curr = FileSize

\* A stream gives up reading only when it could not connect again: never with the first bytes of a
\* new connection in its buffer.
Reconnects == kind = "s3" /\ rd.pc = "fatal" => rd.buf = <<>>
=============================================================================
