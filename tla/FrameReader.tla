----------------------------- MODULE FrameReader ------------------------------
(***************************************************************************)
(* One direction of the stream between collector and processor: frames of  *)
(* a length and a JSON text, written whole, read piece by piece under a    *)
(* timeout, by the processor (online/sassguard_online/framing.py and the   *)
(* loop of _handle_conn) or by the collector (readJSONFrame and readLoop   *)
(* of collector/go/cmd/sassguard-collector/online.go).                     *)
(*                                                                         *)
(* A unit of the stream is <<frame, position>>; the first HeaderUnits of a *)
(* frame are its length.                                                   *)
(***************************************************************************)
EXTENDS Integers, Sequences, FiniteSets, SequencesExt

CONSTANTS
  FrameSizes,   \* lengths of payloads, in units
  HeaderUnits,
  MaxWritten,   \* bound: frames
  TooLarge      \* any length above frame_max_bytes

ASSUME FrameAssumption ==
  /\ FrameSizes \subseteq Nat \ {0} /\ HeaderUnits \in Nat \ {0}
  /\ MaxWritten \in Nat /\ TooLarge \notin FrameSizes

VARIABLES
  side,         \* who reads: "processor" or "collector"
  sizes,        \* the frames written
  stream,       \* units written and not yet read
  writer,       \* "open", or "gone" after a close or a broken write
  reading,      \* "length", "payload", or "closed"
  wanted, got,  \* units this read asks for, and those it has
  frames,       \* frames handed on
  cut           \* history: reads that a timeout interrupted

readVars == <<reading, wanted, got, frames>>
frameVars == <<side, sizes, stream, writer, readVars, cut>>

FrameInit ==
  /\ side \in {"processor", "collector"}
  /\ sizes = <<>> /\ stream = <<>> /\ writer = "open"
  /\ reading = "length" /\ wanted = HeaderUnits /\ got = <<>>
  /\ frames = <<>> /\ cut = {}

-----------------------------------------------------------------------------
(* send_frame, writeJSONFrame.  A write that fails leaves a part behind,   *)
(* and the connection is closed.                                           *)
WriteFrame(size) ==
  /\ writer = "open" /\ Len(sizes) < MaxWritten
  /\ sizes' = Append(sizes, size)
  /\ stream' = stream \o [p \in 1..(HeaderUnits + size) |-> <<Len(sizes) + 1, p>>]
  /\ UNCHANGED <<side, writer, readVars, cut>>

WriterGone ==
  /\ writer = "open" /\ writer' = "gone"
  /\ \E n \in 0..Len(stream) : stream' = SubSeq(stream, 1, n)
  /\ UNCHANGED <<side, sizes, readVars, cut>>

-----------------------------------------------------------------------------
(* The units of one read, in order and of one frame from position p on.    *)
Aligned(units, p) ==
  \A i \in DOMAIN units : units[i] = <<units[1][1], p + i - 1>>

(* What a read length says.  JSON text begins with bytes that make it too  *)
(* large; the rest of a length before such bytes may make it anything.     *)
Lengths(units) ==
  CASE Aligned(units, 1)          -> {sizes[units[1][1]]}
    [] units[1][2] > HeaderUnits -> {TooLarge}
    [] OTHER                     -> FrameSizes \cup {TooLarge}

Ask(part, n) == reading' = part /\ wanted' = n /\ got' = <<>>
Close == Ask("closed", 0)

ReadLength(units) ==
  \E n \in Lengths(units) :
    IF n = TooLarge THEN Close ELSE Ask("payload", n)

(* Text that does not parse: the processor answers with an error and reads *)
(* on, the collector drops the connection.                                 *)
IsFrame(units) ==
  /\ Aligned(units, HeaderUnits + 1) /\ Len(units) = sizes[units[1][1]]
ReadPayload(units) ==
  IF IsFrame(units)
  THEN frames' = Append(frames, units[1][1]) /\ Ask("length", HeaderUnits)
  ELSE /\ UNCHANGED frames
       /\ IF side = "processor" THEN Ask("length", HeaderUnits) ELSE Close

(* _recv_exact, io.ReadFull: recv returns some of what is there.           *)
Receive(n) ==
  LET units == got \o SubSeq(stream, 1, n)
  IN  /\ reading # "closed"
      /\ stream' = SubSeq(stream, n + 1, Len(stream))
      /\ IF Len(units) < wanted
         THEN got' = units /\ UNCHANGED <<reading, wanted, frames>>
         ELSE IF reading = "length" THEN ReadLength(units) /\ UNCHANGED frames
              ELSE ReadPayload(units)
      /\ UNCHANGED <<side, sizes, writer, cut>>

(* Faulty: the collector takes any timeout for silence.                    *)
AlwaysSilence == TRUE
(* What a timeout is to the reader: the collector tells one in the length  *)
(* from one in the payload.                                                *)
TakenForSilence == side = "processor" \/ reading = "length"

Timeout ==
  /\ reading # "closed"
  /\ IF TakenForSilence THEN Ask("length", HeaderUnits) ELSE Close
  /\ cut' = IF reading = "payload" \/ got # <<>> THEN cut \cup {reading} ELSE cut
  /\ UNCHANGED <<side, sizes, stream, writer, frames>>

EndOfStream ==
  /\ reading # "closed" /\ writer = "gone" /\ stream = <<>>
  /\ Close
  /\ UNCHANGED <<side, sizes, stream, writer, frames, cut>>

FrameNext ==
  \/ \E size \in FrameSizes : WriteFrame(size)
  \/ WriterGone \/ Timeout \/ EndOfStream
  \/ \E n \in 1..Len(stream) : n <= wanted - Len(got) /\ Receive(n)

FrameSpec == FrameInit /\ [][FrameNext]_frameVars

-----------------------------------------------------------------------------
(* However the stream is cut into pieces, and whenever it breaks, a reader *)
(* hands on the frames in order without a gap, and gives up only when the  *)
(* writer is gone, unless a timeout fell inside a frame.  After one that   *)
(* did, no frame comes twice or out of order either; the collector does    *)
(* not read on in the middle of a payload (recv_frame, readJSONFrame).     *)
FramesIntact ==
  /\ \A i, j \in DOMAIN frames : i < j => frames[i] < frames[j]
  /\ cut = {} => /\ \A i \in DOMAIN frames : frames[i] = i
                 /\ reading = "closed" => writer = "gone"
                 /\ reading # "closed" /\ stream = <<>> /\ got = <<>>
                      /\ reading = "length" /\ writer = "open"
                        => Len(frames) = Len(sizes)
  /\ side = "collector" /\ "payload" \in cut => reading = "closed"
=============================================================================
