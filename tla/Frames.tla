--------------------------------- MODULE Frames ---------------------------------
(***************************************************************************)
(* The bytes of a serial line (board/slider-frame.c, led1509306-frame.c,   *)
(* rfid-frame.c, sg-frame.c and jvs/jvs-frame.c): a sync byte in front, an *)
(* escape in front of a byte that looks like one of the two, a checksum    *)
(* behind.  The first three formats are a stream: a write may hand over    *)
(* half a frame or several, and the handler decodes until it finds no more. *)
(* The others get one whole frame a call.                                  *)
(*                                                                         *)
(* The game's end of the line is the format's encoder, which is the one    *)
(* that the replies are made with.  Bytes have their width.                *)
(***************************************************************************)
EXTENDS Naturals, Sequences

CONSTANTS
    FrameFormats,    \* those to look at
    FramePayloads,   \* for each, what the game may put in a frame
    FrameNoises,     \* what the line may add in front of a frame of a stream
    FrameRoom,       \* bytes of the buffer that a frame is decoded into
    FrameMax         \* bound: frames that the game sends

FrameStreams == {"slider", "led", "rfid"}
FrameByte == 0 .. 255

ASSUME FrameFormatsAssumption == FrameFormats \subseteq FrameStreams \cup {"sg", "jvs"}

(* A frame with its header and checksum fits the board's buffer, and its length
   a byte.                                                                 *)
ASSUME FramePayloadsAssumption ==
    \A f \in FrameFormats : \A p \in FramePayloads[f] :
       p \in Seq(FrameByte) /\ Len(p) <= 252 /\ Len(p) + 5 <= FrameRoom
ASSUME FrameBoundsAssumption == FrameRoom \in Nat /\ FrameMax \in Nat

(* The bytes in front of a frame and of a byte that looks like one of the two *)
FrameSyncOf(format) == IF format = "slider" THEN 255 ELSE 224
FrameEscapeOf(format) == IF format = "slider" THEN 253 ELSE 208

(* What a line adds does not look like the start of a frame. *)
ASSUME FrameNoisesAssumption ==
    \A f \in FrameFormats \cap FrameStreams : \A noise \in FrameNoises :
       noise \in Seq(FrameByte) /\ \A i \in 1 .. Len(noise) : noise[i] # FrameSyncOf(f)

VARIABLES
    frameFormat,
    frameLine,      \* bytes that the game has still to write (the game's)
    frameWritten,   \* uart.written
    frameAt,        \* whether a call is in the handler's loop
    frameSent,      \* the frames that the game has put on the line (the game's)
    frameGot,       \* those that were dispatched
    frameSlipped    \* a sync has left bytes where they were (see FrameSynced)

frameVars == <<frameFormat, frameLine, frameWritten, frameAt, frameSent, frameGot,
               frameSlipped>>

FrameTypeOK ==
    /\ frameFormat \in FrameFormats
    /\ frameLine \in Seq(FrameByte) /\ frameWritten \in Seq(FrameByte)
    /\ frameAt \in {"idle", "loop"} /\ frameSlipped \in BOOLEAN
    /\ Len(frameSent) <= FrameMax

FrameInit ==
    /\ frameFormat \in FrameFormats
    /\ frameLine = <<>> /\ frameWritten = <<>> /\ frameAt = "idle"
    /\ frameSent = <<>> /\ frameGot = <<>> /\ frameSlipped = FALSE

-----------------------------------------------------------------------------
(* Bytes *)

FrameMod(n) == n % 256

(* What step makes of start and the bytes, one after the other *)
FrameRun(step(_, _), start, bytes) ==
    LET run[i \in 0 .. Len(bytes)] ==
            IF i = 0 THEN start ELSE step(run[i - 1], bytes[i])
    IN  run[Len(bytes)]

FrameSum(bytes) == FrameRun(LAMBDA sum, byte : FrameMod(sum + byte), 0, bytes)

FrameFront(bytes) == SubSeq(bytes, 1, Len(bytes) - 1)
FrameAfter(bytes, n) == SubSeq(bytes, n + 1, Len(bytes))

-----------------------------------------------------------------------------
(* Seeded faults: what a definition below might have been by mistake; each one
   breaks a property, and none is part of the specification.               *)

(* Only the sync byte is escaped. *)
FrameStuffed_SyncOnly(sync, escape, byte) ==
    IF byte = sync THEN <<escape, byte - 1>> ELSE <<byte>>

(* What lies behind a frame is thrown away with it. *)
FrameLeft_Nothing(bytes, decoder) == IF decoder.hr = "more" THEN bytes ELSE <<>>

(* A decoder's outcome is taken for one, whatever state the escape is in. *)
FrameUnescaped_Kept(decoder, byte) == [decoder EXCEPT !.dest = Append(@, FrameMod(byte + 1))]

-----------------------------------------------------------------------------
(* Encoders: from the sync byte, if it is one of the bytes given, to a checksum *)

(* *_frame_encode_byte; there is room, see Slider for when there is none. *)
FrameStuffed(sync, escape, byte) ==
    IF byte \in {sync, escape} THEN <<escape, byte - 1>> ELSE <<byte>>

FrameEncoded(sync, escape, bytes, checksum) ==
    LET stuff(out, byte) == out \o FrameStuffed(sync, escape, byte)
    IN  FrameRun(stuff, <<sync>>, Append(bytes, checksum))

SliderFrameEncode(bytes) ==
    FrameEncoded(255, 253, Tail(bytes), FrameMod(256 - FrameSum(bytes)))

Led1509306FrameEncode(bytes) ==
    FrameEncoded(224, 208, Tail(bytes), FrameSum(Tail(bytes)))

RfidFrameEncode(bytes) ==
    FrameEncoded(224, 208, Tail(bytes), FrameSum(Tail(bytes)))

SgFrameEncode(bytes) == FrameEncoded(224, 208, bytes, FrameSum(bytes))

JvsFrameEncode(bytes) == FrameEncoded(224, 208, bytes, FrameSum(bytes))

FrameEncode(bytes) ==
    CASE frameFormat = "slider" -> SliderFrameEncode(bytes)
      [] frameFormat = "led"    -> Led1509306FrameEncode(bytes)
      [] frameFormat = "rfid"   -> RfidFrameEncode(bytes)
      [] frameFormat = "sg"     -> SgFrameEncode(bytes)
      [] frameFormat = "jvs"    -> JvsFrameEncode(bytes)

(* The bytes that an encoder is given for a payload; the other fields of the
   headers are 1.                                                          *)
FrameOf(payload) ==
    LET n == Len(payload) IN
    CASE frameFormat = "slider" -> <<255, 1, n>> \o payload
      [] frameFormat = "led"    -> <<224, 1, 1, n>> \o payload
      [] frameFormat = "rfid"   -> <<224, 1, n>> \o payload
      [] frameFormat = "sg"     -> <<n + 3, 1, 1>> \o payload
      [] frameFormat = "jvs"    -> <<1, n + 1>> \o payload

-----------------------------------------------------------------------------
(* Decoders of streams.  The state of one: the bytes it has unstuffed, whether
   the last was an escape, how many it has used, and hr - "more" for S_FALSE. *)

FrameFresh == [dest |-> <<>>, escape |-> FALSE, used |-> 0, hr |-> "more"]

FramePut(decoder, byte) == [decoder EXCEPT !.dest = Append(@, byte)]

FrameUnescaped(decoder, byte) ==
    [FramePut(decoder, FrameMod(byte + 1)) EXCEPT !.escape = FALSE]

FrameUnstuff(format, decoder, byte) ==
    IF Len(decoder.dest) >= FrameRoom THEN [decoder EXCEPT !.hr = "no room"]
    ELSE IF decoder.used = 0 THEN FramePut(decoder, byte)
    ELSE IF byte = FrameSyncOf(format) THEN [decoder EXCEPT !.hr = "fail"]
    ELSE IF byte = FrameEscapeOf(format)
         THEN [decoder EXCEPT !.hr = IF decoder.escape THEN "fail" ELSE "more", !.escape = TRUE]
    ELSE IF decoder.escape THEN FrameUnescaped(decoder, byte)
    ELSE FramePut(decoder, byte)

(* The length field at an index, and what it leaves out of the frame.  A field
   that is not there yet is read all the same, but agrees with no length that
   a frame then has.                                                       *)
FrameComplete(dest, field, rest) ==
    Len(dest) >= field /\ Len(dest) = dest[field] + rest

FrameSummed(dest, first) ==
    IF FrameSum(SubSeq(dest, first, Len(dest) - 1)) = dest[Len(dest)] THEN "ok" ELSE "crc"

SliderFrameAccept(dest) ==
    IF ~FrameComplete(dest, 3, 4) THEN "more" ELSE IF FrameSum(dest) = 0 THEN "ok" ELSE "crc"

Led1509306FrameAccept(dest) ==
    IF ~FrameComplete(dest, 4, 5) THEN "more" ELSE FrameSummed(dest, 2)

RfidFrameAccept(dest) ==
    IF ~FrameComplete(dest, 3, 4) THEN "more" ELSE FrameSummed(dest, 2)

FrameAccept(format, dest) ==
    CASE format = "slider" -> SliderFrameAccept(dest)
      [] format = "led"    -> Led1509306FrameAccept(dest)
      [] format = "rfid"   -> RfidFrameAccept(dest)

(* One byte: unstuff it, and try to accept what there is now. *)
FrameStep(format, decoder, byte) ==
    LET next == FrameUnstuff(format, decoder, byte) IN
    IF decoder.hr # "more" THEN decoder
    ELSE [next EXCEPT !.used = decoder.used + 1,
                      !.hr = IF next.hr = "more" THEN FrameAccept(format, next.dest)
                             ELSE next.hr]

FrameDecoded(format, bytes) ==
    FrameRun(LAMBDA decoder, byte : FrameStep(format, decoder, byte), FrameFresh, bytes)

SliderFrameDecode(bytes) == FrameDecoded("slider", bytes)

Led1509306FrameDecode(bytes) == FrameDecoded("led", bytes)

RfidFrameDecode(bytes) == FrameDecoded("rfid", bytes)

-----------------------------------------------------------------------------
(* Decoders of whole frames; the sync byte is not one of the bytes they give. *)

(* An escape takes the next byte whatever it is, and one at the end fails. *)
SgFrameStep(decoder, byte) ==
    IF decoder.hr # "more" THEN decoder
    ELSE IF decoder.escape THEN FrameUnescaped(decoder, byte)
    ELSE IF Len(decoder.dest) >= FrameRoom THEN [decoder EXCEPT !.hr = "no room"]
    ELSE IF byte = 224 THEN [decoder EXCEPT !.hr = "fail"]
    ELSE IF byte = 208 THEN [decoder EXCEPT !.escape = TRUE]
    ELSE FramePut(decoder, byte)

SgFrameDecode(bytes) ==
    LET end == FrameRun(SgFrameStep, FrameFresh, Tail(bytes))
    IN  IF Head(bytes) # 224 \/ (end.hr = "more" /\ end.escape) THEN [end EXCEPT !.hr = "fail"]
        ELSE IF end.hr = "more" /\ FrameComplete(end.dest, 1, 1)
             THEN [end EXCEPT !.hr = FrameSummed(end.dest, 1)]
        ELSE end

(* An escape at the end is ignored.  jvs_frame_check_sum of an empty frame runs
   through memory: "undefined".                                            *)
JvsFrameStep(decoder, byte) ==
    IF decoder.hr # "more" THEN decoder
    ELSE IF byte = 224 \/ (byte = 208 /\ decoder.escape) THEN [decoder EXCEPT !.hr = "fail"]
    ELSE IF byte = 208 THEN [decoder EXCEPT !.escape = TRUE]
    ELSE IF Len(decoder.dest) >= FrameRoom THEN [decoder EXCEPT !.hr = "no room"]
    ELSE IF decoder.escape THEN FrameUnescaped(decoder, byte)
    ELSE FramePut(decoder, byte)

JvsFrameDecode(bytes) ==
    LET end == FrameRun(JvsFrameStep, FrameFresh, Tail(bytes))
    IN  IF Head(bytes) # 224 THEN [end EXCEPT !.hr = "fail"]
        ELSE IF end.hr # "more" THEN end
        ELSE IF end.dest = <<>> THEN [end EXCEPT !.hr = "undefined"]
        ELSE [end EXCEPT !.hr = FrameSummed(end.dest, 1)]

-----------------------------------------------------------------------------
(* The game *)

(* The next frame, with what the line adds in front of it *)
FrameSend(payload, noise) ==
    /\ Len(frameSent) < FrameMax
    /\ frameFormat \notin FrameStreams => frameLine = <<>> /\ noise = <<>>
    /\ frameLine' = frameLine \o noise \o FrameEncode(FrameOf(payload))
    /\ frameSent' = Append(frameSent, FrameOf(payload))
    /\ UNCHANGED <<frameFormat, frameWritten, frameAt, frameGot, frameSlipped>>

(* uart_handle_irp of a write: any number of bytes of a stream, or one frame *)
FrameWrite(n) ==
    /\ frameAt = "idle"
    /\ frameFormat \notin FrameStreams => n = Len(frameLine)
    /\ frameWritten' = frameWritten \o SubSeq(frameLine, 1, n)
    /\ frameLine' = FrameAfter(frameLine, n)
    /\ frameAt' = "loop"
    /\ UNCHANGED <<frameFormat, frameSent, frameGot, frameSlipped>>

-----------------------------------------------------------------------------
(* The handlers *)

(* How many bytes lie in front of the first sync byte *)
FrameSkipped(bytes, sync) ==
    CHOOSE i \in 0 .. Len(bytes) :
       /\ \A j \in 1 .. i : bytes[j] # sync
       /\ i < Len(bytes) => bytes[i + 1] = sync

(* *_frame_sync: it counts those off, and then moves as many bytes to the front
   as it has skipped, not as many as are left: the others stay as they were. *)
FrameSynced(bytes, skipped) ==
    [j \in 1 .. Len(bytes) - skipped |->
        IF j <= skipped THEN bytes[j + skipped] ELSE bytes[j]]

(* The end of *_frame_decode: what was accepted or rejected is removed. *)
FrameLeft(bytes, decoder) ==
    IF decoder.hr = "more" THEN bytes ELSE FrameAfter(bytes, decoder.used)

FrameTaken(decoder) ==
    frameGot' = IF decoder.hr = "ok" THEN Append(frameGot, FrameFront(decoder.dest))
                ELSE frameGot

FrameDecodeStream ==
    /\ frameAt = "loop" /\ frameFormat \in FrameStreams
    /\ LET skipped == FrameSkipped(frameWritten, FrameSyncOf(frameFormat))
           bytes == FrameSynced(frameWritten, skipped)
           decoder == CASE frameFormat = "slider" -> SliderFrameDecode(bytes)
                        [] frameFormat = "led"    -> Led1509306FrameDecode(bytes)
                        [] frameFormat = "rfid"   -> RfidFrameDecode(bytes)
       IN  /\ frameWritten' = FrameLeft(bytes, decoder)
           /\ FrameTaken(decoder)
           /\ frameAt' = IF decoder.hr = "ok" THEN "loop" ELSE "idle"
           /\ frameSlipped' = (frameSlipped \/ (0 < skipped /\ skipped < Len(bytes)))
    /\ UNCHANGED <<frameFormat, frameLine, frameSent>>

(* sg_req_transact, jvs_crack_request: the buffer is emptied behind the call. *)
FrameDecodeWhole ==
    /\ frameAt = "loop" /\ frameFormat \notin FrameStreams
    /\ FrameTaken(IF frameFormat = "sg" THEN SgFrameDecode(frameWritten)
                  ELSE JvsFrameDecode(frameWritten))
    /\ frameWritten' = <<>> /\ frameAt' = "idle"
    /\ UNCHANGED <<frameFormat, frameLine, frameSent, frameSlipped>>

FrameNext ==
    \/ \E payload \in FramePayloads[frameFormat], noise \in FrameNoises : FrameSend(payload, noise)
    \/ \E n \in 1 .. Len(frameLine) : FrameWrite(n)
    \/ FrameDecodeStream \/ FrameDecodeWhole

FrameSpec == FrameInit /\ [][FrameNext]_frameVars

-----------------------------------------------------------------------------
(* Properties *)

(* However the line cuts its bytes into writes and whatever it adds between the
   frames, a board handles each frame that the game has sent, once, unchanged
   and in order, and has handled all of it when the last byte is written -
   unless a sync has left the wrong bytes behind it. What is on the line and
   in the board's buffer are bytes throughout.                             *)
FramesArrive ==
    /\ FrameTypeOK
    /\ ~frameSlipped =>
          /\ frameGot = SubSeq(frameSent, 1, Len(frameGot))
          /\ frameLine = <<>> /\ frameAt = "idle" => frameGot = frameSent
=============================================================================
