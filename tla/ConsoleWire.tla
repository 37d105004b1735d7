---------------------------- MODULE ConsoleWire ----------------------------
(* The layouts of the consoles: what the message classes of                  *)
(* spice-html5/spicemsg.js write and read, with spicetype.js and             *)
(* spicedataview.js, the packed pictures of lz.js, the messages of           *)
(* novnc/rfb.js, and the files that are made for the browser: WebM (webm.js),*)
(* PNG (png.js), icon directories (simulatecursor.js) and noVNC's cursors    *)
(* (novnc/display.js).  A field is its width: what counts is where it begins *)
(* and ends.  SpiceDataView drops a write past the end of the buffer and     *)
(* reads past it as nothing, so that a layout that does not fit goes wrong   *)
(* without an exception.                                                     *)
(* A definition X_Name before Name is Name with a fault, for the mutants.    *)
EXTENDS Integers, Sequences, SequencesExt

CONSTANTS
    Sizes,         \* of data that is carried: packets, names, pictures
    Bytes,         \* values of a byte, for the numbers
    Lengths, Distances \* of the copies in a packed picture, in pixels

ASSUME WireAssumption ==
    Sizes \subseteq Nat /\ Bytes \subseteq 0..255 /\ Lengths \subseteq Nat /\ Distances \subseteq Nat

VARIABLES
    out,           \* a layout being written, field by field
    in,            \* a message and the places that were read of it
    number         \* a number of four bytes that was read, and written again

wireVars == <<out, in, number>>

Sum(ws) == FoldLeft(LAMBDA a, w : a + w, 0, ws)
Times4(n) == [i \in 1..n |-> 4]
-----------------------------------------------------------------------------
(* What is written: fields, of which some declare the length of what comes    *)
(* after them up to an end.                                                   *)
Field(w)       == [kind |-> "field", w |-> w, len |-> 0]
Declares(w, n) == [kind |-> "declares", w |-> w, len |-> n]
End            == [kind |-> "end", w |-> 0, len |-> 0]
Blank(w)       == [kind |-> "blank", w |-> w, len |-> 0]      \* left as the buffer came, zero
Plain(ws) == [i \in DOMAIN ws |-> Field(ws[i])]
Layout(fields, size) == [fields |-> fields, size |-> size]

(* The link.                                                                  *)
SpiceLinkHeader == Layout(Plain(<<1, 1, 1, 1, 4, 4, 4>>), 16)
SpiceLinkMess(common, channel) ==
    Layout(Plain(<<4, 1, 1, 4, 4, 4>> \o Times4(common) \o Times4(channel)), 18 + 4 * common + 4 * channel)
SpiceLinkAuthTicket == Layout(Plain(<<4>> \o [i \in 1..128 |-> 1]), 4 + 128)

(* Messages: SpiceMiniData.build_msg makes a buffer of the size the message   *)
(* says and lets it write into it.                                            *)
SpiceMiniData(extra) == Layout(<<Field(2), Declares(4, extra.size)>> \o extra.fields \o <<End>>, 6 + extra.size)

SpiceMsgcAckSync              == Layout(Plain(<<4>>), 4)
SpiceMsgcMainMouseModeRequest == Layout(Plain(<<2>>), 2)
SpiceMsgcMainAgentStart       == Layout(Plain(<<4>>), 4)
SpiceMsgcDisplayInit          == Layout(Plain(<<1, 8, 1, 4>>), 14)
SpiceMsgcMousePosition        == Layout(Plain(<<4, 4, 2, 1>>), 11)
SpiceMsgcMousePress           == Layout(Plain(<<1, 2>>), 3)
SpiceMsgcKeyDown              == Layout(Plain(<<4>>), 4)

SpiceMsgcMainAgentData(data) ==
    Layout(Plain(<<4, 4, 8>>) \o <<Declares(4, data.size)>> \o data.fields \o <<End>>, 4 + 4 + 8 + 4 + data.size)
VDAgentAnnounceCapabilities  == Layout(Plain(<<4, 4>>), 8)
VDAgentMonitorsConfig        == Layout(Plain(<<4, 4, 4, 4, 4, 4, 4>>), 28)
VDAgentFileXferStatusMessage == Layout(Plain(<<4, 4>>), 8)
VDAgentFileXferDataMessage(n) == Layout(Plain(<<4, 8, n>>), 12 + n)
(* One byte more than it writes: the zero at the end of the string.           *)
VDAgentFileXferStartMessage(n) == Layout(Plain(<<4, n>>) \o <<Blank(1)>>, 4 + n + 1)
-----------------------------------------------------------------------------
(* WebM.  An id is its length.  A length is one byte, or eight.               *)
Value(id, n) == <<Field(id), Declares(1, n), Field(n), End>>
Data(id, n)  == <<Field(id), Declares(IF n < 127 THEN 1 ELSE 8, n), Field(n), End>>
Element(id, declared, content) == <<Field(id), Declares(8, declared)>> \o content \o <<End>>

EBMLHeader ==
    Layout(Element(4, 31, Value(2, 1) \o Value(2, 1) \o Value(2, 1) \o Value(2, 1) \o Data(2, 4)
                          \o Value(2, 1) \o Value(2, 1)), 31 + 8 + 4)
webm_Segment == Layout(Plain(<<4, 1>>), 4 + 1)
webm_SegmentInformation ==
    LET size == 4 + 8 + (3 + 1 + 4) + (2 + 1 + 5) + (2 + 1 + 11)
    IN  Layout(Element(4, size - 8 - 4, Value(3, 4) \o Data(2, 5) \o Data(2, 11)), size)
webm_Audio ==
    LET size == 1 + 8 + (1 + 1 + 4) + (1 + 1 + 1)
    IN  Layout(Element(1, size - 8 - 1, Value(1, 1) \o Value(1, 4)), size)
webm_TrackEntry ==
    LET size == 1 + 8 + (1 + 1 + 1) + (2 + 1 + 1) + (1 + 1 + 1) + (1 + 1 + 1) + (1 + 1 + 1) + (2 + 1 + 1)
                + (1 + 1 + 1) + (2 + 1 + 1) + (2 + 1 + 1) + (1 + 1 + 1) + (2 + 1 + 4) + (2 + 1 + 4)
                + (1 + 6 + 1) + (2 + 1 + 19) + webm_Audio.size
    IN  Layout(Element(1, size - 8 - 1,
            Value(1, 1) \o Value(2, 1) \o Value(1, 1) \o Value(1, 1) \o Value(2, 1) \o Value(1, 1) \o Data(1, 6)
            \o Value(2, 1) \o Value(2, 1) \o Value(1, 1) \o Value(2, 4) \o Value(2, 4) \o Value(1, 1)
            \o Data(2, 19) \o webm_Audio.fields), size)
webm_Tracks ==
    LET size == 4 + 8 + webm_TrackEntry.size
    IN  Layout(Element(4, size - 8 - 4, webm_TrackEntry.fields), size)
webm_Header ==
    Layout(EBMLHeader.fields \o webm_Segment.fields \o webm_SegmentInformation.fields \o webm_Tracks.fields,
           EBMLHeader.size + webm_Segment.size + webm_SegmentInformation.size + webm_Tracks.size)
webm_Cluster == Layout(Plain(<<4, 1>>) \o Value(1, 4), 4 + 1 + (1 + 1 + 4))
webm_SimpleBlock(n) ==
    Layout(Element(1, n + 4, Plain(<<1, 2, 1, n>>)), 1 + 8 + 1 + 2 + 1 + n)
-----------------------------------------------------------------------------
(* PNG: chunks, whose length counts neither itself nor the type nor the CRC.  *)
Chunk(size, content) == <<Declares(4, size - 12 + 4), Field(4)>> \o content \o <<End, Field(4)>>
PngIHDR == Layout(Chunk(12 + 13, Plain(<<4, 4, 1, 1, 1, 1, 1>>)), 12 + 13)
X_PngIDAT(w, h) ==                        \* the filter byte of every row is forgotten
    LET size == 12 + 4 * w * h + 4 + 2 + 1 + 2 + 2
        rows == FlattenSeq([y \in 1..h |-> <<1>> \o Times4(w)])
    IN  Layout(Chunk(size, Plain(<<1, 1, 1, 2, 2>> \o rows \o <<2, 2>>)), size)
PngIDAT(w, h) ==
    LET size == 12 + 4 * w * h + h + 4 + 2 + 1 + 2 + 2
        rows == FlattenSeq([y \in 1..h |-> <<1>> \o Times4(w)])
    IN  Layout(Chunk(size, Plain(<<1, 1, 1, 2, 2>> \o rows \o <<2, 2>>)), size)
PngIEND == Layout(Chunk(12, <<>>), 12)
create_rgba_png(w, h) ==
    Layout(PngIHDR.fields \o PngIDAT(w, h).fields \o PngIEND.fields,
           PngIHDR.size + PngIDAT(w, h).size + PngIEND.size)

ICONDIR == Layout(Plain(<<2, 2, 2>>), 6)
ICONDIRENTRY == Layout(Plain(<<1, 1, 1, 1, 2, 2, 4, 4>>), 16)
create_icondir == Layout(ICONDIR.fields \o ICONDIRENTRY.fields, ICONDIR.size + ICONDIRENTRY.size)
-----------------------------------------------------------------------------
(* noVNC.  The messages of the client, appended byte by byte to one array.    *)
pixelFormat       == Layout(Plain(<<1, 1, 1, 1, 1, 1, 1, 1, 2, 2, 2, 1, 1, 1, 1, 1, 1>>), 20)
clientEncodings(n) == Layout(Plain(<<1, 1>>) \o <<Declares(2, 4 * n)>> \o Plain(Times4(n)) \o <<End>>, 4 + 4 * n)
fbUpdateRequest   == Layout(Plain(<<1, 1, 2, 2, 2, 2>>), 10)
keyEvent          == Layout(Plain(<<1, 1, 2, 4>>), 8)
pointerEvent      == Layout(Plain(<<1, 1, 2, 2>>), 6)
clientCutText(n)  == Layout(Plain(<<1, 1, 1, 1>>) \o <<Declares(4, n), Field(n), End>>, 8 + n)

(* The cursor file: made square; its image is a header, the pixels and two    *)
(* masks.  The masks are declared as so many bits and written in whole bytes  *)
(* for every row, which is as much only for some sides.                       *)
Octets(bits) == (bits + 7) \div 8
RightSize(side) == Octets(side * side) = side * Octets(side)
changeCursor(w0, h0) ==
    LET side   == IF h0 < w0 THEN w0 ELSE h0
        pixels == 4 * side * side
        mask   == Octets(side * side)
        rows   == [y \in 1..side |-> 4 * side] \o [y \in 1..2 * side |-> Octets(side)]
    IN  Layout(Plain(<<2, 2, 2, 1, 1, 1, 1, 2, 2>>)
               \o <<Declares(4, 4 + 40 + pixels + 2 * mask), Field(4), Declares(4, 40 - 4)>>
               \o Plain(<<4, 4, 2, 2, 4, 4, 4, 4, 4, 4>>) \o <<End>> \o Plain(rows) \o <<End>>,
               22 + 40 + pixels + 2 * mask)
-----------------------------------------------------------------------------
AgentMessages ==
    {VDAgentAnnounceCapabilities, VDAgentMonitorsConfig, VDAgentFileXferStatusMessage}
    \cup {VDAgentFileXferStartMessage(n) : n \in Sizes} \cup {VDAgentFileXferDataMessage(n) : n \in Sizes}
Messages ==
    {SpiceMsgcAckSync, SpiceMsgcMainMouseModeRequest, SpiceMsgcMainAgentStart, SpiceMsgcDisplayInit,
     SpiceMsgcMousePosition, SpiceMsgcMousePress, SpiceMsgcKeyDown}
    \cup {SpiceMsgcMainAgentData(data) : data \in AgentMessages}
Written ==
    {SpiceLinkHeader, SpiceLinkMess(1, 1), SpiceLinkMess(0, 2), SpiceLinkAuthTicket}
    \cup {SpiceMiniData(m) : m \in Messages}
    \cup {webm_Header, webm_Cluster, create_icondir}
    \cup {webm_SimpleBlock(n) : n \in Sizes}
    \cup {create_rgba_png(w, h) : w \in 1..2, h \in 1..3}
    \cup {pixelFormat, fbUpdateRequest, keyEvent, pointerEvent}
    \cup {clientEncodings(n) : n \in {10, 11}} \cup {clientCutText(n) : n \in Sizes}
    \cup {changeCursor(s, s) : s \in {x \in 1..16 : RightSize(x)}} \cup {changeCursor(8, 3), changeCursor(3, 8)}

NotWriting == [at |-> 0, todo |-> <<>>, size |-> 0, ends |-> <<>>]
BeginWriting(layout) ==
    /\ out' = [at |-> 0, todo |-> layout.fields, size |-> layout.size, ends |-> <<>>]
    /\ UNCHANGED <<in, number>>
WriteField ==
    /\ out.todo # <<>>
    /\ LET f == Head(out.todo)
           at == out.at + f.w
       IN  out' = [at |-> at, todo |-> Tail(out.todo), size |-> out.size,
                   ends |-> CASE f.kind = "declares" -> <<at + f.len>> \o out.ends
                              [] f.kind = "end"      -> Tail(out.ends)
                              [] OTHER               -> out.ends]
    /\ UNCHANGED <<in, number>>
-----------------------------------------------------------------------------
(* What is read: a reader has an offset, the places read so far and the end   *)
(* of the message.                                                            *)
Reader(from, size) == [at |-> from, reads |-> <<>>, end |-> size]
To(r, to)   == [r EXCEPT !.at = to, !.reads = Append(@, <<r.at, to>>)]
Read(r, ws) == FoldLeft(LAMBDA a, w : To(a, a.at + w), r, ws)
Rest(r)     == To(r, r.end)                                   \* mb.slice(at)

SpiceChannelId(r) == Read(r, <<1, 1>>)
SpiceRect(r) == Read(r, <<4, 4, 4, 4>>)
SpicePoint16(r) == Read(r, <<2, 2>>)
SpicePoint(r) == Read(r, <<4, 4>>)
SpiceSurface(r) == Read(r, <<4, 4, 4, 4, 4>>)
Repeated(r, n, Op(_)) == FoldLeft(LAMBDA a, i : Op(a), r, [i \in 1..n |-> i])
SpiceClipRects(r, n) == Repeated(Read(r, <<4>>), n, SpiceRect)
SpiceClip(r, m) == IF m.rects >= 0 THEN SpiceClipRects(Read(r, <<1>>), m.rects) ELSE Read(r, <<1>>)

(* The images.  A bitmap, a JPEG and a QUIC image take all there is.          *)
SpiceImageDescriptor(r) == Read(r, <<8, 1, 1, 4, 4>>)
SpiceBitmap(r) == Rest(Read(r, <<1, 1, 4, 4, 4, 4>>))
LzHeader(r) == Read(r, <<1, 1, 1, 1, 4, 4, 4, 4, 4, 4>>)
X_Lz(r, length) ==                        \* the header is not taken off the length
    LET h == LzHeader(r) IN To(h, h.at + length)
Lz(r, length) ==
    LET h == LzHeader(r) IN To(h, length + h.at - (h.at - r.at))
SpiceImage(r, m) ==
    LET d == SpiceImageDescriptor(r)
    IN  CASE m.image = "lz_rgb"     -> Lz(Read(d, <<4>>), 28 + m.data)
          [] m.image = "bitmap"     -> SpiceBitmap(d)
          [] m.image = "surface"    -> Read(d, <<4>>)
          [] m.image = "jpeg"       -> Rest(Read(d, <<4>>))
          [] m.image = "quic"       -> Rest(Read(d, <<4>>))
          [] m.image = "jpeg_alpha" ->
               LET j == Read(d, <<1, 4, 4>>) IN Lz(To(j, m.jpeg + j.at), (m.jpeg + 28 + m.data) - m.jpeg)
          [] OTHER                  -> d                      \* from the cache

(* A pointer: its image is read, and reading goes on where it was.  A mask    *)
(* and a pattern may be absent, which is offset 0.                            *)
Pointed(r, m, offset) ==
    IF offset = 0 THEN r
    ELSE [r EXCEPT !.reads = SpiceImage([r EXCEPT !.at = offset], m).reads]
SpiceQMask(r, m, offset) == Pointed(Read(SpicePoint(Read(r, <<1>>)), <<4>>), m, offset)
SpicePattern(r, m, offset) == SpicePoint(Pointed(Read(r, <<4>>), m, offset))
SpiceBrush(r, m, offset) ==
    LET t == Read(r, <<1>>)
    IN  CASE m.brush = "solid"   -> Read(t, <<4>>)
          [] m.brush = "pattern" -> SpicePattern(t, m, offset)
          [] OTHER               -> t
SpiceFill(r, m, offset) ==
    SpiceQMask(Read(SpiceBrush(r, m, offset), <<2>>), m, IF m.brush = "pattern" THEN 0 ELSE offset)
SpiceCopy(r, m, offset) ==
    SpiceQMask(Read(SpiceRect(Pointed(Read(r, <<4>>), m, offset)), <<2, 1>>), m, 0)

SpiceCursorHeader(r) == Read(r, <<8, 1, 2, 2, 2, 2>>)
SpiceCursor(r, m) ==
    IF m.image = "none" THEN Read(r, <<2>>) ELSE Rest(SpiceCursorHeader(Read(r, <<2>>)))
SpiceMsgDisplayBase(r, m) == SpiceClip(SpiceRect(Read(r, <<4>>)), m)
SpiceStreamDataHeader(r) == Read(r, <<4, 4>>)
-----------------------------------------------------------------------------
(* Where the server's fixed part of a message ends, and what it points to     *)
(* begins: the sizes of the structures of the protocol.                       *)
ClipSize(m) == IF m.rects >= 0 THEN 5 + 16 * m.rects ELSE 1
BrushSize(m) == CASE m.brush = "solid" -> 5 [] m.brush = "pattern" -> 13 [] OTHER -> 1
ImageSize(m) ==
    18 + CASE m.image = "lz_rgb"     -> 4 + 28 + m.data
           [] m.image = "bitmap"     -> 18 + m.data
           [] m.image = "surface"    -> 4
           [] m.image \in {"jpeg", "quic"} -> 4 + m.data
           [] m.image = "jpeg_alpha" -> 9 + m.jpeg + 28 + m.data
           [] OTHER                  -> 0
FixedSize(m) ==
    CASE m.type = "link_reply"     -> 4 + 162 + 12
      [] m.type = "draw_copy"      -> 20 + ClipSize(m) + 4 + 16 + 3 + 13
      [] m.type = "draw_fill"      -> 20 + ClipSize(m) + BrushSize(m) + 2 + 13
      [] m.type = "copy_bits"      -> 20 + ClipSize(m) + 8
      [] m.type = "stream_create"  -> 34 + 16 + ClipSize(m)
      [] m.type = "stream_clip"    -> 4 + ClipSize(m)
      [] m.type = "stream_data"    -> 12
      [] m.type = "cursor_init"    -> 9 + 2 + (IF m.image = "none" THEN 0 ELSE 17)
      [] m.type = "cursor_set"     -> 5 + 2 + (IF m.image = "none" THEN 0 ELSE 17)
      [] m.type = "main_init"      -> 32
      [] m.type = "agent_data"     -> 20
      [] m.type = "notify"         -> 24
      [] m.type = "surface_create" -> 20
      [] m.type = "playback_start" -> 14
      [] m.type = "playback_mode"  -> 6
      [] m.type = "inval_list"     -> 2
      [] m.type = "set_ack"        -> 8
      [] m.type = "inputs_init"    -> 2
      [] OTHER                     -> 4
HasImage(m) == m.type = "draw_copy" \/ (m.type = "draw_fill" /\ m.image # "none")
TailSize(m) ==
    CASE HasImage(m)           -> ImageSize(m)
      [] m.type = "link_reply" -> 4 * m.data
      [] m.type = "channels"   -> 2 * m.data
      [] m.type = "inval_list" -> 9 * m.data
      [] m.type \in {"stream_data", "agent_data", "notify", "playback_data", "playback_mode"} -> m.data
      [] m.type \in {"cursor_init", "cursor_set"} /\ m.image # "none" -> m.data
      [] OTHER                 -> 0
-----------------------------------------------------------------------------
(* The messages, each with from_buffer.                                       *)
SpiceLinkReply(r, m) ==
    LET h == Read(Read(Read(r, <<4>>), <<162>>), <<4, 4, 4>>)
    IN  Read([h EXCEPT !.at = r.at + FixedSize(m)], Times4(m.data))
SpiceLinkAuthReply(r) == Read(r, <<4>>)
SpiceMsgChannels(r, n) == Repeated(Read(r, <<4>>), n, SpiceChannelId)
SpiceMsgMainInit(r) == Read(r, <<4, 4, 4, 4, 4, 4, 4, 4>>)
SpiceMsgMainMouseMode(r) == Read(r, <<2, 2>>)
SpiceMsgMainAgentData(r) == Rest(Read(r, <<4, 4, 8, 4>>))
SpiceMsgMainAgentTokens(r) == Read(r, <<4>>)
SpiceMsgSetAck(r) == Read(r, <<4, 4>>)
SpiceMsgNotify(r, n) == LET h == Read(r, <<8, 4, 4, 4, 4>>) IN To(h, h.at + n)
SpiceMsgDisplayDrawCopy(r, m) == SpiceCopy(SpiceMsgDisplayBase(r, m), m, FixedSize(m))
SpiceMsgDisplayDrawFill(r, m) ==
    SpiceFill(SpiceMsgDisplayBase(r, m), m, IF m.image = "none" THEN 0 ELSE FixedSize(m))
SpiceMsgDisplayCopyBits(r, m) == SpicePoint(SpiceMsgDisplayBase(r, m))
SpiceMsgSurfaceDestroy(r) == Read(r, <<4>>)
SpiceMsgInputsInit(r) == Read(r, <<2>>)
SpiceMsgCursorInit(r, m) == SpiceCursor(Read(SpicePoint16(r), <<2, 2, 1>>), m)
SpiceMsgCursorSet(r, m) == SpiceCursor(Read(SpicePoint16(r), <<1>>), m)
SpiceMsgPlaybackData(r) == Rest(Read(r, <<4>>))
SpiceMsgPlaybackMode(r) == Rest(Read(r, <<4, 2>>))
SpiceMsgPlaybackStart(r) == Read(r, <<4, 2, 4, 4>>)
SpiceMsgDisplayStreamCreate(r, m) == SpiceClip(SpiceRect(Read(r, <<4, 4, 1, 1, 8, 4, 4, 4, 4>>)), m)
SpiceMsgDisplayStreamData(r, n) == LET h == Read(SpiceStreamDataHeader(r), <<4>>) IN To(h, h.at + n)
SpiceMsgDisplayStreamClip(r, m) == SpiceClip(Read(r, <<4>>), m)
SpiceMsgDisplayStreamDestroy(r) == Read(r, <<4>>)
SpiceMsgDisplayInvalList(r, n) == Repeated(Read(r, <<2>>), n, LAMBDA a : Read(a, <<1, 8>>))

ReadMessage(r, m) ==
    CASE m.type = "link_reply"      -> SpiceLinkReply(r, m)
      [] m.type = "auth_reply"      -> SpiceLinkAuthReply(r)
      [] m.type = "channels"        -> SpiceMsgChannels(r, m.data)
      [] m.type = "main_init"       -> SpiceMsgMainInit(r)
      [] m.type = "mouse_mode"      -> SpiceMsgMainMouseMode(r)
      [] m.type = "agent_data"      -> SpiceMsgMainAgentData(r)
      [] m.type = "agent_tokens"    -> SpiceMsgMainAgentTokens(r)
      [] m.type = "set_ack"         -> SpiceMsgSetAck(r)
      [] m.type = "notify"          -> SpiceMsgNotify(r, m.data)
      [] m.type = "draw_copy"       -> SpiceMsgDisplayDrawCopy(r, m)
      [] m.type = "draw_fill"       -> SpiceMsgDisplayDrawFill(r, m)
      [] m.type = "copy_bits"       -> SpiceMsgDisplayCopyBits(r, m)
      [] m.type = "surface_create"  -> SpiceSurface(r)
      [] m.type = "surface_destroy" -> SpiceMsgSurfaceDestroy(r)
      [] m.type = "inputs_init"     -> SpiceMsgInputsInit(r)
      [] m.type = "cursor_init"     -> SpiceMsgCursorInit(r, m)
      [] m.type = "cursor_set"      -> SpiceMsgCursorSet(r, m)
      [] m.type = "playback_data"   -> SpiceMsgPlaybackData(r)
      [] m.type = "playback_mode"   -> SpiceMsgPlaybackMode(r)
      [] m.type = "playback_start"  -> SpiceMsgPlaybackStart(r)
      [] m.type = "stream_create"   -> SpiceMsgDisplayStreamCreate(r, m)
      [] m.type = "stream_data"     -> SpiceMsgDisplayStreamData(r, m.data)
      [] m.type = "stream_clip"     -> SpiceMsgDisplayStreamClip(r, m)
      [] m.type = "stream_destroy"  -> SpiceMsgDisplayStreamDestroy(r)
      [] OTHER                      -> SpiceMsgDisplayInvalList(r, m.data)

(* External: the messages of a server; what is not in a kind is left at none. *)
Sent(type, rects, image, brush, data) ==
    [type |-> type, rects |-> rects, image |-> image, brush |-> brush, data |-> data, jpeg |-> data]
Bare == {"auth_reply", "main_init", "mouse_mode", "agent_tokens", "set_ack", "surface_create",
         "surface_destroy", "inputs_init", "playback_start", "stream_destroy"}
Carrying == {"agent_data", "notify", "playback_data", "playback_mode", "stream_data"}
Listing  == {"link_reply", "channels", "inval_list"}
Compressions == {"lz_rgb", "bitmap", "surface", "jpeg", "quic", "jpeg_alpha", "cached"}
Clips == -1..2
Counts == 0..2
Received ==
    {Sent(t, -1, "none", "none", 0) : t \in Bare}
    \cup {Sent(t, -1, "none", "none", n) : t \in Carrying, n \in Sizes}
    \cup {Sent(t, -1, "none", "none", n) : t \in Listing, n \in Counts}
    \cup {Sent(t, c, "none", "none", 0) : t \in {"copy_bits", "stream_create", "stream_clip"}, c \in Clips}
    \cup {Sent(t, -1, image, "none", n) : t \in {"cursor_init", "cursor_set"}, image \in {"none", "alpha"}, n \in Sizes}
    \cup {Sent("draw_copy", c, image, "none", n) : c \in Clips, image \in Compressions, n \in Sizes}
    \cup {Sent("draw_fill", c, "none", brush, 0) : c \in Clips, brush \in {"none", "solid"}}
    \cup {Sent("draw_fill", c, image, brush, n) :
             c \in Clips, image \in Compressions, brush \in {"solid", "pattern"}, n \in Sizes}

SizeOf(m) == FixedSize(m) + TailSize(m)
NothingRead == [end |-> 0, reads |-> <<>>, sent |-> <<>>, got |-> <<>>]
Receive(m) ==
    /\ in' = [NothingRead EXCEPT !.end = SizeOf(m), !.reads = ReadMessage(Reader(0, SizeOf(m)), m).reads]
    /\ UNCHANGED <<out, number>>
-----------------------------------------------------------------------------
(* A packed picture is in runs of pixels: up to 32 that follow, or a copy of  *)
(* pixels that far behind, which may run into itself.  The colours and the    *)
(* transparency of RGBA are packed one after the other, a plane each.         *)
PixelRun(n)     == [n |-> n, from |-> 0]
PixelCopy(n, d) == [n |-> n, from |-> d]
Pixels(runs) == Sum([i \in DOMAIN runs |-> runs[i].n])
PixelBytes(alpha) == IF alpha THEN 1 ELSE 3

(* External: how the server packs a run.  A length from 7 on goes on in       *)
(* bytes, of which all but the last are 255; a distance from 8191 on goes on  *)
(* in two.                                                                    *)
LengthBytes(n)   == [i \in 1..(n \div 255) |-> 255] \o <<n % 255>>
DistanceBytes(d) == IF d < 8191 THEN <<d % 256>> ELSE <<255, (d - 8191) \div 256, (d - 8191) % 256>>
Packed(r, alpha) ==
    IF r.from = 0 THEN <<r.n - 1>> \o [i \in 1..(r.n * PixelBytes(alpha)) |-> 0]
    ELSE LET length == IF alpha THEN r.n - 2 ELSE r.n
             top    == IF r.from <= 8191 THEN (r.from - 1) \div 256 ELSE 31
         IN  (IF length < 7 THEN <<length * 32 + top>> ELSE <<7 * 32 + top>> \o LengthBytes(length - 7))
             \o DistanceBytes(r.from - 1)
PackedPlane(runs, alpha) == FlattenSeq([i \in DOMAIN runs |-> Packed(runs[i], alpha)])

(* lz_rgb32_decompress, a run at a time, until the picture is full.           *)
ByteAt(bytes, i) == IF i < Len(bytes) THEN bytes[i + 1] ELSE 0
UnpackRun(s, bytes, alpha) ==
    LET ctrl   == ByteAt(bytes, s.at)
        long   == ctrl \div 32 = 7
        digits == SelectInSubSeq(bytes, s.at + 2, Len(bytes), LAMBDA byte : byte # 255) - (s.at + 1)
        at1    == IF long THEN s.at + 1 + digits ELSE s.at + 1
        extra  == IF long THEN (digits - 1) * 255 + ByteAt(bytes, at1 - 1) ELSE 0
        far    == ctrl % 32 = 31 /\ ByteAt(bytes, at1) = 255
        ofs    == IF far THEN ByteAt(bytes, at1 + 1) * 256 + ByteAt(bytes, at1 + 2) + 8191
                         ELSE (ctrl % 32) * 256 + ByteAt(bytes, at1)
        copy   == PixelCopy((ctrl \div 32) + extra + (IF alpha THEN 2 ELSE 0), ofs + 1)
        next   == IF ctrl < 32 THEN s.at + 1 + (ctrl + 1) * PixelBytes(alpha)
                  ELSE at1 + (IF far THEN 3 ELSE 1)
    IN  [at |-> next, runs |-> Append(s.runs, IF ctrl < 32 THEN PixelRun(ctrl + 1) ELSE copy),
         reads |-> Append(s.reads, <<s.at, next>>)]
lz_rgb32_decompress(s, bytes, pixels, alpha, most) ==
    LET done == FoldLeft(LAMBDA a, i : IF Pixels(a.runs) < pixels THEN UnpackRun(a, bytes, alpha) ELSE a,
                         [s EXCEPT !.runs = <<>>], [i \in 1..most |-> i])
    IN  [done EXCEPT !.runs = s.runs \o done.runs]

(* convert_spice_lz_to_web: RGB32 is a plane of colours, XXXA one of          *)
(* transparency, RGBA both.                                                   *)
Unpack(picture) ==
    LET bytes  == FlattenSeq([i \in DOMAIN picture |-> PackedPlane(picture[i].runs, picture[i].alpha)])
        pixels == Pixels(picture[1].runs)
        NextPlane(s, plane) == lz_rgb32_decompress(s, bytes, pixels, plane.alpha, Len(plane.runs))
        end    == FoldLeft(NextPlane, [at |-> 0, runs |-> <<>>, reads |-> <<>>], picture)
    IN  /\ in' = [end |-> Len(bytes), reads |-> end.reads, got |-> end.runs,
                  sent |-> FlattenSeq([i \in DOMAIN picture |-> picture[i].runs])]
        /\ UNCHANGED <<out, number>>

Plane(runs, alpha) == [runs |-> runs, alpha |-> alpha]
Runs == {<<PixelRun(n)>> : n \in {1, 2, 32}}
    \cup {runs \in {<<PixelRun(1), PixelCopy(n, 1), PixelRun(3), PixelCopy(m, d)>> :
                       n \in Lengths, m \in Lengths, d \in Distances} :
              runs[4].from <= runs[2].n + 4}
Pictures ==
    {<<Plane(runs, alpha)>> : runs \in Runs, alpha \in BOOLEAN}
    \cup {<<Plane(runs, FALSE), Plane(<<PixelRun(3), PixelCopy(Pixels(runs) - 3, 2)>>, TRUE)>> :
              runs \in {r \in Runs : Pixels(r) >= 6}}
-----------------------------------------------------------------------------
(* base64.js, for noVNC's cursors and for a socket that carries text: three   *)
(* bytes are four digits, the last of them padded; digits are read one by one *)
(* and the bits gathered.                                                     *)
Pad == 64
Digits(a, b, c) == <<a \div 4, (a % 4) * 16 + b \div 16, (b % 16) * 4 + c \div 64, c % 64>>
encode(data) ==
    LET n     == Len(data)
        whole == FlattenSeq([i \in 1..n \div 3 |-> Digits(data[3 * i - 2], data[3 * i - 1], data[3 * i])])
    IN  whole \o CASE n % 3 = 0 -> <<>>
                   [] n % 3 = 1 -> SubSeq(Digits(data[n], 0, 0), 1, 2) \o <<Pad, Pad>>
                   [] OTHER     -> SubSeq(Digits(data[n - 1], data[n], 0), 1, 3) \o <<Pad>>
Gather(s, digit) ==
    LET leftdata == s.leftdata * 64 + (IF digit = Pad THEN 0 ELSE digit)
    IN  IF s.leftbits < 2
        THEN [s EXCEPT !.leftbits = @ + 6, !.leftdata = leftdata]
        ELSE [leftbits |-> s.leftbits - 2, leftdata |-> leftdata % 2^(s.leftbits - 2),
              result |-> IF digit = Pad THEN s.result
                         ELSE Append(s.result, (leftdata \div 2^(s.leftbits - 2)) % 256)]
decode(digits) == FoldLeft(Gather, [leftbits |-> 0, leftdata |-> 0, result |-> <<>>], digits)

(* Bits left over are an error.                                               *)
Base64(data) ==
    LET end == decode(encode(data))
        Each(bytes) == [i \in DOMAIN bytes |-> [byte |-> bytes[i]]]
    IN  /\ in' = [end |-> Len(data), sent |-> Each(data), got |-> Each(end.result),
                  reads |-> IF end.leftbits = 0 THEN <<<<0, Len(data)>>>> ELSE <<>>]
        /\ UNCHANGED <<out, number>>
-----------------------------------------------------------------------------
(* The numbers: bytes put together with shifts, which make a signed number of *)
(* 32 bits, and taken apart again.                                            *)
Signed32(high, low) == (IF high >= 32768 THEN high - 65536 ELSE high) * 65536 + low
getUint16(b, little) == IF little THEN b[2] * 256 + b[1] ELSE b[1] * 256 + b[2]
getUint32(b, little) ==
    LET first == getUint16(<<b[1], b[2]>>, little)
        second == getUint16(<<b[3], b[4]>>, little)
    IN  IF little THEN Signed32(second, first) ELSE Signed32(first, second)
setUint16(i, little) ==
    LET high == (i % 65536) \div 256
        low  == i % 256
    IN  IF little THEN <<low, high>> ELSE <<high, low>>
Joined(high, low, little) == IF little THEN low \o high ELSE high \o low
setUint32(w, little) == Joined(setUint16(w \div 65536, little), setUint16(w % 65536, little), little)

NoNumber == [bytes |-> <<>>, again |-> <<>>]
Echo(b, little) ==
    /\ number' = [bytes |-> b, again |-> setUint32(getUint32(b, little), little)]
    /\ UNCHANGED <<out, in>>
-----------------------------------------------------------------------------
(* Each is one call without a pause; one is looked at at a time.              *)
WireIdle == out = NotWriting /\ in = NothingRead /\ number = NoNumber
WireInit == WireIdle
WireNext ==
    \/ WriteField
    \/ WireIdle /\ \/ \E layout \in Written : BeginWriting(layout)
                   \/ \E m \in Received : Receive(m)
                   \/ \E picture \in Pictures : Unpack(picture)
                   \/ \E n \in 1..5 : \E data \in [1..n -> Bytes] : Base64(data)
                   \/ \E b \in [1..4 -> Bytes], little \in BOOLEAN : Echo(b, little)
WireSpec == WireInit /\ [][WireNext]_wireVars

(* What buffer_size() promises is what to_buffer writes, and every length     *)
(* that is declared on the way ends where its element does: the size and the  *)
(* writing are two pieces of code for each of the layouts.                    *)
WrittenAsDeclared ==
    /\ out.at <= out.size /\ (out.todo = <<>> => out.at = out.size)
    /\ \A i \in DOMAIN out.ends : out.ends[i] <= out.size
    /\ out.todo # <<>> /\ Head(out.todo).kind = "end" => out.at = Head(out.ends)

(* Of a message, with its clip rectangles, images and pointers, every byte is *)
(* read once: no field at the place of another, none past the end, none left. *)
(* Of a packed picture the runs come out that went in, for every length and   *)
(* distance of a copy, and the second plane is read where the first ended; of *)
(* bytes in base64 the bytes.                                                 *)
ReadAsSent ==
    /\ \A i, j \in DOMAIN in.reads : i < j =>
         in.reads[i][2] <= in.reads[j][1] \/ in.reads[j][2] <= in.reads[i][1]
    /\ \A i \in DOMAIN in.reads : in.reads[i][1] <= in.reads[i][2] /\ in.reads[i][2] <= in.end
    /\ Sum([i \in DOMAIN in.reads |-> in.reads[i][2] - in.reads[i][1]]) = in.end
    /\ in.got = in.sent

(* A connection id the main channel was given goes back in the link message   *)
(* of every other channel with the same four bytes, those included that the   *)
(* shifts of JavaScript turn negative.                                        *)
NumbersSurvive == number.again = number.bytes
=============================================================================
