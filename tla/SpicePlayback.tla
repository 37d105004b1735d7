--------------------------- MODULE SpicePlayback ---------------------------
(* Sound of the SPICE console: spice-html5/playback.js.  Packets become       *)
(* pieces of a WebM file - a header, clusters, blocks - that are handed to a  *)
(* source buffer of the browser one at a time; those that come while it is    *)
(* busy wait in a queue.                                                      *)
(* A definition X_Name before Name is Name with a fault, for the mutants.    *)
EXTENDS Integers, Sequences

CONSTANTS
    GAP_DETECTION_THRESHOLD, MAX_CLUSTER_TIME,
    MaxTime,       \* bound: of the packets
    MaxSources     \* bound: media sources made

ASSUME PlaybackAssumption ==
    /\ GAP_DETECTION_THRESHOLD \in Nat \ {0} /\ MAX_CLUSTER_TIME \in Nat \ {0}
    /\ MaxTime \in Nat \ {0} /\ MaxSources \in Nat

VARIABLES
    sources,       \* how many media sources were made
    opening,       \* those whose sourceopen is still to come
    source_buffer, \* the source whose buffer this is, or NoBuffer
    listened,      \* the source whose buffer has the updateend listener
    updating,      \* external: the sources whose buffer works on a piece
    start_time, last_data_time, cluster_time, skip_until,
    append_okay,
    queue,
    buffered,      \* external: the buffer has sound to play
    soundDeaf,     \* a handler threw on a message with a body: see SpiceChannel
    made,          \* history: the pieces that were made
    given,         \* history: the pieces the buffer took
    upset          \* history: a piece was refused, or the buffer deleted

timeVars  == <<start_time, last_data_time, cluster_time, skip_until>>
bufferVars == <<updating, append_okay, queue, buffered, made, given, upset>>
playbackVars == <<sources, opening, source_buffer, listened, soundDeaf, timeVars, bufferVars>>

NoBuffer == 0
Header == [kind |-> "header", time |-> 0]
Cluster(t) == [kind |-> "cluster", time |-> t]
Block(t) == [kind |-> "block", time |-> t]
-----------------------------------------------------------------------------
(* playback_append_buffer on a record of the buffer's state: a buffer that    *)
(* is busy, or has no room, refuses with an exception that is only logged.    *)
Sound == [updating |-> updating, okay |-> append_okay, queue |-> queue,
          made |-> made, given |-> given, upset |-> upset]

Refuse(b) == [b EXCEPT !.upset = TRUE]
Append_buffer(b, piece, room) ==
    IF source_buffer = NoBuffer \/ source_buffer \in b.updating \/ ~room THEN Refuse(b)
    ELSE [b EXCEPT !.updating = @ \cup {source_buffer}, !.okay = FALSE, !.given = Append(@, piece)]

(* The ends of new_cluster and simple_block: append, or wait.                 *)
X_Hand(b, piece, room) ==                 \* unshift for push
    LET m == [b EXCEPT !.made = Append(@, piece)]
    IN  IF b.okay THEN Append_buffer(m, piece, room) ELSE [m EXCEPT !.queue = <<piece>> \o @]

Hand(b, piece, room) ==
    LET m == [b EXCEPT !.made = Append(@, piece)]
    IN  IF b.okay THEN Append_buffer(m, piece, room) ELSE [m EXCEPT !.queue = Append(@, piece)]

(* start_playback appends the header whatever append_okay says.               *)
StartPlayback(b, room) == Append_buffer([b EXCEPT !.made = Append(@, Header)], Header, room)
NewCluster(b, t, room) == Hand(Hand(b, Cluster(t), room), Block(t), room)

BecomeSound(b) ==
    /\ updating' = b.updating /\ append_okay' = b.okay /\ queue' = b.queue
    /\ made' = b.made /\ given' = b.given /\ upset' = b.upset
    /\ UNCHANGED buffered
-----------------------------------------------------------------------------
(* PLAYBACK_START: a media source, if there is no buffer.                     *)
PlaybackStart ==
    /\ ~soundDeaf /\ sources < MaxSources
    /\ source_buffer = NoBuffer
    /\ sources' = sources + 1 /\ opening' = opening \cup {sources + 1}
    /\ UNCHANGED <<source_buffer, listened, soundDeaf, timeVars, bufferVars>>

(* handle_source_open.                                                        *)
SourceOpen(s) ==
    /\ s \in opening /\ opening' = opening \ {s}
    /\ IF source_buffer = NoBuffer
       THEN source_buffer' = s /\ buffered' = FALSE
       ELSE UNCHANGED <<source_buffer, buffered>>
    /\ UNCHANGED <<sources, listened, soundDeaf, timeVars, updating, append_okay, queue, made, given, upset>>

(* PLAYBACK_DATA.  A packet not later than the last is made so; after a gap   *)
(* the end of what is buffered is asked for, which throws if nothing is.      *)
Gap(t) == last_data_time > 0 /\ t >= last_data_time + GAP_DETECTION_THRESHOLD
PlaybackData(sent, room) ==
    LET t == IF sent <= last_data_time THEN last_data_time + 1 ELSE sent
        skip == IF Gap(t) THEN t ELSE skip_until
    IN  /\ ~soundDeaf /\ t <= MaxTime
        /\ IF Gap(t) /\ (source_buffer = NoBuffer \/ ~buffered)
           THEN /\ skip_until' = t /\ soundDeaf' = TRUE
                /\ UNCHANGED <<last_data_time, start_time, cluster_time, listened, bufferVars>>
           ELSE /\ last_data_time' = t /\ UNCHANGED soundDeaf
                /\ IF source_buffer = NoBuffer
                   THEN skip_until' = skip /\ UNCHANGED <<start_time, cluster_time, listened, bufferVars>>
                   ELSE /\ skip_until' = 0
                        /\ start_time' = IF start_time = 0 THEN t ELSE start_time
                        /\ listened' = IF start_time = 0 THEN source_buffer ELSE listened
                        /\ IF start_time = 0
                           THEN cluster_time' = t
                                /\ BecomeSound(NewCluster(StartPlayback(Sound, room), t, room))
                           ELSE IF t - cluster_time >= MAX_CLUSTER_TIME \/ skip > 0
                           THEN cluster_time' = t /\ BecomeSound(NewCluster(Sound, t, room))
                           ELSE UNCHANGED cluster_time /\ BecomeSound(Hand(Sound, Block(t), room))
        /\ UNCHANGED <<sources, opening, source_buffer>>

(* PLAYBACK_MODE of another codec deletes the buffer, and nothing else.       *)
PlaybackMode ==
    /\ ~soundDeaf /\ source_buffer # NoBuffer
    /\ source_buffer' = NoBuffer
    /\ upset' = TRUE
    /\ UNCHANGED <<sources, opening, listened, soundDeaf, timeVars, updating, append_okay, queue, buffered, made, given>>

(* handle_append_buffer_done, on the updateend event of a buffer that          *)
(* start_playback listens to; the one of a later source is not heard.         *)
Done(b, room) ==
    IF b.queue = <<>> THEN [b EXCEPT !.okay = TRUE]
    ELSE Append_buffer([b EXCEPT !.queue = Tail(@)], Head(b.queue), room)

Updateend(s, room) ==
    LET b == [Sound EXCEPT !.updating = @ \ {s}]
        d == IF s = listened THEN Done(b, room) ELSE b
    IN  /\ s \in updating
        /\ updating' = d.updating /\ append_okay' = d.okay /\ queue' = d.queue
        /\ made' = d.made /\ given' = d.given /\ upset' = d.upset
        /\ buffered' = (buffered \/ (s = source_buffer /\ given[Len(given)].kind = "block"))
        /\ UNCHANGED <<sources, opening, source_buffer, listened, soundDeaf, timeVars>>

PlaybackInit ==
    /\ sources = 0 /\ opening = {} /\ source_buffer = NoBuffer /\ listened = NoBuffer
    /\ start_time = 0 /\ last_data_time = 0 /\ cluster_time = 0 /\ skip_until = 0
    /\ updating = {} /\ append_okay = FALSE /\ queue = <<>> /\ buffered = FALSE
    /\ soundDeaf = FALSE /\ made = <<>> /\ given = <<>> /\ upset = FALSE

PlaybackNext ==
    \/ PlaybackStart \/ PlaybackMode
    \/ \E s \in opening : SourceOpen(s)
    \/ \E sent \in 1..MaxTime, room \in BOOLEAN : PlaybackData(sent, room)
    \/ \E s \in updating, room \in BOOLEAN : Updateend(s, room)
PlaybackSpec == PlaybackInit /\ [][PlaybackNext]_playbackVars
-----------------------------------------------------------------------------
(* Nothing overtakes and nothing is lost on the way to the source buffer: it  *)
(* has been given the first of the pieces that were made, header first, and   *)
(* the rest is the queue, unless it refused a piece or was deleted.           *)
PiecesInOrder == ~upset => given \o queue = made

(* The queue moves: once there is a header the next updateend is on its way   *)
(* exactly when append_okay is false.  Without it what is queued stays there. *)
QueueMoves == ~upset /\ start_time > 0 => (append_okay <=> updating = {}) /\ (queue # <<>> => updating # {})
=============================================================================
