------------------------------ MODULE RdpStream -----------------------------
(***************************************************************************)
(* One Remote Desktop stream (rdp/sg-rdp-stream.c): a session's screen     *)
(* captured from its compositor, the tiles that differ from what the       *)
(* client has sent to it, and the client's keys and buttons put into the   *)
(* session.  Everything runs on the peer's thread; the compositor, the     *)
(* screen and the client go on beside it.  The compositor is modelled from *)
(* what the code asks of it (wlr-screencopy version 3).                    *)
(***************************************************************************)
EXTENDS Naturals, FiniteSets

CONSTANTS Tiles, Shades, Blank,  \* a tile, what it shows, a tile never sent
          Outputs,               \* registry names: a larger one is newer
          Modes, SizeOf,         \* an output's modes; stride * height of each
          Keys, Shift,           \* keys and buttons; the key Shift
          MaxScreen              \* bound: changes of the screens and outputs

ASSUME StreamConstants ==
    /\ IsFiniteSet(Tiles) /\ Blank \notin Shades /\ Shift \in Keys
    /\ Outputs \subseteq Nat /\ SizeOf \in [Modes -> Nat] /\ MaxScreen \in Nat

VARIABLES
    screen, mode, alive,   \* the compositor's outputs
    damaged,               \* outputs changed since they were last copied
    changes,
    stream,                \* "none", "made", "started" or "freed"
    output,                \* the output taken
    frame,                 \* NULL ("none") or how far the capture has come
    of,                    \* the output the frame is of
    size,                  \* the buffer's mode, or "none"
    prev, have_prev,       \* "what the client has"
    gone, view_only,
    keys_down,             \* keys and buttons the stream holds as down
    client,                \* the picture at the other end
    pressed,               \* keys and buttons down in the session
    session, peer,         \* the compositor's and the client's connection live
    nomem                  \* history: a tile or a frame was left for want of memory

screenVars == <<screen, mode, alive, damaged, changes>>
frameVars == <<frame, of, size, prev, have_prev, nomem, client>>
inputVars == <<keys_down, pressed>>
streamVars == <<screenVars, frameVars, inputVars, stream, output, gone, view_only, session, peer>>

StreamTypeOK ==
    /\ screen \in [Outputs -> [Tiles -> Shades]] /\ mode \in [Outputs -> Modes]
    /\ alive \subseteq Outputs /\ damaged \subseteq Outputs /\ changes \in 0..MaxScreen
    /\ stream \in {"none", "made", "started", "freed"} /\ output \in Outputs
    /\ frame \in {"none", "asked", "copy", "damage", "failed"} /\ of \in Outputs
    /\ size \in Modes \cup {"none"}
    /\ prev \in [Tiles -> Shades \cup {Blank}] /\ client \in [Tiles -> Shades \cup {Blank}]
    /\ {have_prev, gone, view_only, session, peer, nomem} \subseteq BOOLEAN
    /\ keys_down \subseteq Keys /\ pressed \subseteq Keys

Newest == CHOOSE o \in alive : \A p \in alive : p <= o
NothingSent == [t \in Tiles |-> Blank]

StreamInit ==
    /\ screen = [o \in Outputs |-> [t \in Tiles |-> CHOOSE v \in Shades : TRUE]]
    /\ mode = [o \in Outputs |-> CHOOSE m \in Modes : \A k \in Modes : SizeOf[k] <= SizeOf[m]]
    /\ alive = {CHOOSE o \in Outputs : \A p \in Outputs : o <= p} /\ damaged = {} /\ changes = 0
    /\ stream = "none" /\ output \in alive /\ frame = "none" /\ of = output
    /\ size = "none" /\ prev = NothingSent /\ client = NothingSent /\ have_prev = FALSE
    /\ gone = FALSE /\ view_only = FALSE /\ keys_down = {} /\ pressed = {}
    /\ session = TRUE /\ peer = TRUE /\ nomem = FALSE

-----------------------------------------------------------------------------
(* The session's screens.                                                  *)

Changed(o) == changes < MaxScreen /\ changes' = changes + 1 /\ damaged' = damaged \cup {o}

\* A frame that waits for its picture fails when its output's mode changes,
\* or its output goes.
Disturbed(o) ==
    frame' = IF of = o /\ frame \in {"copy", "damage"} THEN "failed" ELSE frame

ScreenChanges(o, t, v) ==
    /\ o \in alive /\ v # screen[o][t] /\ Changed(o) /\ screen' = [screen EXCEPT ![o][t] = v]
    /\ UNCHANGED <<mode, alive, frameVars, inputVars, stream, output, gone, view_only, session, peer>>

ModeSet(o, m) ==
    /\ o \in alive /\ m # mode[o] /\ Changed(o) /\ mode' = [mode EXCEPT ![o] = m] /\ Disturbed(o)
    /\ UNCHANGED <<screen, alive, of, size, prev, have_prev, nomem, client, inputVars, stream, output,
                   gone, view_only, session, peer>>

OutputGoes(o) ==
    /\ alive \ {o} # {} /\ o \in alive /\ Changed(o) /\ alive' = alive \ {o} /\ Disturbed(o)
    /\ UNCHANGED <<screen, mode, of, size, prev, have_prev, nomem, client, inputVars, stream, output,
                   gone, view_only, session, peer>>

\* The newest output is the one taken; a frame of the old one goes on.
registry_global(o) ==
    /\ o \in Outputs \ alive /\ (\A p \in alive : p < o) /\ o > output
    /\ Changed(o) /\ alive' = alive \cup {o}
    /\ output' = IF stream \in {"made", "started"} /\ ~gone THEN o ELSE output
    /\ UNCHANGED <<screen, mode, frameVars, inputVars, stream, gone, view_only, session, peer>>

-----------------------------------------------------------------------------
(* The stream's life.                                                      *)

\* Capture is granted with or without input, or the stream is not made.
sg_stream_new ==
    /\ stream = "none" /\ output' = Newest
    /\ \/ session /\ stream' = "made" /\ view_only' \in BOOLEAN
       \/ stream' = "freed" /\ UNCHANGED view_only
    /\ UNCHANGED <<screenVars, frameVars, inputVars, gone, session, peer>>

\* The next frame is of the output taken now.
request_frame(o) == frame' = "asked" /\ of' = o

sg_stream_start ==
    /\ stream = "made" /\ stream' = "started" /\ have_prev' = FALSE /\ request_frame(output)
    /\ UNCHANGED <<screenVars, size, prev, nomem, client, inputVars, output, gone, view_only, session, peer>>

SessionEnds ==
    /\ session /\ session' = FALSE
    /\ UNCHANGED <<screenVars, frameVars, inputVars, stream, output, gone, view_only, peer>>

ClientVanishes ==
    /\ peer /\ peer' = FALSE
    /\ UNCHANGED <<screenVars, frameVars, inputVars, stream, output, gone, view_only, session>>

sg_stream_after_wait ==
    /\ stream \in {"made", "started"} /\ ~session /\ ~gone /\ gone' = TRUE
    /\ UNCHANGED <<screenVars, frameVars, inputVars, stream, output, view_only, session, peer>>

\* Once the stream is gone, or the client, the peer's thread frees it, and
\* what is still down is let go - unless the stream is gone.
sg_stream_release_all == [keys_down |-> {}, pressed |-> pressed \ keys_down]

sg_stream_free ==
    /\ stream \in {"made", "started"} /\ (gone \/ ~peer) /\ stream' = "freed"
    /\ IF gone THEN UNCHANGED inputVars
       ELSE keys_down' = sg_stream_release_all.keys_down /\ pressed' = sg_stream_release_all.pressed
    /\ size' = "none" /\ prev' = NothingSent /\ have_prev' = FALSE /\ frame' = "none"
    /\ UNCHANGED <<screenVars, of, nomem, client, output, gone, view_only, session, peer>>

-----------------------------------------------------------------------------
(* Frames.                                                                 *)

Capturing == stream = "started" /\ ~gone /\ session

\* The buffer is made anew only when its size in bytes is another, and then
\* nothing is known of what the client has.
\* (Variant: that is forgotten only when a frame has failed.)
make_buffer_Kept(m) ==
    IF size # "none" /\ SizeOf[size] = SizeOf[m] THEN UNCHANGED <<size, prev, have_prev>>
    ELSE size' = m /\ prev' = NothingSent /\ have_prev' = (have_prev /\ size # "none")
make_buffer(m) ==
    IF size # "none" /\ SizeOf[size] = SizeOf[m] THEN UNCHANGED <<size, prev, have_prev>>
    ELSE size' = m /\ prev' = NothingSent /\ have_prev' = FALSE

\* The compositor says what the frame takes, and is asked for the copy: at
\* once, or when something has changed.  An output that has gone has no
\* frame, no buffer may be had, and a buffer of another shape than the
\* output's is refused.
frame_buffer_done ==
    /\ Capturing /\ frame = "asked"
    /\ \/ /\ of \in alive /\ make_buffer(mode[of]) /\ nomem' = nomem
          /\ gone' = (size' # mode[of])
          /\ frame' = IF have_prev' THEN "damage" ELSE "copy"
       \/ of \in alive /\ gone' = TRUE /\ nomem' = TRUE /\ UNCHANGED <<size, prev, have_prev, frame>>
       \/ of \notin alive /\ frame' = "failed" /\ UNCHANGED <<size, prev, have_prev, nomem, gone>>
    /\ UNCHANGED <<screenVars, of, client, inputVars, stream, output, view_only, session, peer>>

\* The tiles that may differ from what the client has: where nothing was ever
\* remembered the comparison is with whatever the memory holds.
tile_changed == {c \in SUBSET Tiles : \A t \in Tiles :
                    /\ ~have_prev => t \in c
                    /\ have_prev /\ prev[t] # Blank => (t \in c <=> prev[t] # screen[of][t])}

Updated(picture, c) == [t \in Tiles |-> IF t \in c THEN screen[of][t] ELSE picture[t]]

\* Of the changed tiles c, those in e could be encoded.
remember_tile(c, e) == prev' = Updated(prev, e)

send_frame ==
    \/ \E c \in tile_changed : \E e \in SUBSET c :
        /\ have_prev' = TRUE /\ remember_tile(c, e) /\ nomem' = (nomem \/ e # c)
        /\ \/ client' = Updated(client, e) /\ UNCHANGED gone
           \/ ~peer /\ e # {} /\ gone' = TRUE /\ UNCHANGED client
    \/ nomem' = TRUE /\ UNCHANGED <<have_prev, prev, client, gone>>

frame_ready ==
    /\ Capturing /\ (frame = "copy" \/ (frame = "damage" /\ of \in damaged))
    /\ damaged' = damaged \ {of} /\ send_frame
    /\ IF gone' THEN frame' = "none" /\ UNCHANGED of ELSE request_frame(output)
    /\ UNCHANGED <<screen, mode, alive, changes, size, inputVars, stream, output, view_only, session, peer>>

frame_failed ==
    /\ Capturing /\ frame = "failed" /\ have_prev' = FALSE /\ request_frame(output)
    /\ UNCHANGED <<screenVars, size, prev, nomem, client, inputVars, stream, output, gone, view_only,
                   session, peer>>

-----------------------------------------------------------------------------
(* Input.                                                                  *)

\* What key k going down or up comes to: what was not pressed is never let go.
sg_stream_key(k, down, now) ==
    IF down THEN [keys_down |-> now.keys_down \cup {k}, pressed |-> now.pressed \cup {k}]
    ELSE IF k \in now.keys_down
    THEN [keys_down |-> now.keys_down \ {k}, pressed |-> now.pressed \ {k}]
    ELSE now

Now == [keys_down |-> keys_down, pressed |-> pressed]

input_stream(after) ==
    /\ stream = "started" /\ peer
    /\ IF gone \/ view_only THEN UNCHANGED inputVars
       ELSE keys_down' = after.keys_down /\ pressed' = after.pressed
    /\ UNCHANGED <<screenVars, frameVars, stream, output, gone, view_only, session, peer>>

on_key(k, down) == input_stream(sg_stream_key(k, down, Now))

\* A character that takes Shift: Shift, its key, and both let go.
sg_stream_unicode(k) ==
    /\ k # Shift
    /\ input_stream(sg_stream_key(Shift, FALSE, sg_stream_key(k, FALSE,
                        sg_stream_key(k, TRUE, sg_stream_key(Shift, TRUE, Now)))))

-----------------------------------------------------------------------------
StreamThread ==
    sg_stream_after_wait \/ sg_stream_free \/ frame_buffer_done \/ frame_ready \/ frame_failed

StreamNext ==
    \/ StreamThread \/ sg_stream_new \/ sg_stream_start \/ SessionEnds \/ ClientVanishes
    \/ \E o \in Outputs :
        \/ OutputGoes(o) \/ registry_global(o)
        \/ \E m \in Modes : ModeSet(o, m)
        \/ \E t \in Tiles, v \in Shades : ScreenChanges(o, t, v)
    \/ \E k \in Keys : sg_stream_unicode(k) \/ on_key(k, TRUE) \/ on_key(k, FALSE)

-----------------------------------------------------------------------------
(* Properties.                                                             *)

\* What the stream remembers of its two sides is so.  prev is "what the client
\* has": while the stream runs and believes that it knows, every tile of prev is
\* what was really sent, through mode changes, failed frames and new buffers
\* (only a tile that memory failed is unknown).  keys_down is what is down in the
\* session, and nothing is once it has been freed for a client that left; a
\* view-only stream presses nothing.
RemembersTruly ==
    /\ stream = "started" /\ have_prev /\ ~gone =>
          \A t \in Tiles : prev[t] = client[t] \/ (nomem /\ prev[t] = Blank)
    /\ ~gone => pressed = keys_down
    /\ ~gone /\ stream = "freed" => pressed = {}
    /\ view_only => pressed = {}

\* Once the screen stays as it is the client comes to show it (sg-rdp-stream.h
\* "changed 64x64 tiles are sent"), whatever changed while a frame was under
\* way, unless memory failed or the output captured has gone.
PictureCatchesUp ==
    []<>(\/ stream # "started" \/ gone \/ ~session \/ ~peer \/ nomem \/ of \notin alive
         \/ client = screen[of])
=============================================================================
