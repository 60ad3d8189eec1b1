------------------------------- MODULE Planar -------------------------------
(***************************************************************************)
(* The bitmap compression of the remote desktop (sg-planar): the planes of *)
(* a bitmap, scanline by scanline, each folded against the one above it    *)
(* and cut into segments, against a decoder written from the format (the   *)
(* comment that opens sg-planar.c).  A segment is kept as the two nibbles  *)
(* of its control byte and the raw bytes that follow.                      *)
(***************************************************************************)
EXTENDS Integers, Sequences, SequencesExt

CONSTANTS Bitmaps    \* the bitmaps tried: three planes of scanlines, bottom up

ASSUME PlanarConstants ==
    \A b \in Bitmaps : Len(b) = 3 /\ \A p \in 1..3 : Len(b[p]) = Len(b[1]) /\ Len(b[1]) > 0

VARIABLES
    bitmap,     \* the one being coded
    plane, row, \* the plane and the scanline
    coded,      \* that scanline, folded
    pos,        \* values of it that are done
    repeated,   \* what a run repeats
    segs,       \* its segments so far
    written,    \* bytes written before this scanline
    coding      \* "idle", "line", "segment", "raw", "done"

planarVars == <<bitmap, plane, row, coded, pos, repeated, segs, written, coding>>

width == Len(bitmap[1][1])
height == Len(bitmap[1])
raw_size == 1 + 3 * width * height + 1

PlanarTypeOK ==
    /\ plane \in 1..4 /\ row \in 1..(8192 + 1)
    /\ coded \in Seq(0..255) /\ pos \in 0..Len(coded) /\ repeated \in 0..255 /\ written \in Nat
    /\ segs \in Seq([run : 0..15, raw : 0..15, bytes : Seq(0..255)])
    /\ coding \in {"idle", "line", "segment", "raw", "done"}

PlanarInit ==
    /\ bitmap = <<>> /\ plane = 1 /\ row = 1 /\ coded = <<>> /\ pos = 0 /\ repeated = 0
    /\ segs = <<>> /\ written = 1 /\ coding = "idle"

-----------------------------------------------------------------------------
(* The format: what a decoder makes of segments and folded values.         *)

\* Runs are of nRunLength, or, as escapes 1 and 2, of cRawBytes + 16 or + 32.
Expand(seq) ==
    LET Values(acc, s) ==
            LET run == IF s.run \in {1, 2} THEN s.raw + 16 * s.run ELSE s.run
                got == acc \o s.bytes
                val == IF got = <<>> THEN 0 ELSE Last(got)
            IN  got \o [k \in 1..run |-> val]
    IN  FoldLeft(Values, <<>>, seq)

Unfold(c, up) == (up + (IF c % 2 = 0 THEN c \div 2 ELSE -((c + 1) \div 2))) % 256

Bytes(seq) == FoldLeft(LAMBDA acc, s : acc + 1 + Len(s.bytes), 0, seq)

-----------------------------------------------------------------------------
(* The encoder.                                                            *)

rle_line_bound(len) == len + (len + 14) \div 15

sg_planar_bound == LET rle == 1 + 3 * height * rle_line_bound(width) IN IF rle > raw_size THEN rle ELSE raw_size

control(run, raw, bytes) == [run |-> run % 16, raw |-> raw % 16, bytes |-> bytes]

\* How many values after the first k equal val.
run_of(v, k, val) ==
    LET stops == {j \in (k + 1)..Len(v) : v[j] # val}
    IN  IF stops = {} THEN Len(v) - k ELSE (CHOOSE j \in stops : \A m \in stops : j <= m) - 1 - k

\* The cut of a run into stretches of one control byte each.  (Variant: 48 in
\* one of them.)
RECURSIVE cut_run_48(_)
cut_run_48(run) ==
    IF run < 3 THEN <<>> ELSE LET c == IF run > 48 THEN 48 ELSE run IN <<c>> \o cut_run_48(run - c)
RECURSIVE cut_run(_)
cut_run(run) ==
    IF run < 3 THEN <<>> ELSE LET c == IF run > 47 THEN 47 ELSE run IN <<c>> \o cut_run(run - c)

run_control(c) ==
    IF c >= 32 THEN control(2, c - 32, <<>>) ELSE IF c >= 16 THEN control(1, c - 16, <<>>) ELSE control(c, 0, <<>>)

\* How many values are sent raw from the first k on: until one is followed by
\* a run worth taking, and at most 15.
raw_of(v, k) ==
    LET ends == {r \in 1..15 : k + r <= Len(v) /\ (r = 15 \/ k + r = Len(v) \/ run_of(v, k + r, v[k + r]) >= 3)}
    IN  CHOOSE r \in ends : \A m \in ends : r <= m

\* One turn of rle_line's loop: a run of the last value, or raw values and
\* the run that rides on their control byte.
rle_line ==
    /\ coding = "segment" /\ pos < Len(coded)
    /\ LET run == run_of(coded, pos, repeated) IN
       IF run >= 3
       THEN LET cut == cut_run(run) IN
            /\ segs' = segs \o [k \in 1..Len(cut) |-> run_control(cut[k])]
            /\ pos' = pos + FoldLeft(+, 0, cut) /\ UNCHANGED repeated
       ELSE LET raw == raw_of(coded, pos)
                after == run_of(coded, pos + raw, coded[pos + raw])
                follow == IF after < 3 THEN 0 ELSE IF after > 15 THEN 15 ELSE after
            IN  /\ segs' = Append(segs, control(follow, raw, SubSeq(coded, pos + 1, pos + raw)))
                /\ pos' = pos + raw + follow /\ repeated' = coded[pos + raw + follow]
    /\ UNCHANGED <<bitmap, plane, row, coded, written, coding>>

\* The difference from the value above as a signed byte, its sign folded into
\* the low bit.
fold_delta(cur, up) ==
    LET delta == (cur - up) % 256 IN IF delta < 128 THEN 2 * delta ELSE 2 * (256 - delta) - 1

Begin(b) ==
    /\ coding = "idle" /\ bitmap' = b /\ coding' = "line"
    /\ UNCHANGED <<plane, row, coded, pos, repeated, segs, written>>

\* A scanline begins, if what it might take is still less than raw planes.
encode_line ==
    /\ coding = "line" /\ plane <= 3
    /\ IF written + rle_line_bound(width) > raw_size
       THEN coding' = "raw" /\ UNCHANGED <<coded, pos, repeated, segs>>
       ELSE /\ coded' = IF row = 1 THEN bitmap[plane][1]
                        ELSE [x \in 1..width |-> fold_delta(bitmap[plane][row][x], bitmap[plane][row - 1][x])]
            /\ coding' = "segment" /\ pos' = 0 /\ repeated' = 0 /\ segs' = <<>>
    /\ UNCHANGED <<bitmap, plane, row, written>>

line_done ==
    /\ coding = "segment" /\ pos = Len(coded)
    /\ written' = written + Bytes(segs) /\ coding' = "line"
    /\ IF row < height THEN row' = row + 1 /\ UNCHANGED plane ELSE row' = 1 /\ plane' = plane + 1
    /\ UNCHANGED <<bitmap, coded, pos, repeated, segs>>

\* RLE beat raw planes, or it did not.
encode_end ==
    /\ coding = "line" /\ plane = 4
    /\ coding' = IF written < raw_size THEN "done" ELSE "raw"
    /\ UNCHANGED <<bitmap, plane, row, coded, pos, repeated, segs, written>>

raw_planes ==
    /\ coding = "raw" /\ coding' = "done" /\ written' = raw_size
    /\ UNCHANGED <<bitmap, plane, row, coded, pos, repeated, segs>>

PlanarNext == rle_line \/ encode_line \/ line_done \/ encode_end \/ raw_planes \/ \E b \in Bitmaps : Begin(b)

-----------------------------------------------------------------------------
(* What it promises.                                                       *)

\* "The decoded pixels are exactly the input", at every segment: what the
\* decoder has made of the scanline so far is its beginning, and unfolding it
\* against the one above gives the pixels.  "The most bytes sg_planar_encode can
\* write": no scanline takes more than was reckoned for it, so the buffer is
\* never overrun on the way to finding out that raw planes are shorter, and what
\* is sent is never longer.
EncodesExactly ==
    /\ coding = "segment" =>
          /\ Expand(segs) = SubSeq(coded, 1, pos)
          /\ row > 1 => \A x \in 1..width : Unfold(coded[x], bitmap[plane][row - 1][x]) = bitmap[plane][row][x]
          /\ Bytes(segs) <= rle_line_bound(width) /\ written + Bytes(segs) <= sg_planar_bound
    /\ coding = "done" => written <= raw_size
=============================================================================
