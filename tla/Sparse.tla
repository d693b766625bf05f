------------------------------- MODULE Sparse -------------------------------
(***************************************************************************)
(* The reader of Android sparse images that pack puts before its           *)
(* compressor: it expands chunk after chunk into whatever buffer its       *)
(* caller offers.  A file that does not start with the magic passes        *)
(* unchanged.                                                              *)
(*                                                                         *)
(* The file is a sequence of units.  A chunk header is one unit (12 bytes  *)
(* in the format, so HeaderLen is 1 here), a fill pattern is Pat units (4  *)
(* bytes), and an int64 holds Half numbers from zero up (2^63), and Half   *)
(* below zero.                                                             *)
(***************************************************************************)
EXTENDS Integers, SequencesExt

CONSTANTS Images,        \* the files pack may be given
          Pat,           \* units of a fill pattern
          Half           \* the numbers of an int64 that are not negative

HeaderLen == 1

IsSequence(s) == s \in Seq(Range(s))

\* Whatever is parsed as a header has unsigned numbers in it.
Numbered(h) == h.blks \in Nat /\ h.total \in Nat

ASSUME SparseAssumption ==
    /\ Pat \in Nat \ {0} /\ Half \in Nat \ {0}
    /\ \A f \in Images :
          /\ f.sparse \in BOOLEAN /\ f.blk \in Nat
          /\ IsSequence(f.plain) /\ IsSequence(f.chunks)
          /\ \A u \in Range(f.plain) : Numbered(u)
          /\ \A c \in Range(f.chunks) :
                Numbered(c) /\ IsSequence(c.body) /\ \A u \in Range(c.body) : Numbered(u)

VARIABLES src,           \* the file being read
          in,            \* what is left of it
          left,          \* chunksLeft
          chunk,         \* kind of the current chunk, its fill pattern and fillPos
          rem,           \* output the current chunk still owes
          out,           \* the raw image so far
          verdict        \* "none", "reading", "eof" or "error"

sparseVars == <<src, in, left, chunk, rem, out, verdict>>

\* A unit of data, and a unit that is a chunk header.
Unit(v) == [v |-> v, kind |-> "data", blks |-> 0, total |-> 0]
ChunkHead(kind, blks, total) == [v |-> "head", kind |-> kind, blks |-> blks, total |-> total]
Zero == Unit("0")

NoChunk == [kind |-> "none", fill |-> <<>>, pos |-> 0]
NoFile  == [blk |-> 0, chunks |-> <<>>, sparse |-> FALSE, plain |-> <<>>]

\* A chunk [kind, blks, total, body] is a header and the units that follow it;
\* total is what the header says of their number.
Units(f) == IF f.sparse
            THEN FlattenSeq([i \in DOMAIN f.chunks |->
                    <<ChunkHead(f.chunks[i].kind, f.chunks[i].blks, f.chunks[i].total)>> \o f.chunks[i].body])
            ELSE f.plain

\* int64(a) * int64(b): the product wraps where it does not fit.
Int64(x) == LET m == x % (2 * Half) IN IF m >= Half THEN m - 2 * Half ELSE m
OutLen(f, h) == Int64(h.blks * f.blk)

SparseInit ==
    /\ src = NoFile /\ in = <<>> /\ left = 0 /\ chunk = NoChunk /\ rem = 0
    /\ out = <<>> /\ verdict = "none"

Ends(v) == verdict' = v /\ UNCHANGED <<src, in, left, chunk, rem, out>>

\* MaybeSparseReader, newSparseReader: the block size must be a multiple of the pattern.
OpenImage(f) ==
    /\ verdict = "none"
    /\ src' = f /\ in' = Units(f) /\ out' = <<>>
    /\ IF f.sparse
       THEN /\ left' = Len(f.chunks) /\ rem' = 0 /\ chunk' = NoChunk
            /\ verdict' = IF f.blk = 0 \/ f.blk % Pat # 0 THEN "error" ELSE "reading"
       ELSE /\ left' = 0 /\ rem' = Len(f.plain) /\ chunk' = [NoChunk EXCEPT !.kind = "raw"]
            /\ verdict' = "reading"

\* io.CopyN of a negative count copies nothing and reports no error.
Skip(n) == IF n < 0 THEN 0 ELSE n

\* nextChunk: the header counts as read whatever comes of it.
NextChunk ==
    /\ verdict = "reading" /\ rem <= 0 /\ left > 0
    /\ IF in = <<>> THEN Ends("error")
       ELSE LET h == in[1]
                payload == h.total - HeaderLen
                body == Tail(in)
                Owes(kind, fill, used, n) ==
                    /\ Len(body) >= used
                    /\ in' = SubSeq(body, used + 1, Len(body))
                    /\ chunk' = [kind |-> kind, fill |-> fill, pos |-> 0]
                    /\ rem' = n
                    /\ UNCHANGED verdict
                Fails == verdict' = "error" /\ UNCHANGED <<in, chunk, rem>>
            IN /\ left' = left - 1
               /\ \/ h.kind = "raw"  /\ payload = OutLen(src, h) /\ Owes("raw", <<>>, 0, OutLen(src, h))
                  \/ h.kind = "raw"  /\ payload # OutLen(src, h) /\ Fails
                  \/ h.kind = "fill" /\ payload = Pat /\ Owes("fill", SubSeq(body, 1, Pat), Pat, OutLen(src, h))
                  \/ h.kind = "fill" /\ (payload # Pat \/ Len(body) < Pat) /\ Fails
                  \/ h.kind = "dontcare" /\ Owes("zero", <<>>, Skip(payload), OutLen(src, h))
                  \/ h.kind = "crc32" /\ Owes("none", <<>>, Skip(payload), 0)
                  \/ h.kind \in {"dontcare", "crc32"} /\ Len(body) < Skip(payload) /\ Fails
                  \/ h.kind \notin {"raw", "fill", "dontcare", "crc32"} /\ Fails
               /\ UNCHANGED <<src, out>>

\* Read of n units, or of all the chunk still owes when that is less.
EmitRaw(n) ==
    /\ chunk.kind = "raw"
    /\ IF in = <<>>
       THEN Ends("error")                     \* io.ErrUnexpectedEOF
       ELSE LET r == IF n < Len(in) THEN n ELSE Len(in)
            IN /\ out' = out \o SubSeq(in, 1, r)
               /\ in' = SubSeq(in, r + 1, Len(in))
               /\ rem' = rem - r
               /\ UNCHANGED <<src, left, chunk, verdict>>

\* Fault variant: every Read starts the pattern again.
EmitFillAfresh(n) ==
    /\ chunk.kind = "fill"
    /\ out' = out \o [i \in 1..n |-> chunk.fill[((i - 1) % Pat) + 1]]
    /\ rem' = rem - n
    /\ UNCHANGED <<src, in, left, chunk, verdict>>

\* fillPos goes on from one Read to the next.
EmitFill(n) ==
    /\ chunk.kind = "fill"
    /\ out' = out \o [i \in 1..n |-> chunk.fill[((chunk.pos + i - 1) % Pat) + 1]]
    /\ chunk' = [chunk EXCEPT !.pos = (chunk.pos + n) % Pat]
    /\ rem' = rem - n
    /\ UNCHANGED <<src, in, left, verdict>>

EmitZero(n) ==
    /\ chunk.kind = "zero"
    /\ out' = out \o [i \in 1..n |-> Zero]
    /\ rem' = rem - n
    /\ UNCHANGED <<src, in, left, chunk, verdict>>

Emit == /\ verdict = "reading" /\ rem > 0
        /\ \E n \in 1..rem : EmitRaw(n) \/ EmitFill(n) \/ EmitZero(n)

EndOfImage == verdict = "reading" /\ rem <= 0 /\ left = 0 /\ Ends("eof")

ReadImage == NextChunk \/ Emit \/ EndOfImage

---------------------------------------------------------------------------
(* What a sparse image stands for, read off its chunks. *)

\* Headers agree with what follows them and no expansion overflows.
Proper(f) ==
    f.sparse =>
        /\ f.blk > 0 /\ f.blk % Pat = 0
        /\ \A i \in DOMAIN f.chunks : LET c == f.chunks[i] IN
              /\ c.kind \in {"raw", "fill", "dontcare", "crc32"}
              /\ c.total = HeaderLen + Len(c.body)
              /\ c.kind = "raw" => Len(c.body) = c.blks * f.blk
              /\ c.kind = "fill" => Len(c.body) = Pat
              /\ c.blks * f.blk < Half

Expansion(c, blk) ==
    [i \in 1..(IF c.kind = "crc32" THEN 0 ELSE c.blks * blk) |->
        CASE c.kind = "raw"  -> c.body[i]
          [] c.kind = "fill" -> c.body[((i - 1) % Pat) + 1]
          [] OTHER           -> Zero]

RawImage(f) == IF f.sparse
               THEN FlattenSeq([i \in DOMAIN f.chunks |-> Expansion(f.chunks[i], f.blk)])
               ELSE f.plain

\* Whatever sizes its caller reads in, a proper image is expanded to its end and to
\* the image it stands for, and a plain one passes unchanged (sparse.go:1-29).
PackedIsRaw ==
    Proper(src) => verdict # "error" /\ (verdict = "eof" => out = RawImage(src))
=============================================================================
