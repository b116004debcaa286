------------------------------ MODULE Streams -------------------------------
(***************************************************************************)
(* The output streams of the programs: the buffer of the class output, and *)
(* the codecs output_text_encode and output_text_decode that stand, with a *)
(* buffer of their own, in front of another stream.                        *)
(*                                                                         *)
(* Every operator returns the stream after a call.  What the buffer next   *)
(* to the file hands to write_inner is queued in "pieces"; the program     *)
(* writes them one by one.  Buffer stands for 8192 bytes and Temp for the  *)
(* 16 KB that are copied at a time.                                        *)
(***************************************************************************)
EXTENDS TextCodec

CONSTANTS Buffer, Temp

ASSUME BufferAssumption == Buffer \in Nat /\ Buffer > 1 /\ Temp \in Nat /\ Temp > Buffer

Codecs == {"none", "encode", "decode"}

Take(s, n) == SubSeq(s, 1, IF n < Len(s) THEN n ELSE Len(s))
Drop(s, n) == SubSeq(s, n + 1, Len(s))

\* Fault: what is held is lost when the new data does not fit.
WriteForgetting(b, data) ==
    IF Len(b.held) + Len(data) <= Buffer THEN [b EXCEPT !.held = @ \o data]
    ELSE [b EXCEPT !.held = data]

\* A buffer b gets some data: what does not fit pushes out what is held, and
\* data as large as the buffer is not held at all.
WriteTo(b, data) ==
    LET out == IF b.held = <<>> THEN b.pieces ELSE Append(b.pieces, b.held)
    IN IF Len(b.held) + Len(data) <= Buffer THEN [b EXCEPT !.held = @ \o data]
       ELSE IF Len(data) < Buffer THEN [held |-> data, pieces |-> out]
       ELSE [held |-> <<>>, pieces |-> Append(out, data)]

FlushBuffer(b) ==
    IF b.held = <<>> THEN b
    ELSE [held |-> <<>>, pieces |-> Append(b.pieces, b.held)]

EmptyBuffer == [held |-> <<>>, pieces |-> <<>>]

\* A codec gives the buffer behind it one character at a time.
WriteCharacters(b, chars) ==
    FoldLeft(LAMBDA c, x : WriteTo(c, <<x>>), b, chars)

Coder(codec) ==
    IF codec = "encode"
    THEN [out |-> Times(Page, NUL), line |-> <<>>, column |-> 0, nonWhite |-> FALSE]
    ELSE [out |-> <<>>, column |-> 0, nonWhite |-> FALSE, dle |-> FALSE,
          header |-> Page]

\* A new stream; the encoder starts with the page the editor keeps its
\* settings in.
NewStream(codec) ==
    [codec  |-> codec,
     front  |-> EmptyBuffer,
     coder  |-> Coder(codec),
     back   |-> WriteCharacters(EmptyBuffer,
                    IF codec = "encode" THEN Times(Page, NUL) ELSE <<>>)]

-----------------------------------------------------------------------------
\* What the codec makes of the data its own buffer hands on.

\* The header is looked for in the first piece only.
HeaderLeft(coder, data) ==
    IF coder.header = Page /\ IsTextBuffer(data) THEN 0 ELSE coder.header

Coded1(codec, coder, data) ==
    IF codec = "encode" THEN FoldLeft(EncodeCharacter, coder, data)
    ELSE LET h == HeaderLeft(coder, data)
             skipped == IF h < Len(data) THEN h ELSE Len(data)
         IN FoldLeft(DecodeCharacter, [coder EXCEPT !.header = h - skipped],
                     Drop(data, skipped))

\* The stream s after its codec wrote the characters that coder has more.
Passed(s, coder) ==
    [s EXCEPT !.coder = coder,
              !.back = WriteCharacters(@, Drop(coder.out, Len(s.coder.out)))]

WriteInner(s, data) == Passed(s, Coded1(s.codec, s.coder, data))

\* The pieces of the front buffer go through the codec.
Coding(s) ==
    FoldLeft(WriteInner, [s EXCEPT !.front.pieces = <<>>], s.front.pieces)

-----------------------------------------------------------------------------
\* write, for a chunk of the input.
Accept(s, data) ==
    IF s.codec = "none" THEN [s EXCEPT !.back = WriteTo(@, data)]
    ELSE Coding([s EXCEPT !.front = WriteTo(@, data)])

\* flush
Flush(s) ==
    LET c == IF s.codec = "none" THEN s
             ELSE Coding([s EXCEPT !.front = FlushBuffer(@)])
    IN [c EXCEPT !.back = FlushBuffer(@)]

\* Fault: the last line is left in the encoder.
LastPageOnly(coder) ==
    [coder EXCEPT !.out = @ \o Times((-Len(@)) % Page, NUL)]

\* The encoder's destructor writes a last line that has no end, and fills the
\* last page.
LastPage(coder) ==
    LET c == IF coder.line = <<>> THEN coder ELSE WriteOneLine(coder)
    IN [c EXCEPT !.out = @ \o Times((-Len(@)) % Page, NUL)]

\* The destructors.
CloseStream(s) ==
    LET f == Flush(s)
        last == IF f.codec = "encode" THEN Passed(f, LastPage(f.coder)) ELSE f
    IN [last EXCEPT !.back = FlushBuffer(@)]

Pending(s) == s.back.pieces
NextPiece(s) == Head(Pending(s))
PieceWritten(s) == [s EXCEPT !.back.pieces = Tail(@)]

\* A file without its header, which is looked for in the first 16 KB: Decode does
\* the same for a file that is no longer.
WithoutHeader(data) ==
    IF IsTextBuffer(Take(data, Temp)) THEN data ELSE Drop(data, Page)

\* What a stream makes of a whole text or file.
Through(codec, data) ==
    CASE codec = "none" -> data
      [] codec = "encode" -> Encode(data)
      [] codec = "decode" ->
            FoldLeft(DecodeCharacter, Coder("decode"), WithoutHeader(data)).out

=============================================================================
