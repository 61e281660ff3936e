-------------------------------- MODULE Font --------------------------------
(****************************************************************************)
(* The part of hw/gfx/ssfn.h that the kernel uses, as Print's loop uses it: *)
(* ssfn_utf8 takes a code point off a string, and ssfn_putc looks for its   *)
(* glyph and draws that on the cursor's line, whose background is color 0.  *)
(* A font is a sequence of entries, glyphs and runs of code points without. *)
(****************************************************************************)
EXTENDS Integers, Sequences, FiniteSets, SequencesExt

CONSTANTS Bytes,       \* of arbitrary strings
          MaxBytes,    \* bound: their length
          Sayings,     \* sequences of code points, which come encoded
          Characters,  \* the table at characters_offs
          Shapes,      \* code point -> the number of the entry that is its glyph
          Width, Height  \* ssfn_dst.w and h, in pixels

\* ssfn_chr_t and its fragments, of which console fonts have bitmaps only: k
\* pixels a row, from row y on, and the numbers of the bits that are set.
Fragment(y, k, rows, bits) == [y |-> y, k |-> k, rows |-> rows, bits |-> bits]
Skip(j)                    == [glyph |-> FALSE, skip |-> j]
Glyph(advance, fragments)  == [glyph |-> TRUE, advance |-> advance, fragments |-> fragments]

VARIABLES said,    \* what the string encodes, if it was made so
          string,  \* up to and without its NUL
          s,       \* *s is string[s]
          codes,   \* the code points so far
          drawn,   \* pixels in the foreground color
          pen      \* ssfn_dst.x
vars == <<said, string, s, codes, drawn, pen>>
-----------------------------------------------------------------------------
(* ssfn_utf8.                                                               *)

Byte(i) == IF i \in DOMAIN string THEN string[i] ELSE 0

\* How many bytes the first one announces behind it, and its share of the code.
\* A byte of the inside of a sequence passes for the first of two.
Announced(c) ==
    LET set(bit)  == (c \div bit) % 2 = 1
        r(n, low) == [n |-> n, c |-> low]
    IN  IF ~set(128) THEN r(0, c)
        ELSE IF ~set(32) THEN r(1, c % 32)
        ELSE IF ~set(16) THEN r(2, c % 16)
        ELSE IF ~set(8) THEN r(3, c % 8)
        ELSE r(0, 0)

Continues(i) == Byte(i) \div 64 = 2

\* Mutant of Utf8: bytes are taken without a look.
Utf8Blind ==
    LET first == Announced(Byte(s))
        c[i \in 0..first.n] == IF i = 0 THEN first.c ELSE c[i - 1] * 64 + (Byte(s + i) % 64)
    IN  [c |-> c[first.n], s |-> s + 1 + first.n]

\* "A truncated sequence returns 0 and leaves *s on the offending byte".
Utf8 ==
    LET first == Announced(Byte(s))
        c[i \in 0..first.n] == IF i = 0 THEN first.c ELSE c[i - 1] * 64 + (Byte(s + i) % 64)
        short == {i \in 1..first.n : ~Continues(s + i)}
    IN  IF short # {} THEN [c |-> 0, s |-> s + CHOOSE i \in short : \A j \in short : i <= j]
        ELSE [c |-> c[first.n], s |-> s + 1 + first.n]
-----------------------------------------------------------------------------
(* ssfn_putc.                                                               *)

Codespace == 1114112

\* Mutant of Lookup: the loop's own step is forgotten.
LookupSkipped(unicode) ==
    LET code[k \in 1..Len(Characters)] ==
          IF k = 1 THEN 0
          ELSE code[k - 1] + (IF Characters[k - 1].glyph THEN 1 ELSE Characters[k - 1].skip)
    IN  {k \in DOMAIN Characters : Characters[k].glyph /\ code[k] < Codespace /\ code[k] = unicode}

\* The entries at which the loop's i is the code point: a run adds one less than
\* its length to i, and the loop adds one for each entry.
Lookup(unicode) ==
    LET code[k \in 1..Len(Characters)] ==
          IF k = 1 THEN 0
          ELSE code[k - 1] + 1 + (IF Characters[k - 1].glyph THEN 0 ELSE Characters[k - 1].skip)
    IN  {k \in DOMAIN Characters : Characters[k].glyph /\ code[k] < Codespace /\ code[k] = unicode}

\* A fragment: y and o, the row that o points to, go on from the one before.
Draw(dst, f) ==
    LET o    == dst.o + (f.y - dst.y)
        rows == {r \in 0..(f.rows - 1) : f.y + r < Height}
        bits == {b \in f.bits : b \div f.k \in rows /\ pen + (b % f.k) < Width}
    IN  [y |-> f.y + Cardinality(rows), o |-> o + Cardinality(rows),
         drawn |-> dst.drawn \cup {<<pen + (b % f.k), o + (b \div f.k)>> : b \in bits}]

Putc(unicode) ==
    IF Lookup(unicode) = {} THEN UNCHANGED <<drawn, pen>>
    ELSE LET chr == Characters[CHOOSE k \in Lookup(unicode) : TRUE]
             dst[i \in 0..Len(chr.fragments)] ==
               IF i = 0 THEN [y |-> 0, o |-> 0, drawn |-> drawn]
               ELSE Draw(dst[i - 1], chr.fragments[i])
         IN  /\ drawn' = dst[Len(chr.fragments)].drawn
             /\ pen' = pen + chr.advance

\* while (*s) PutCodepoint(ssfn_utf8(&s)), on a line that is wide enough.
PrintNext ==
    /\ Byte(s) # 0
    /\ s' = Utf8.s /\ codes' = Append(codes, Utf8.c)
    /\ Putc(Utf8.c)
    /\ UNCHANGED <<said, string>>
-----------------------------------------------------------------------------
(* Strings: sequences of code points as Unicode encodes them, and others.   *)

Encoded(c) ==
    LET inside(unit) == 128 + ((c \div unit) % 64)
    IN  IF c < 128 THEN <<c>>
        ELSE IF c < 2048 THEN <<192 + (c \div 64), inside(1)>>
        ELSE IF c < 65536 THEN <<224 + (c \div 4096), inside(64), inside(1)>>
        ELSE <<240 + (c \div 262144), inside(4096), inside(64), inside(1)>>

\* No text that ends with a NUL says this.
Arbitrary == <<0>>

Init ==
    /\ \/ /\ said \in Sayings
          /\ string = FlattenSeq([i \in DOMAIN said |-> Encoded(said[i])])
       \/ said = Arbitrary /\ string \in BoundedSeq(Bytes, MaxBytes)
    /\ s = 1 /\ codes = <<>> /\ drawn = {} /\ pen = 0

Next == PrintNext

Spec == Init /\ [][Next]_vars
-----------------------------------------------------------------------------
(* Properties.                                                              *)

\* The code point of each entry: a run of j is of j + 1 of them.
Begins[k \in 1..Len(Characters)] ==
    IF k = 1 THEN 0
    ELSE Begins[k - 1] + (IF Characters[k - 1].glyph THEN 1 ELSE Characters[k - 1].skip + 1)

Fragments == [y : Nat, k : Nat \ {0}, rows : Nat, bits : SUBSET Nat]

\* Shapes says where the font's glyphs are, each one for its own code point, and no
\* fragment has more bits than its rows have pixels.
IsFont ==
    /\ Characters \in Seq([glyph : {FALSE}, skip : Nat]
                            \cup [glyph : {TRUE}, advance : Nat, fragments : Seq(Fragments)])
    /\ \A e \in ToSet(Characters) : e.glyph =>
         \A f \in ToSet(e.fragments) : f.bits \subseteq 0..(f.k * f.rows - 1)
    /\ DOMAIN Shapes \subseteq 0..(Codespace - 1)
    /\ {Shapes[c] : c \in DOMAIN Shapes} = {k \in DOMAIN Characters : Characters[k].glyph}
    /\ \A c \in DOMAIN Shapes : Begins[Shapes[c]] = c

\* The glyphs of the code points side by side, cut off at the line's edges.
Picture(text) ==
    LET glyph(c) == IF c \in DOMAIN Shapes THEN Characters[Shapes[c]] ELSE Glyph(0, <<>>)
        left[i \in 1..(Len(text) + 1)] == IF i = 1 THEN 0 ELSE left[i - 1] + glyph(text[i - 1]).advance
    IN  (UNION {UNION {{<<left[i] + (b % f.k), f.y + (b \div f.k)>> : b \in f.bits} :
                         f \in ToSet(glyph(text[i]).fragments)} : i \in DOMAIN text})
          \cap ((0..(Width - 1)) \X (0..(Height - 1)))

\* "callers looping on *s never step past the end of the string": whatever bytes
\* there are, the loop stops at the NUL.  A string of encoded code points comes out
\* as these, and every pixel drawn is one of the glyphs, where they belong.
PrintsText ==
    /\ s <= Len(string) + 1
    /\ Byte(s) = 0 => /\ said # Arbitrary => codes = said
                      /\ drawn = Picture(codes)
=============================================================================
