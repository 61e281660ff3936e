------------------------------- MODULE Formatter -------------------------------
(****************************************************************************)
(* Formatted output: vsnprintf and i64toa (lib/libc/print.cc) with strlcpy  *)
(* (lib/libc/str.cc), as Print (hw/gfx/output.cc) and serial::Write use     *)
(* them, and the loader's own vwsnprintf with itow and strlcpy16            *)
(* (boot/mini-libc.h), as print_string uses it.  A format is a sequence of  *)
(* items: characters to be copied, and conversions with their arguments.    *)
(* Integers are bit patterns of IntBits or LongLongBits.                    *)
(****************************************************************************)
EXTENDS Integers, Sequences, FiniteSets, SequencesExt

CONSTANTS Small, Large,            \* sizes of Print's two buffers, 512 and 2048; the
                                   \* loader's and the serial port's is the small one
          IntBits, LongLongBits,   \* 32 and 64
          Items,                   \* items messages are made of
          MaxItems                 \* bound: items in a message

Nul == "nul"

\* What parse tells vsnprintf of a conversion.
Plain == [long |-> FALSE, hex |-> FALSE, signed |-> TRUE]
Conversions ==
    [d   |-> Plain,                         u   |-> [Plain EXCEPT !.signed = FALSE],
     x   |-> [Plain EXCEPT !.hex = TRUE, !.signed = FALSE],
     ll  |-> [Plain EXCEPT !.long = TRUE],    llu |-> [Plain EXCEPT !.long = TRUE, !.signed = FALSE],
     llx |-> [long |-> TRUE, hex |-> TRUE, signed |-> FALSE],
     p   |-> [long |-> TRUE, hex |-> TRUE, signed |-> FALSE]]

IsNumber(item) == item.conv \in DOMAIN Conversions
Radix(conv)    == IF Conversions[conv].hex THEN 16 ELSE 10
Bits(conv)     == IF Conversions[conv].long THEN LongLongBits ELSE IntBits
Negative(conv, bits) == Conversions[conv].signed /\ bits >= 2 ^ (Bits(conv) - 1)

VARIABLES message,  \* the items, as long as they last
          port,     \* "screen", or "early" as long as there is no heap; "serial"; "loader"
          next,     \* the item vsnprintf is at
          n, str, len,   \* vsnprintf's arguments and variable
          overrun,  \* something was written behind the end of str
          phase,    \* "format", then "returned" or "full"; "shown"
          shown     \* what came out
vars == <<message, port, next, n, str, len, overrun, phase, shown>>
-----------------------------------------------------------------------------
(* i64toa, i32toa.                                                          *)

Table == <<"0", "1", "2", "3", "4", "5", "6", "7", "8", "9", "a", "b", "c", "d", "e", "f">>

\* The digits as the loop stores them, from the last one back.
Digits(radix) ==
    LET rest[u \in 0..(2 ^ LongLongBits - 1)] ==
          IF u < radix THEN <<Table[u + 1]>>
                         ELSE Append(rest[u \div radix], Table[(u % radix) + 1])
    IN  rest

\* Mutant of Magnitude: a negative value is not negated.
MagnitudeUnsigned(conv, bits) == bits

\* Unsigned negation, which the least value survives.
Magnitude(conv, bits) == IF Negative(conv, bits) THEN 2 ^ Bits(conv) - bits ELSE bits

Itoa(conv, bits) ==
    (IF Negative(conv, bits) THEN <<"-">> ELSE <<>>) \o Digits(Radix(conv))[Magnitude(conv, bits)]
\* The loader's is the same but for its digits' width.
Itow(conv, bits) == Itoa(conv, bits)
-----------------------------------------------------------------------------
(* vsnprintf, one item a step.                                              *)

\* What an item puts into str.  A conversion that parse does not know puts nothing.
Chars(item) ==
    CASE IsNumber(item)        -> Itoa(item.conv, item.arg)
      [] item.conv = "s"       -> item.arg
      [] item.conv = "unknown" -> <<>>
      [] OTHER                 -> <<item.arg>>

\* The loader's passes over the % alone: the letter behind it is copied.
CharsWide(item) ==
    IF IsNumber(item) THEN Itow(item.conv, item.arg)
    ELSE IF item.conv = "unknown" THEN <<item.arg>> ELSE Chars(item)

Copied(item) == IsNumber(item) \/ item.conv = "s"

\* chars go to str[len] and on.
Write(chars) ==
    /\ str' = [i \in DOMAIN str |-> IF i \in len..(len + Len(chars) - 1)
                                    THEN chars[i - len + 1] ELSE str[i]]
    /\ overrun' = (overrun \/ len + Len(chars) > Cardinality(DOMAIN str))

\* str[i] = '\0'
PutNul(i) ==
    /\ str' = [str EXCEPT ![i] = Nul]
    /\ overrun' = (overrun \/ i \notin DOMAIN str)

\* Mutant of Strlcpy: there is no room left for the end of the string.
StrlcpyFull(chars) == Write(IF Len(chars) < n - len THEN Append(chars, Nul)
                            ELSE Append(SubSeq(chars, 1, n - len), Nul))

\* strlcpy(&str[len], chars, n - len).
Strlcpy(chars) == Write(IF Len(chars) < n - len THEN Append(chars, Nul)
                        ELSE Append(SubSeq(chars, 1, n - len - 1), Nul))

\* Mutant of Length: strlcpy returns what it copied.
LengthCopied(item) == IF Copied(item) /\ Len(Chars(item)) >= n - len THEN n - len - 1
                      ELSE Len(Chars(item))

\* What len grows by: strlcpy returns the length of its source.
Length(item) == Len(Chars(item))

Put(item) ==
    /\ phase = "format" /\ port # "loader" /\ len < n /\ next <= Len(message) /\ item = message[next]
    /\ IF Copied(item) THEN Strlcpy(Chars(item)) ELSE Write(Chars(item))
    /\ len' = len + Length(item) /\ next' = next + 1
    /\ UNCHANGED <<message, port, n, phase, shown>>

\* len may be past n.
Full ==
    /\ phase = "format" /\ port # "loader" /\ len >= n
    /\ PutNul(n - 1)
    /\ phase' = "full"
    /\ UNCHANGED <<message, port, next, n, len, shown>>

End ==
    /\ phase = "format" /\ port # "loader" /\ len < n /\ next > Len(message)
    /\ PutNul(len)
    /\ phase' = "returned"
    /\ UNCHANGED <<message, port, next, n, len, shown>>
-----------------------------------------------------------------------------
(* vwsnprintf: it is told one element less than there are, and ends what    *)
(* does not fit, too.                                                       *)

\* strlcpy16: what Strlcpy does to wider characters.
Strlcpy16(chars) == Strlcpy(chars)

PutWide(item) ==
    /\ phase = "format" /\ port = "loader" /\ len < n /\ next <= Len(message) /\ item = message[next]
    /\ IF Copied(item) THEN Strlcpy16(CharsWide(item)) ELSE Write(CharsWide(item))
    /\ len' = len + Len(CharsWide(item)) /\ next' = next + 1
    /\ UNCHANGED <<message, port, n, phase, shown>>

\* Mutant of EndWide: len is taken as it is, past n or not.
EndWideAnywhere ==
    /\ phase = "format" /\ port = "loader" /\ (len >= n \/ next > Len(message))
    /\ PutNul(len)
    /\ phase' = "returned"
    /\ UNCHANGED <<message, port, next, n, len, shown>>

EndWide ==
    /\ phase = "format" /\ port = "loader" /\ (len >= n \/ next > Len(message))
    /\ PutNul(IF len > n THEN n ELSE len)
    /\ phase' = "returned"
    /\ UNCHANGED <<message, port, next, n, len, shown>>
-----------------------------------------------------------------------------
(* Print, serial::Write and print_string.                                   *)

\* From s up to the first NUL.
UpToNul(s) == IF Contains(s, Nul) THEN SubSeq(s, 1, SelectInSeq(s, LAMBDA c : c = Nul) - 1) ELSE s
CString == UpToNul([i \in 1..Cardinality(DOMAIN str) |-> str[i - 1]])

\* A second try with the arguments from the start, into heap_str; its buffer has
\* been cleared by reserve.
Retry ==
    /\ phase = "full" /\ port = "screen" /\ n = Small
    /\ n' = Large /\ str' = [i \in 0..(Large - 1) |-> Nul]
    /\ len' = 0 /\ next' = 1 /\ phase' = "format"
    /\ UNCHANGED <<message, port, overrun, shown>>

\* Messages of Print's own, short enough for str.
Excuse == IF n = Small THEN <<"Print: Stack buffer too small!", "\n">>
          ELSE <<"Print: Heap buffer too small!", "\n">>

Show ==
    /\ \/ phase = "returned"
       \/ phase = "full" /\ port = "serial"
    /\ shown' = CString
    /\ phase' = "shown"
    /\ UNCHANGED <<message, port, next, n, str, len, overrun>>

GiveUp ==
    /\ phase = "full"
    /\ \/ port = "early"
       \/ port = "screen" /\ n = Large
    /\ shown' = Excuse /\ phase' = "shown"
    /\ UNCHANGED <<message, port, next, n, str, len, overrun>>

Init ==
    /\ message \in UNION {[1..k -> Items] : k \in 0..MaxItems}
    /\ port \in {"screen", "early", "serial", "loader"}
    /\ next = 1 /\ n = (IF port = "loader" THEN Small - 1 ELSE Small) /\ len = 0
    /\ str = [i \in 0..(Small - 1) |-> IF port = "loader" THEN "junk" ELSE Nul]
    /\ overrun = FALSE /\ phase = "format" /\ shown = <<>>

Next ==
    \/ \E item \in Items : Put(item) \/ PutWide(item)
    \/ Full \/ End \/ EndWide \/ Retry \/ Show \/ GiveUp

Spec == Init /\ [][Next]_vars
-----------------------------------------------------------------------------
(* Properties.                                                              *)

\* The text of a number: no leading zeros, a sign only for a negative value, and
\* the digits add up to it.
Reads(text, conv, bits) ==
    LET digits == IF Negative(conv, bits) THEN Tail(text) ELSE text
        value[k \in 0..Len(digits)] ==
          IF k = 0 THEN 0
          ELSE value[k - 1] * Radix(conv) + CHOOSE v \in 0..15 : Table[v + 1] = digits[k]
    IN  /\ digits # <<>> /\ (digits[1] # "0" \/ Len(digits) = 1)
        /\ IF Negative(conv, bits) THEN Head(text) = "-" /\ value[Len(digits)] = 2 ^ Bits(conv) - bits
                                   ELSE value[Len(digits)] = bits

\* These cut nothing off, or nothing that is as short.
ReadsWhole == port = "screen" \/ (port = "loader" /\ len < Small - 1)

\* A message of a single number reads as that number, the least of its type included.
NumbersReadBack ==
    phase = "shown" /\ Excuse # shown /\ ReadsWhole /\ Len(message) = 1 /\ IsNumber(message[1])
      => Reads(shown, message[1].conv, message[1].arg)

\* Whole is the text a message stands for.
Whole == FlattenSeq([i \in DOMAIN message |->
                       IF port = "loader" THEN CharsWide(message[i]) ELSE Chars(message[i])])

\* What comes out is the message, up to its first NUL, if one of the buffers has
\* room for it and a NUL; a message that has not is replaced on the screen, never
\* cut off, and cut off on the serial port and by the loader, whose last character
\* may go although there is room.  Nothing is left of a first try, or of what was
\* in the buffer, and numbers read as themselves.
ShowsMessage ==
    /\ NumbersReadBack
    /\ phase = "shown" /\ port = "loader" =>
         \E k \in {Len(Whole)} \cup {Small - 2, Small - 1} :
           /\ k <= Len(Whole) /\ (k < Len(Whole) => Len(Whole) >= Small - 1)
           /\ shown = UpToNul(SubSeq(Whole, 1, k))
    /\ phase = "shown" /\ port # "loader" =>
         shown = IF port = "serial" THEN UpToNul(SubSeq(Whole, 1, IF Len(Whole) < Small THEN Len(Whole) ELSE Small - 1))
                 ELSE IF Len(Whole) < (IF port = "early" THEN Small ELSE Large) THEN UpToNul(Whole)
                 ELSE Excuse

\* "len can exceed n here because strlcpy returns the full source length": still
\* nothing is written outside of the buffer.
StaysInBuffer == ~overrun
=============================================================================
