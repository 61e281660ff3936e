------------------------------ MODULE Strings ------------------------------
(****************************************************************************)
(* The C strings of lib/libc/str.cc: comparing, searching, joining and      *)
(* turning.  A character is its code as u8; a string is a sequence of codes *)
(* and ends in the NUL that Char reads behind the last of them, and nothing *)
(* further.  strlcpy is in Formatter.  Below them, what ec::string's queries *)
(* make of them: lib/ec/string.h and string.cc.                             *)
(****************************************************************************)
EXTENDS Integers, Sequences, FiniteSets, SequencesExt

CONSTANTS Codes,      \* codes strings are made of
          MaxLength   \* bound: characters in a string

Nul  == 0
NoPosition == 0   \* no position; positions count from 1

Texts == BoundedSeq(Codes, MaxLength)

VARIABLES s, t, n,   \* the arguments of a call
          called,    \* the function called, or "none"
          value      \* what it returned, and with strlcat and strrev did to s
vars == <<s, t, n, called, value>>

Char(text, i) == Append(text, Nul)[i]

Tolower(c) == IF c \in 65..90 THEN c + 32 ELSE c
Toupper(c) == IF c \in 97..122 THEN c - 32 ELSE c
Folded(text) == [i \in DOMAIN text |-> Tolower(text[i])]

\* Where a loop that goes up from lo stops, if it does by hi.
Stops(lo, hi, P(_)) == {i \in lo..hi : (\A j \in lo..(i - 1) : ~P(j)) /\ P(i)}
Stop(lo, hi, P(_))  == CHOOSE i \in Stops(lo, hi, P) : TRUE
-----------------------------------------------------------------------------
(* The functions.                                                           *)

Sign(d) == IF d < 0 THEN -1 ELSE IF d = 0 THEN 0 ELSE 1

Strcmp(a, b) ==
    LET i == Stop(1, Len(a) + 1, LAMBDA j : Char(a, j) # Char(b, j) \/ Char(a, j) = Nul)
    IN  Sign(Char(a, i) - Char(b, i))

\* Ends with the first string: "a" and "ab" are the same to it.
Stricmp(a, b) ==
    LET Differ(j) == Tolower(a[j]) # Tolower(Char(b, j))
        i == Stops(1, Len(a), Differ)
    IN  IF i = {} THEN 0 ELSE Sign(Tolower(a[CHOOSE j \in i : TRUE]) - Tolower(Char(b, CHOOSE j \in i : TRUE)))

Strncmp(a, b, k) ==
    LET i == Stops(1, k, LAMBDA j : j > Len(a) \/ Char(a, j) # Char(b, j))
    IN  IF i = {} THEN 0 ELSE LET j == CHOOSE j \in i : TRUE IN Sign(Char(a, j) - Char(b, j))

Strnicmp(a, b, k) == Stricmp(SubSeq(a, 1, IF k < Len(a) THEN k ELSE Len(a)), b)

\* From h on, the loop over both strings stops at the needle's end.
MatchesAt(haystack, needle, h) ==
    LET i == Stop(0, Len(needle), LAMBDA j : \/ h + j > Len(haystack) \/ j = Len(needle)
                                              \/ haystack[h + j] # needle[j + 1])
    IN  Char(needle, i + 1) = Nul

\* Mutant of Strstr: does not look at the last position.
StrstrShort(haystack, needle) ==
    IF \E h \in 1..(Len(haystack) - 1) : MatchesAt(haystack, needle, h)
    THEN Stop(1, Len(haystack), LAMBDA h : MatchesAt(haystack, needle, h)) ELSE NoPosition

Strstr(haystack, needle) ==
    IF Len(needle) <= Len(haystack) /\ \E h \in DOMAIN haystack : MatchesAt(haystack, needle, h)
    THEN Stop(1, Len(haystack), LAMBDA h : MatchesAt(haystack, needle, h)) ELSE NoPosition

Stristr(haystack, needle) == Strstr(Folded(haystack), Folded(needle))

Strchr(text, c) ==
    IF \E i \in DOMAIN text : text[i] = c THEN Stop(1, Len(text), LAMBDA i : text[i] = c) ELSE NoPosition

\* The loop runs over the NUL as well.
Strrchr(text, c) ==
    LET at == {i \in 1..(Len(text) + 1) : Char(text, i) = c}
    IN  IF at = {} THEN NoPosition ELSE CHOOSE i \in at : \A j \in at : j <= i

Strnlen(text, max) == IF Len(text) < max THEN Len(text) ELSE max

\* What dst, of size bytes, holds then, and the result.
Strlcat(dst, src, size) ==
    LET dlen == Strnlen(dst, size)
    IN  IF dlen = size THEN <<dst, size + Len(src)>>
        ELSE <<dst \o (IF Len(src) < size - dlen THEN src ELSE SubSeq(src, 1, size - dlen - 1)),
               dlen + Len(src)>>

\* The loop's swaps, as long as i is before j.
Strrev(text) ==
    LET swap[i \in 1..(Len(text) + 1)] ==
          IF i = 1 THEN text
          ELSE LET j == Len(text) - (i - 1) + 1
               IN  IF i - 1 < j THEN [swap[i - 1] EXCEPT ![i - 1] = swap[i - 1][j], ![j] = swap[i - 1][i - 1]]
                   ELSE swap[i - 1]
    IN  swap[Len(text) + 1]

\* The loop asks strlen again for every character.
Mapped(text, f(_)) ==
    LET done[i \in 0..Len(text)] == IF i = 0 THEN text ELSE [done[i - 1] EXCEPT ![i] = f(done[i - 1][i])]
    IN  done[Len(text)]
Strlwr(text) == Mapped(text, Tolower)
Strupr(text) == Mapped(text, Toupper)

\* Of k bytes, not only up to a NUL.
Memcmp(a, b, k) ==
    LET i == Stops(1, k, LAMBDA j : Char(a, j) # Char(b, j))
    IN  IF i = {} THEN 0 ELSE LET j == CHOOSE j \in i : TRUE IN IF Char(a, j) < Char(b, j) THEN -1 ELSE 1
-----------------------------------------------------------------------------
(* The queries of ec::string; positions count from 1 here as well, from, the *)
(* characters to leave out, does not.                                       *)

From(text, from) == SubSeq(text, from + 1, Len(text))
Found(at, from)  == IF at = NoPosition THEN NoPosition ELSE from + at

FindChar(text, c, from) ==
    IF from >= Len(text) THEN NoPosition ELSE Found(Strchr(From(text, from), c), from)

Find(text, sub, from) ==
    IF from >= Len(text) \/ Len(sub) > Len(text) THEN NoPosition ELSE Found(Strstr(From(text, from), sub), from)

FindIgnoringCase(text, sub, from) == Find(Folded(text), Folded(sub), from)

\* Mutant of CountOf: goes on one character behind an occurrence.
CountOverlapping(text, sub) ==
    LET count[from \in 0..Len(text)] ==
          LET at == Find(text, sub, from) IN IF at = NoPosition THEN 0 ELSE 1 + count[at]
    IN  count

\* count from every position; for an empty sub, the loop never ends.
CountOf(text, sub) ==
    LET count[from \in 0..Len(text)] ==
          LET at == Find(text, sub, from)
          IN  IF at = NoPosition THEN 0 ELSE 1 + count[(at - 1) + Len(sub)]
    IN  count
Count(text, sub, from) == IF from > Len(text) THEN 0 ELSE CountOf(text, sub)[from]

Equals(a, b)           == Len(a) = Len(b) /\ Strncmp(a, b, Len(a)) = 0
EqualsIgnoringCase(a, b) == Len(a) = Len(b) /\ Strnicmp(a, b, Len(a)) = 0
StartsWith(a, b)       == Len(b) <= Len(a) /\ Strncmp(a, b, Len(b)) = 0
EndsWith(a, b)         == Len(b) <= Len(a) /\ Strncmp(From(a, Len(a) - Len(b)), b, Len(b)) = 0
-----------------------------------------------------------------------------
Call(function, result) ==
    /\ called = "none" /\ called' = function /\ value' = result
    /\ UNCHANGED <<s, t, n>>

Init ==
    /\ s \in Texts /\ t \in Texts /\ n \in 0..(MaxLength + 1)
    /\ called = "none" /\ value = NoPosition

Next ==
    \/ Call("strcmp", Strcmp(s, t))  \/ Call("strncmp", Strncmp(s, t, n))
    \/ Call("stricmp", Stricmp(s, t)) \/ Call("strnicmp", Strnicmp(s, t, n))
    \/ Call("strstr", Strstr(s, t))  \/ Call("stristr", Stristr(s, t))
    \/ t # <<>> /\ (Call("strchr", Strchr(s, t[1])) \/ Call("strrchr", Strrchr(s, t[1])))
    \/ Len(s) <= n /\ Call("strlcat", Strlcat(s, t, n))
    \/ Call("strrev", Strrev(s))
    \/ Call("strlwr", Strlwr(s)) \/ Call("strupr", Strupr(s))
    \/ n <= Len(s) + 1 /\ n <= Len(t) + 1 /\ Call("memcmp", Memcmp(s, t, n))
    \/ Call("find", Find(s, t, n)) \/ Call("find, ignoring case", FindIgnoringCase(s, t, n))
    \/ t # <<>> /\ (Call("find char", FindChar(s, t[1], n)) \/ Call("count", Count(s, t, n)))
    \/ Call("equals", Equals(s, t)) \/ Call("equals, ignoring case", EqualsIgnoringCase(s, t))
    \/ Call("starts_with", StartsWith(s, t)) \/ Call("ends_with", EndsWith(s, t))

Spec == Init /\ [][Next]_vars
-----------------------------------------------------------------------------
(* Properties.                                                              *)

\* The order of strings, and what an occurrence of one in another is.
Precedes(a, b) ==
    \/ IsStrictPrefix(a, b)
    \/ \E i \in DOMAIN a \cap DOMAIN b : a[i] < b[i] /\ SubSeq(a, 1, i - 1) = SubSeq(b, 1, i - 1)
Order(a, b) == IF a = b THEN 0 ELSE IF Precedes(a, b) THEN -1 ELSE 1
Occurs(a, b) == {h \in DOMAIN a : h + Len(b) - 1 <= Len(a) /\ SubSeq(a, h, h + Len(b) - 1) = b}
IsFirst(h, at) == IF at = {} THEN h = NoPosition ELSE h \in at /\ \A i \in at : h <= i
IsLast(h, at)  == IF at = {} THEN h = NoPosition ELSE h \in at /\ \A i \in at : h >= i
UpTo(text, k) == SubSeq(text, 1, Strnlen(text, k))
Behind(at, k) == {h \in at : h > k}
\* The most occurrences of b, of those at the positions, that do not overlap.
MostApart(at, b) ==
    LET apart == {S \in SUBSET at : \A h, i \in S : h < i => h + Len(b) <= i}
    IN  CHOOSE k \in {Cardinality(S) : S \in apart} : \A S \in apart : Cardinality(S) <= k

\* The functions do what their names promise, high codes and empty strings
\* included: comparing is the order of unsigned characters, searching finds the
\* first or last occurrence, joining keeps to the size and tells the length it
\* would have taken.  stricmp and strnicmp are wrong about a string that, but for
\* case, the other one begins with: they are only held to it for the others.
AgreesWithReference ==
    CASE called = "strcmp"   -> value = Order(s, t)
      [] called = "strncmp"  -> value = Order(UpTo(s, n), UpTo(t, n))
      [] called = "stricmp"  -> ~IsStrictPrefix(Folded(s), Folded(t)) => value = Order(Folded(s), Folded(t))
      [] called = "strnicmp" -> ~IsStrictPrefix(Folded(UpTo(s, n)), Folded(UpTo(t, n)))
                                  => value = Order(Folded(UpTo(s, n)), Folded(UpTo(t, n)))
      [] called = "strstr"   -> IsFirst(value, Occurs(s, t))
      [] called = "stristr"  -> IsFirst(value, Occurs(Folded(s), Folded(t)))
      [] called = "strchr"   -> IsFirst(value, {i \in DOMAIN s : s[i] = t[1]})
      [] called = "strrchr"  -> IsLast(value, {i \in DOMAIN s : s[i] = t[1]})
      [] called = "strlcat"  -> value[2] = Len(s) + Len(t)
                                /\ value[1] = IF Len(s) = n THEN s ELSE UpTo(s \o t, n - 1)
      [] called = "strrev"   -> value = Reverse(s)
      [] called = "strlwr"   -> value = Folded(s)
      [] called = "strupr"   -> Folded(value) = Folded(s) /\ \A i \in DOMAIN value : value[i] \notin 97..122
      [] called = "memcmp"   -> value = Order(SubSeq(Append(s, Nul), 1, n), SubSeq(Append(t, Nul), 1, n))
      [] called = "find"     -> s # <<>> => IsFirst(value, Behind(Occurs(s, t), n))
      [] called = "find, ignoring case" -> s # <<>> => IsFirst(value, Behind(Occurs(Folded(s), Folded(t)), n))
      [] called = "find char" -> IsFirst(value, Behind({i \in DOMAIN s : s[i] = t[1]}, n))
      [] called = "count"    -> value = MostApart(Behind(Occurs(s, t), n), t)
      [] called = "equals"   -> value = (s = t)
      [] called = "equals, ignoring case" -> value = (Folded(s) = Folded(t))
      [] called = "starts_with" -> value = IsPrefix(t, s)
      [] called = "ends_with"   -> value = IsSuffix(t, s)
      [] OTHER               -> TRUE
=============================================================================
