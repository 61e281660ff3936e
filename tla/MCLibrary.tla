----------------------------- MODULE MCLibrary -----------------------------
(* Model-checking instance of the library.  Print's buffers have 4 and 7      *)
(* bytes, an int has 4 bits and a long long 7: a string fits one, the other  *)
(* or none, and numbers take up to three digits or a sign and two.           *)
EXTENDS Library, TLC

Strings == {<<>>, <<"b">>, <<"b", "b", "b", "b">>}
MCItems ==
    [conv : {"copy", "c"}, arg : {"a", "\n"}] \cup {[conv |-> "c", arg |-> "nul"]}
      \cup [conv : {"unknown"}, arg : {"a"}]
      \cup [conv : {"s"}, arg : Strings]
      \cup [conv : {"d"}, arg : {7, 8, 15}] \cup [conv : {"u", "x"}, arg : {0, 15}]
      \cup [conv : {"ll"}, arg : {63, 64, 127}] \cup [conv : {"llu", "llx", "p"}, arg : {0, 127}]

(* Records are made by an instance that has no font of its own.               *)
Made == INSTANCE Font WITH Sayings <- {}, Characters <- <<>>, Shapes <- <<>>, s <- place

(* A font of three glyphs, one of them twice as wide, one with its lower part *)
(* first; code points of one to three bytes have one, those of four none.     *)
Skip(j) == Made!Skip(j)
Glyph(advance, fragments) == Made!Glyph(advance, fragments)
Fragment(y, k, rows, bits) == Made!Fragment(y, k, rows, bits)
MCCharacters ==
    <<Skip(64), Glyph(2, <<Fragment(0, 2, 1, {1}), Fragment(2, 2, 3, {0, 3, 5})>>),
      Skip(127), Glyph(4, <<Fragment(1, 4, 2, {0, 2, 5, 7})>>),
      Skip(8126), Glyph(2, <<Fragment(3, 2, 1, {0, 1}), Fragment(0, 2, 2, {0, 2, 3})>>),
      Skip(65535)>>
MCShapes  == 65 :> 2 @@ 194 :> 4 @@ 8322 :> 6
MCSayings == UNION {[1..k -> {7, 65, 194, 8322, 131202}] : k \in 0..3}

(* Which block operator new finds and which letter is which make no difference. *)
LibrarySymmetry == Permutations(Blocks) \cup Permutations(Letters)
=============================================================================
