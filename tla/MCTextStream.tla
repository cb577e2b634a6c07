---------------------------- MODULE MCTextStream -----------------------------
(***************************************************************************)
(* A vocabulary of a few pieces with three merges, byte tokens for most    *)
(* bytes and none for some, added tokens in the vocabulary, a special one  *)
(* and one past it, byte tokens for whole characters and for broken ones,  *)
(* and stop strings that overlap.                                          *)
(***************************************************************************)
EXTENDS TextStream

A == <<"a">>
B == <<"b">>
Space == <<Mark>>
Tag   == <<"<", "a", ">">>
Open  == <<"<", "a">>
Role  == <<"[", "b">>
Past  == <<"[", "a">>
MCPieces  == {A, B, <<"a", "b">>, Space, <<Mark, "a">>, <<Mark, "a", "b">>,
              <<"<">>, <<">">>}
MCSymbols == {Two, Three, Cont, Bad, Mark, Replacement, " ", "a", "b", "<", ">", "["}
MCMerges  == <<<<A, B>>, <<Space, A>>, <<Space, <<"a", "b">>>>>>
MCByteIds == MCSymbols \ {Two, "["}
MCAdded   == {Tag, Open, Role, Past}
MCAddedToken ==
  [a \in MCAdded |->
     CASE a \in {Tag, Open} -> Piece(a) [] a = Role -> Control(a) [] a = Past -> Unknown]
MCUnk == Control(Role)

MCTokens ==
  {Byte(Two), Byte(Three), Byte(Cont), Byte(Bad), Byte("a"),
   Piece(<<"a", "b">>), Piece(<<Mark, "a">>), Control(Role), Unknown}
Letters  == {"a", "b", " "}
Euro     == <<Three, Cont, Cont>>
(* Whole texts, and some that are not Echoable: a byte and a bracket with   *)
(* no token, an id past the vocabulary, a special token, broken bytes.      *)
MCTexts  == UNION {[1 .. n -> Letters] : n \in 0 .. 5}
            \union {A \o Euro \o B, Euro \o Euro, <<"<">> \o Tag \o A, Tag \o Euro \o <<"<", "b">>}
            \union {A \o <<Two, Cont>> \o B, <<"[", ">">>, B \o Past \o Euro, Role \o A,
                    A \o <<Three, Cont>> \o B}
MCStopLists == {<<>>, <<<<>>, <<"a", "b">>>>, <<<<"b", "a">>, <<"a", "b", " ">>>>,
                <<<<"a", "a", "b">>, B>>, <<<<Replacement, "a">>>>}
=============================================================================
