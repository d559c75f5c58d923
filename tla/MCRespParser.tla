---------------------------- MODULE MCRespParser ----------------------------
(* Inputs for pages of 19 bytes: they put every boundary of a page where   *)
(* the code has a case for it.                                             *)
EXTENDS RespParser

Short     == <<<<1>>, <<1, 2>>, <<0>>>>  \* several commands in a page
FullPage  == <<<<9, 1>>, <<1>>>>         \* the page ends after an argument
LoneMark  == <<<<8, 10>>, <<1>>>>        \* ... after the dollar
CutLength == <<<<7, 10>>, <<1>>>>        \* ... inside a length
CutBadly  == <<<<7, 4>>, <<1>>>>         \* ... after a whole length
Large     == <<<<20>>, <<1>>>>           \* an argument that needs a bigbuf
NoArgs    == <<<<1>>, <<>>, <<1>>>>      \* an empty array

MCInputs == {Short, FullPage, LoneMark, CutLength, CutBadly, Large, NoArgs}
=============================================================================
