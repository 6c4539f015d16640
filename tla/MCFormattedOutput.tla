-------------------------- MODULE MCFormattedOutput --------------------------
(* Eight-bit numbers between texts of up to two symbols, and buffers that   *)
(* end before, inside and after the number.                                 *)
EXTENDS FormattedOutput

MCText == {<<>>, <<"a">>, <<"a", "b">>}
MCLimit == {1, 2, 4, 10}
=============================================================================
