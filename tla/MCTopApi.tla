----------------------------- MODULE MCTopApi -----------------------------
(* Constants of TopApi for TLC. *)
EXTENDS TopApi

CONSTANTS shoes, phone

ListsOfTwo == {<<>>, <<shoes>>, <<shoes, phone>>, <<phone, shoes>>}

(* zero and minus one: the whole list; two: its whole length. *)
AnyLimit == {NotANumber, NoLimit, -1, 0, 1, 2}
=============================================================================
