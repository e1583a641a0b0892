--------------------------- MODULE MCOutputCapture ---------------------------
(* OutputCapture with characters of up to two bytes: texts whose pages end *)
(* inside a character, bytes that are no text, and streams that outgrow    *)
(* the limit, also inside a character.                                     *)
EXTENDS OutputCapture

Output(out, err) == [s \in Streams |-> IF s = "stdout" THEN out ELSE err]

MCContents ==
    {Output(<<1, 2, 0>>, << >>),
     Output(<<2, 0, 1>>, <<1, 2, 0>>),
     Output(<<1>>, <<1, 1, 2, 0>>),
     Output(<<0, 1, 2>>, <<2, 2, 0>>)}

=============================================================================
