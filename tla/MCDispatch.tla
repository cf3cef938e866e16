------------------------------ MODULE MCDispatch ------------------------------
(* AssertBuffers with arguments of different alignments: a double, or two 16-bit   *)
(* values; and with a float2, whose bytes are not a multiple of eight.             *)
EXTENDS AssertBuffers

Of(size, align) == [size |-> size, align |-> align]

MCArguments == {<<Of(8, 8)>>, <<Of(2, 2), Of(2, 2)>>}
MCFloat2 == {<<Of(8, 4)>>}

MCCapacity ==
  {[rows |-> 1, bytes |-> 0], [rows |-> 1, bytes |-> 16], [rows |-> 2, bytes |-> 40]}

=============================================================================
