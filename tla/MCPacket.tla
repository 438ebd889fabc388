------------------------------ MODULE MCPacket ------------------------------
(* Values of Packet's constants for TLC. *)
EXTENDS Packet

\* Names of even and odd length, blocks that rcopy has room for and one it has
\* not, a window that ends before the longer file does, and one whose high byte is
\* not 0.
MCRequests ==
    {r \in [name : {<<65>>, <<255, 255>>}, window : {2, 258, 16777216 + 2}, size : {1, 2, 4}] :
        r.size = 1 => r.window = 2}

\* The sum of the second file's first block carries once more when its carries are
\* added.
MCFiles == {<<255, 0>>, <<255, 255, 255, 240, 2>>}

\* The start of another request, and the number of a later block.
MCOthers == {<<66, 0, 0, 0>>, <<0, 0, 0, 7>>}
=============================================================================
