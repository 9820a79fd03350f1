-------------------------------- MODULE MCCodec --------------------------------
(***************************************************************************)
(* Codec for TLC.                                                          *)
(***************************************************************************)
EXTENDS Codec

(* Texts of lengths around the room in a PING (20 bytes) and a NOTIFY (40),*)
(* with every bit set somewhere; one has a null in it; the longest fills a *)
(* REGISTER or a PONG.                                                     *)
Text(len) == [i \in 1..len |-> 1 + ((37 * i) % 255)]

MCTexts == {Text(len) : len \in {0, 1, 4, 17, 18, 19, 27, 33, 34, 35, 252, 253}}
           \cup {<<65, 0, 66>>}

MCPorts == {1, 255, 256, 12345, 20000, 65535}

(* Empty, shorter and longer than the length byte says, of other types.    *)
MCDatagrams ==
  {<<>>, <<0>>, <<2>>, <<4>>, <<2, 0>>, <<0, 1>>, <<0, 255>>, <<0, 2, 1>>,
   <<2, 255, 65>>, <<2, 3, 65, 66>>, <<1, 4, 65, 66>>, <<200, 9, 1>>,
   [i \in 1..255 |-> 255], [i \in 1..255 |-> IF i = 1 THEN 2 ELSE 255]}
=============================================================================
