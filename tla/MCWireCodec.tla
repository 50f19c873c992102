----------------------------- MODULE MCWireCodec -----------------------------
(* An instance of WireCodec for TLC: bytes of eight bits, numbers of 26 bits *)
(* in at most four bytes (in the code 64 bits in at most ten).               *)
EXTENDS WireCodec

MCLimit == 2 ^ 26

(* At both ends of each length, and the code's revision. *)
MCNumbers == {0, 1, 127, 128, 16383, 16384, 54405, 2097151, 2097152, 2 ^ 26 - 1}

(* Empty, with bytes like continuations, with a length of two bytes. *)
MCStrings == {<<>>, <<128>>, <<0, 255>>, [i \in 1..130 |-> 200]}

Number(v) == [kind |-> "number", value |-> v]

Text(length) == [kind |-> "string", value |-> [i \in 1..length |-> 65]]

(* "ClickHouse server", "Israel" and "Server version 22.9" by their lengths. *)
MCHello ==
  <<Number(0), Text(17), Number(2), Number(2), Number(54405), Text(6), Text(19), Number(1)>>

(* A client's hello, a query and a ping. *)
MCClientPackets ==
  {<<Number(0), Text(17), Number(2), Number(1), Number(54405), Text(7), Text(7), Text(0)>>,
   <<Number(1), Text(36), Number(2), Number(0), Text(8)>>,
   <<Number(4)>>}
===============================================================================
