------------------------- MODULE MCTransferRequest -------------------------
(***************************************************************************)
(* A small instance of TransferRequest for TLC, whose integers have 32     *)
(* bits: amounts of up to nine digits, the buffers as tight as for twenty. *)
(* Lengths are the code's.                                                 *)
(***************************************************************************)
EXTENDS TransferRequest

MCPow == [k \in 0..MaxDigits |-> 10^k]

\* One digit, some, as many as there are decimals, and one more.
MCValues == {0, 98, 12345678, 100000000, 999999999}

Word(n) == <<0, 0, 0, 0, n \div 16777216, (n \div 65536) % 256, (n \div 256) % 256, n % 256>>

Ramp(first, len) == [k \in 1..len |-> (first + 3 * k) % 256]

\* Two receivers with the first 34 bytes of one another but for the hash
\* type, two that differ in their tail, and an odd curve with an even type.
Receivers == { <<0, 3>> \o Ramp(9, 32) \o Ramp(1, 32), <<0, 3>> \o Ramp(9, 32) \o Ramp(2, 32),
               <<1, 2>> \o Ramp(9, 32) }

Envelope(tag) == <<4>> \o Ramp(20, 64) \o Ramp(tag, 16) \o Ramp(5, 32)
MCGenuine     == {Envelope(30)}

Request(receiver, n, tag, len) ==
  [kind |-> "sign", service |-> n % 3, receiver |-> receiver, amount |-> Word(n),
   envelope |-> Envelope(tag), wallet |-> Ramp(40, len)]

MCRequests ==
  {Request(<<0, 0>> \o Ramp(9, 32), n, 30, 99) : n \in MCValues}
  \cup {Request(r, 98, 30, 57) : r \in Receivers}
  \cup {Request(<<0, 1>> \o Ramp(9, 64), 98, 31, 67)}
  \cup {[Request(<<>>, 0, tag, 141) EXCEPT !.kind = "address"] : tag \in {30, 31}}

MCSenders == {<<c, 0>> \o Ramp(c, 32) : c \in {1, 2}}
=============================================================================
