----------------------------- MODULE ByteQueues ------------------------------
(***************************************************************************)
(* What a cache promises its connection: bytes come out in the order in    *)
(* which they went in.                                                     *)
(***************************************************************************)
EXTENDS Naturals, Sequences

CONSTANTS
  Cache,     \* the caches
  Data       \* what is appended: sequences of bytes

VARIABLE
  content    \* content[c]: the bytes in c, the oldest first

Init == content = [c \in Cache |-> <<>>]

Add(c, d) == content' = [content EXCEPT ![c] = @ \o d]
Skip(c, n) == content' = [content EXCEPT ![c] = SubSeq(@, n + 1, Len(@))]

Next == \E c \in Cache :
  \/ \E d \in Data : Add(c, d)
  \/ \E n \in 1 .. Len(content[c]) : Skip(c, n)

Spec == Init /\ [][Next]_content

=============================================================================
