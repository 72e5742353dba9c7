---------------------------------- MODULE Word32 ----------------------------------
(* C's unsigned int as the pair of its halves, so that no intermediate result leaves *)
(* what TLC can compute with.  The operations are functions, whose arguments TLC     *)
(* evaluates once.                                                                   *)
EXTENDS Integers

Half == 2 ^ 16
Words == (0 .. Half - 1) \X (0 .. Half - 1)

Word(n) == <<n \div Half, n % Half>>        \* of a number TLC can write
ZeroWord == <<0, 0>>

(* Sum, negation and difference, modulo 2^32.                                        *)
Plus[a \in Words] == [b \in Words |->
    <<(a[1] + b[1] + ((a[2] + b[2]) \div Half)) % Half, (a[2] + b[2]) % Half>>]
Negated[a \in Words] == Plus[<<Half - 1 - a[1], Half - 1 - a[2]>>][Word(1)]
Minus[a \in Words] == [b \in Words |-> Plus[a][Negated[b]]]

(* Product with a number below 2^8, modulo 2^32.                                     *)
Times[c \in 0 .. 255] == [a \in Words |->
    <<((c * a[1]) + ((c * a[2]) \div Half)) % Half, (c * a[2]) % Half>>]

(* Shifted right, and left, by k <= 16.                                              *)
ShiftRight[k \in 0 .. 16] == [a \in Words |->
    <<a[1] \div 2 ^ k, ((a[1] % 2 ^ k) * 2 ^ (16 - k)) + (a[2] \div 2 ^ k)>>]
ShiftLeft[k \in 0 .. 16] == [a \in Words |->
    <<((a[1] % 2 ^ (16 - k)) * 2 ^ k) + (a[2] \div 2 ^ (16 - k)),
      (a[2] % 2 ^ (16 - k)) * 2 ^ k>>]

IsNegative(a) == a[1] >= Half \div 2        \* as a signed int
===================================================================================
