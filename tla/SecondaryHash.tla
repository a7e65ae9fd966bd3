--------------------------- MODULE SecondaryHash ----------------------------
(***************************************************************************)
(* The two functions called secondary_hash of the replicated store: that   *)
(* of the map (Cuckoo.hpp), whose argument is an int, so that >> copies    *)
(* the sign, and that of the remote client (Remote.cpp), whose argument is *)
(* unsigned.  A word of 32 bits is a pair of halves of 16 bits, the upper  *)
(* one first; sums wrap around, those of ints too.                         *)
(***************************************************************************)
EXTENDS Naturals, Bitwise

Half == 2 ^ 16

x ++ y ==
    LET lo == x[2] + y[2] IN <<(x[1] + y[1] + lo \div Half) % Half, lo % Half>>

x \oplus y == <<x[1] ^^ y[1], x[2] ^^ y[2]>>

\* x << n, for n < 16.
ShiftLeft(x, n) ==
    LET lo == x[2] * 2 ^ n IN <<(x[1] * 2 ^ n + lo \div Half) % Half, lo % Half>>

\* x >> n, for n >= 16: of an int if signed, otherwise of an unsigned.
ShiftRight(x, n, signed) ==
    IF signed /\ x[1] >= Half \div 2
    THEN <<Half - 1, (Half - 2 ^ (32 - n)) + x[1] \div 2 ^ (n - 16)>>
    ELSE <<0, x[1] \div 2 ^ (n - 16)>>

\* The six lines both functions consist of.
Mix(key, signed) ==
    LET a0 == <<key \div Half, key % Half>>
        a1 == (a0 ++ <<\h7ed5, \h5d16>>) ++ ShiftLeft(a0, 12)
        a2 == (a1 \oplus <<\hc761, \hc23c>>) \oplus ShiftRight(a1, 19, signed)
        a3 == (a2 ++ <<\h1656, \h67b1>>) ++ ShiftLeft(a2, 5)
        a4 == (a3 ++ <<\hd3a2, \h646c>>) \oplus ShiftLeft(a3, 9)
        a5 == (a4 ++ <<\hfd70, \h46c5>>) ++ ShiftLeft(a4, 3)
    IN  (a5 \oplus <<\hb55a, \h4f09>>) \oplus ShiftRight(a5, 16, signed)

Modulo(x, n) == ((x[1] % n) * (Half % n) + x[2]) % n

\* The second bucket of a key among n, for the map and for the remote client.
secondary_hash(key, n) == Modulo(Mix(key, TRUE), n)
remote_secondary_hash(key, n) == Modulo(Mix(key, FALSE), n)
=============================================================================
