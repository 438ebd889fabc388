------------------------------ MODULE Checksum ------------------------------
(***************************************************************************)
(* The Internet checksum (program1/src/checksum.c, and the same function   *)
(* in the error injection library), and the byte order of the machine it   *)
(* runs on.  A byte is a number 0 .. 255; "addr" is a sequence of bytes.   *)
(* Lengths are those of packets, far below the 2^16 words at which the     *)
(* 32 bit accumulator would overflow.                                      *)
(***************************************************************************)
EXTENDS Integers, Sequences, FiniteSetsExt

Orders == {"little", "big"}

\* Two bytes of memory read as an unsigned short.
Word(order, first, second) ==
    IF order = "little" THEN first + 256 * second ELSE 256 * first + second

Swapped(n) == (256 * (n % 256)) + (n \div 256)

\* htons and ntohs alike.
ntohs(order, n) == IF order = "little" THEN Swapped(n) ELSE n

\* The bytes of a number in network byte order, high byte first.
NetworkShort(n) == <<(n \div 256) % 256, n % 256>>
NetworkLong(n) ==
    <<(n \div 16777216) % 256, (n \div 65536) % 256, (n \div 256) % 256, n % 256>>

\* The number in two bytes in network byte order.
Short(bytes, at) == 256 * bytes[at] + bytes[at + 1]

\* The sum after each round of the loop over the words.
SumAfter(order, addr) ==
    LET sum[k \in 0 .. Len(addr) \div 2] ==
            IF k = 0 THEN 0 ELSE sum[k - 1] + Word(order, addr[2 * k - 1], addr[2 * k])
    IN  sum

\* The words, and the byte that is left of an odd length: it goes to the lower
\* address of a word that is 0 otherwise.
SumOfWords(order, addr) ==
    LET n == Len(addr) IN
    SumAfter(order, addr)[n \div 2] + (IF n % 2 = 1 THEN Word(order, addr[n], 0) ELSE 0)

\* Fault: the carry of adding the carries is lost.
in_cksum_onceFolded(order, addr) ==
    LET sum == SumOfWords(order, addr)
    IN  65535 - (((sum \div 65536) + (sum % 65536)) % 65536)

in_cksum(order, addr) ==
    LET sum == SumOfWords(order, addr)
        folded == (sum \div 65536) + (sum % 65536)
    IN  65535 - ((folded + (folded \div 65536)) % 65536)

-----------------------------------------------------------------------------
(* The checksum as RFC 1071 defines it: the one's complement of the one's   *)
(* complement sum of the packet's words.                                   *)

\* One's complement addition: a carry out of the word is added at its low end.
OnesSum(m, n) == IF m + n > 65535 THEN m + n - 65535 ELSE m + n

\* A packet of odd length is summed as if a byte 0 followed it.
Padded(addr) == IF Len(addr) % 2 = 1 THEN Append(addr, 0) ELSE addr

OnesSumAfter(order, words) ==
    LET sum[k \in 0 .. Len(words) \div 2] ==
            IF k = 0 THEN 0
            ELSE OnesSum(sum[k - 1], Word(order, words[2 * k - 1], words[2 * k]))
    IN  sum

InternetChecksum(order, addr) ==
    65535 - OnesSumAfter(order, Padded(addr))[Len(Padded(addr)) \div 2]
=============================================================================
