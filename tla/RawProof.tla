------------------------------ MODULE RawProof ------------------------------
(***************************************************************************)
(* Proofs about Raw, for bytes of any size that gives a word the length of *)
(* a frame.                                                                *)
(***************************************************************************)
EXTENDS Raw, SequenceTheorems, TLAPS

-----------------------------------------------------------------------------
(* Arithmetic of words.                                                    *)

\* A number is divided into one quotient and one remainder only.
LEMMA DivMod ==
    ASSUME NEW w \in Nat, w > 0, NEW q \in Int, NEW r \in 0..w-1
    PROVE  (q*w + r) \div w = q /\ (q*w + r) % w = r
<1> DEFINE n == q*w + r
           p == n \div w
           s == n % w
<1>1. n \in Int
    OBVIOUS
<1>2. p \in Int /\ s \in 0..w-1 /\ n = w*p + s
    BY <1>1
<1>3. w*(q-p) = s - r /\ s - r < w /\ s - r > -w
    BY <1>2
<1>4. q = p
    <2>1. CASE q - p >= 1
        <3>1. w*(q-p) >= w
            BY <2>1, <1>2
        <3>2. QED BY <3>1, <1>3
    <2>2. CASE q - p <= -1
        <3>1. w*(q-p) <= -w
            BY <2>2, <1>2
        <3>2. QED BY <3>1, <1>3
    <2>3. QED
        BY <2>1, <2>2, <1>2
<1>5. QED
    BY <1>2, <1>3, <1>4

LEMMA WordSize == BYTE \in Nat /\ BYTE > 1 /\ WORD \in Nat /\ WORD >= 42
<1>1. BYTE \in Nat /\ WORD \in Nat /\ WORD >= 42
    BY RawAssumption DEF WORD, ETHHDR, IPHDR, UDPHDR
<1>2. BYTE # 0 /\ BYTE # 1
    BY <1>1 DEF WORD
<1>3. QED
    BY <1>1, <1>2

\* The sum folded twice, with the carry of the first folding or without.
LEMMA FoldedValue ==
    ASSUME NEW q \in 0..10, NEW r \in Word
    PROVE  Folded(q*WORD + r) = IF q + r < WORD THEN q + r ELSE q + r - WORD + 1
<1> USE WordSize
<1> DEFINE s == q*WORD + r
           once == (s \div WORD) + (s % WORD)
<1>1. r \in 0..WORD-1 /\ q \in Int /\ WORD > 0
    BY DEF Word
<1>2. once = q + r
    BY <1>1, DivMod
<1>3. CASE q + r < WORD
    <2>1. q + r \in 0..WORD-1
        BY <1>1, <1>3
    <2>2. (0*WORD + (q + r)) \div WORD = 0 /\ (0*WORD + (q + r)) % WORD = q + r
        BY <1>1, <2>1, DivMod
    <2>3. 0*WORD + (q + r) = q + r /\ q + r + 0 = q + r
        BY <1>1
    <2>4. (once + (once \div WORD)) % WORD = q + r
        BY <1>2, <2>2, <2>3
    <2>5. QED
        BY <2>4, <1>3 DEF Folded
<1>4. CASE q + r >= WORD
    <2> DEFINE t == q + r - WORD
    <2>1. t \in 0..WORD-1 /\ t + 1 \in 0..WORD-1
        BY <1>1, <1>4
    <2>2. (1*WORD + t) \div WORD = 1
        BY <1>1, <2>1, DivMod
    <2>3. (1*WORD + (t + 1)) % WORD = t + 1
        BY <1>1, <2>1, DivMod
    <2>4. 1*WORD + t = q + r /\ 1*WORD + (t + 1) = q + r + 1
        BY <1>1
    <2>5. (once + (once \div WORD)) % WORD = t + 1
        BY <1>2, <2>2, <2>3, <2>4
    <2>6. QED
        BY <2>5, <1>1, <1>4 DEF Folded
<1>5. QED
    BY <1>1, <1>3, <1>4

\* Nine words and the complement of their folded sum fold to all ones.
LEMMA Complement ==
    ASSUME NEW s \in 0..9*(WORD-1)
    PROVE  /\ Folded(s) \in Word
           /\ Folded(s + (WORD - 1 - Folded(s))) = WORD - 1
<1> USE WordSize
<1>1. PICK q \in 0..9, r \in Word : s = q*WORD + r
    <2> DEFINE p == s \div WORD
    <2>1. p \in Int /\ s % WORD \in Word /\ s = WORD*p + (s % WORD)
        BY DEF Word
    <2>2. p < 10
        <3>1. CASE p >= 10
            <4>1. WORD*p >= WORD*10
                BY <2>1, <3>1
            <4>2. QED
                BY <4>1, <2>1 DEF Word
        <3>2. QED
            BY <3>1, <2>1
    <2>3. p >= 0
        <3>1. CASE p <= -1
            <4>1. WORD*p <= -WORD
                BY <2>1, <3>1
            <4>2. QED
                BY <4>1, <2>1 DEF Word
        <3>2. QED
            BY <3>1, <2>1
    <2>4. p*WORD = WORD*p
        BY <2>1
    <2>5. QED
        BY <2>1, <2>2, <2>3, <2>4
<1>2. r \in 0..WORD-1 /\ q \in 0..10 /\ q*WORD \in Int
    BY <1>1 DEF Word
<1>3. CASE q + r < WORD
    <2>1. Folded(s) = q + r
        BY <1>1, <1>2, <1>3, FoldedValue
    <2>2. s + (WORD - 1 - Folded(s)) = q*WORD + (WORD - 1 - q)
        BY <1>1, <1>2, <2>1
    <2>3. WORD - 1 - q \in Word /\ q + (WORD - 1 - q) = WORD - 1
        BY <1>2 DEF Word
    <2>4. Folded(q*WORD + (WORD - 1 - q)) = WORD - 1
        BY <1>2, <2>3, FoldedValue
    <2>5. QED
        BY <2>1, <2>2, <2>4, <1>2, <1>3 DEF Word
<1>4. CASE q + r >= WORD
    <2>1. Folded(s) = q + r - WORD + 1
        BY <1>1, <1>2, <1>4, FoldedValue
    <2>2. s + (WORD - 1 - Folded(s)) = (q+1)*WORD + (WORD - 2 - q)
        BY <1>1, <1>2, <2>1
    <2>3. WORD - 2 - q \in Word /\ q + 1 \in 0..10 /\ q + 1 + (WORD - 2 - q) = WORD - 1
        BY <1>2 DEF Word
    <2>4. Folded((q+1)*WORD + (WORD - 2 - q)) = WORD - 1
        BY <2>3, FoldedValue
    <2>5. QED
        BY <2>1, <2>2, <2>4, <1>2, <1>4 DEF Word
<1>5. QED
    BY <1>2, <1>3, <1>4

LEMMA ProductGrows ==
    ASSUME NEW b \in Nat, NEW q \in Int, q >= b
    PROVE  b*q >= b*b
OBVIOUS

\* htons undoes itself.
LEMMA HtonsTwice ==
    ASSUME NEW n \in Word
    PROVE  htons(n) \in Word /\ htons(htons(n)) = n
<1> USE WordSize
<1> DEFINE q == n \div BYTE
           r == n % BYTE
<1>1. q \in Int /\ r \in 0..BYTE-1 /\ n = BYTE*q + r
    BY DEF Word
<1> HIDE DEF q, r
<1>2. q \in 0..BYTE-1
    <2>1. CASE q >= BYTE
        <3>1. BYTE*q >= BYTE*BYTE
            BY <1>1, <2>1, ProductGrows
        <3>2. QED
            BY <3>1, <1>1 DEF Word, WORD
    <2>2. CASE q <= -1
        <3>1. BYTE*q <= -BYTE
            BY <1>1, <2>2
        <3>2. QED
            BY <3>1, <1>1 DEF Word
    <2>3. QED
        BY <2>1, <2>2, <1>1
<1>3. \A b \in 0..BYTE-1 : b % BYTE = b
    OBVIOUS
<1>4. htons(n) = r*BYTE + q
    BY <1>1, <1>2, <1>3 DEF htons, q, r
<1>5. (r*BYTE + q) \div BYTE = r /\ (r*BYTE + q) % BYTE = q
    BY <1>1, <1>2, DivMod
<1>6. htons(r*BYTE + q) = BYTE*q + r
    BY <1>1, <1>3, <1>5 DEF htons
<1>7. r*BYTE + q \in Word
    <2>1. r*BYTE <= (BYTE-1)*BYTE /\ r*BYTE >= 0 /\ r*BYTE \in Int
        BY <1>1
    <2>2. (BYTE-1)*BYTE = WORD - BYTE
        BY DEF WORD
    <2>3. QED
        BY <2>1, <2>2, <1>2 DEF Word
<1>8. QED
    BY <1>1, <1>4, <1>6, <1>7

-----------------------------------------------------------------------------
(* Frames.                                                                 *)

\* Nine words, the checksum being zero, add up to no more than this.
LEMMA TotalRange ==
    ASSUME NEW h \in IpHead
    PROVE  /\ Total([h EXCEPT !.check = 0]) \in 0..9*(WORD-1)
           /\ \A c \in Int : Total([h EXCEPT !.check = c]) = Total([h EXCEPT !.check = 0]) + c
<1>1. h.version \in 0..WORD-1 /\ h.tot_len \in 0..WORD-1 /\ h.id \in 0..WORD-1
        /\ h.frag_off \in 0..WORD-1 /\ h.ttl \in 0..WORD-1
    BY DEF IpHead, Word
<1>2. h.saddr[1] \in 0..WORD-1 /\ h.saddr[2] \in 0..WORD-1
        /\ h.daddr[1] \in 0..WORD-1 /\ h.daddr[2] \in 0..WORD-1
    BY DEF IpHead, Word
<1>3. \A c : LET g == [h EXCEPT !.check = c] IN
           /\ g.check = c /\ g.version = h.version /\ g.tot_len = h.tot_len /\ g.id = h.id
           /\ g.frag_off = h.frag_off /\ g.ttl = h.ttl /\ g.saddr = h.saddr /\ g.daddr = h.daddr
    BY DEF IpHead
<1>4. \A c \in Int : Total([h EXCEPT !.check = c]) =
           h.version + h.tot_len + h.id + h.frag_off + h.ttl + c
               + h.saddr[1] + h.saddr[2] + h.daddr[1] + h.daddr[2]
    BY <1>3 DEF Total
<1> DEFINE T(c) == Total([h EXCEPT !.check = c])
           five == h.version + h.tot_len + h.id + h.frag_off + h.ttl
           s1 == h.saddr[1]
           s2 == h.saddr[2]
           d1 == h.daddr[1]
           d2 == h.daddr[2]
<1>5. five \in 0..5*(WORD-1)
    BY <1>1, WordSize
<1>6. s1 \in 0..WORD-1 /\ s2 \in 0..WORD-1 /\ d1 \in 0..WORD-1 /\ d2 \in 0..WORD-1
    BY <1>2
<1>7. \A c \in Int : T(c) = five + c + s1 + s2 + d1 + d2
    BY <1>4
<1> HIDE DEF T, five, s1, s2, d1, d2
<1>8. T(0) = five + 0 + s1 + s2 + d1 + d2
    BY <1>7
<1>9. T(0) \in 0..9*(WORD-1)
    BY <1>5, <1>6, <1>8, WordSize
<1>10. \A c \in Int : T(c) = T(0) + c
    BY <1>5, <1>6, <1>7, <1>8, WordSize
<1>11. QED
    BY <1>9, <1>10 DEF T

LEMMA CheckedVerifies ==
    ASSUME NEW h \in IpHead
    PROVE  /\ Checked(h) \in IpHead
           /\ Checked(h).tot_len = h.tot_len
           /\ Folded(Total(Checked(h))) = WORD - 1
<1> DEFINE zero == [h EXCEPT !.check = 0]
<1>1. cksum(zero) = WORD - 1 - Folded(Total(zero)) /\ Folded(Total(zero)) \in Word
    BY TotalRange, Complement DEF cksum
<1>2. cksum(zero) \in Word /\ cksum(zero) \in Int
    BY <1>1, WordSize DEF Word
<1>3. Total(Checked(h)) = Total(zero) + cksum(zero)
    BY <1>2, TotalRange DEF Checked
<1>4. Folded(Total(Checked(h))) = WORD - 1
    BY <1>1, <1>3, TotalRange, Complement
<1>5. QED
    BY <1>2, <1>4 DEF Checked, IpHead

\* The lengths of a frame that fits are words.
LEMMA LengthIsWord ==
    ASSUME NEW d \in Data, Fits(d)
    PROVE  /\ Len(d) \in Nat
           /\ IPHDR + UDPHDR + Len(d) \in Word /\ UDPHDR + Len(d) \in Word
<1>1. Len(d) \in Nat
    BY RawAssumption
<1>2. QED
    BY <1>1, RawAssumption, WordSize DEF Fits, Word, ETHHDR, IPHDR, UDPHDR

LEMMA SuffixIsSeq ==
    ASSUME NEW S, NEW s \in Seq(S), NEW n \in Nat
    PROVE  SubSeq(s, n + 1, Len(s)) \in Seq(S)
<1>1. \A i \in n + 1..Len(s) : s[i] \in S
    OBVIOUS
<1>2. QED
    BY <1>1, SubSeqProperties

\* The data of a frame is what it was sent for, whatever the buffer held.
LEMMA OverExact ==
    ASSUME NEW d \in Seq(0..BYTE-1), data \in Seq(0..BYTE-1)
    PROVE  Over(d) \in Seq(0..BYTE-1) /\ SubSeq(Over(d), 1, Len(d)) = d
<1> DEFINE rest == SubSeq(data, Len(d) + 1, Len(data))
<1>1. rest \in Seq(0..BYTE-1)
    <2>1. Len(d) \in Nat
        OBVIOUS
    <2>2. QED
        BY <2>1, SuffixIsSeq
<1>2. d \o rest \in Seq(0..BYTE-1) /\ SubSeq(d \o rest, 1, Len(d)) = d
    BY <1>1
<1>3. QED
    BY <1>2 DEF Over

\* Both places of the destination are where the caller chose.
OneDestination == open => h_dest = target /\ sll_addr = target

FrameInv == RawTypeOK /\ OneDestination /\ HeaderVerifies /\ FrameExact

LEMMA FrameInit == RawInit => FrameInv
<1> SUFFICES ASSUME RawInit PROVE FrameInv
    OBVIOUS
<1>1. ZeroHead \in IpHead
    BY WordSize DEF ZeroHead, IpHead, Word
<1>2. RawTypeOK
    <2>1. <<>> \in Seq(0..BYTE-1) /\ 0 \in Word
        BY WordSize DEF Word
    <2>2. QED
        BY <1>1, <2>1 DEF RawInit, RawTypeOK
<1>3. QED
    BY <1>2 DEF RawInit, FrameInv, OneDestination, HeaderVerifies, FrameExact

LEMMA FrameStep == FrameInv /\ [RawNext]_rawvars => FrameInv'
<1> SUFFICES ASSUME FrameInv, [RawNext]_rawvars PROVE FrameInv'
    OBVIOUS
<1> USE DEF FrameInv
<1>1. CASE init_raw_socket
    <2>1. iphead' \in IpHead
        <3>1. PICK a \in Address \cup {Limited} :
                  iphead' = [version |-> VersionWord, tot_len |-> IPHDR + UDPHDR, id |-> 1,
                             frag_off |-> 0, ttl |-> TtlWord, check |-> 0,
                             saddr |-> a, daddr |-> Limited]
            BY <1>1 DEF init_raw_socket
        <3>2. Limited \in Word \X Word /\ a \in Word \X Word
            BY RawAssumption, WordSize DEF Limited, Word
        <3>3. IPHDR + UDPHDR \in Word /\ 1 \in Word /\ 0 \in Word
            BY WordSize DEF IPHDR, UDPHDR, Word
        <3>4. QED
            BY <3>1, <3>2, <3>3, RawAssumption DEF IpHead
    <2>2. RawTypeOK'
        BY <1>1, <2>1, WordSize DEF init_raw_socket, RawTypeOK, UDPHDR, Word
    <2>3. QED
        BY <1>1, <2>2 DEF init_raw_socket, OneDestination, HeaderVerifies, FrameExact
<1>2. ASSUME NEW mac \in Mac, chg_header_raw_socket(mac) PROVE FrameInv'
    <2>1. RawTypeOK'
        BY <1>2 DEF chg_header_raw_socket, Header, RawTypeOK
    <2>2. QED
        BY <1>2, <2>1
        DEF chg_header_raw_socket, Header, OneDestination, HeaderVerifies, FrameExact
<1>3. ASSUME NEW d \in Data, send_raw_socket(d) PROVE FrameInv'
    <2> DEFINE n == Len(d)
               h == [iphead EXCEPT !.tot_len = Length(n)]
    <2>1. Fits(d) /\ d \in Seq(0..BYTE-1)
        BY <1>3, RawAssumption DEF send_raw_socket
    <2>2. /\ Length(n) \in Word /\ htons(Length(n)) = IPHDR + UDPHDR + n
          /\ htons(UDPHDR + n) \in Word /\ htons(htons(UDPHDR + n)) = UDPHDR + n
        BY <2>1, LengthIsWord, HtonsTwice DEF Length
    <2>3. h \in IpHead /\ h.tot_len = Length(n)
        BY <2>2 DEF RawTypeOK, IpHead
    <2>4. /\ iphead' \in IpHead /\ iphead'.tot_len = Length(n)
          /\ Folded(Total(iphead')) = WORD - 1
        <3>1. iphead' = Checked(h)
            BY <1>3 DEF send_raw_socket
        <3>2. QED
            BY <3>1, <2>3, CheckedVerifies
    <2>5. data' \in Seq(0..BYTE-1) /\ SubSeq(data', 1, n) = d
        BY <1>3, <2>1, OverExact DEF send_raw_socket, RawTypeOK
    <2>6. udp_len' = htons(UDPHDR + n)
        BY <1>3 DEF send_raw_socket
    <2>7. RawTypeOK'
        BY <1>3, <2>2, <2>4, <2>5, <2>6 DEF send_raw_socket, RawTypeOK
    <2>8. OneDestination'
        BY <1>3 DEF send_raw_socket, OneDestination
    <2>9. CASE UNCHANGED <<wire, given>>
        BY <2>7, <2>8, <2>9 DEF HeaderVerifies, FrameExact
    <2>10. CASE /\ wire' = [dest |-> h_dest, to |-> sll_addr, ip |-> iphead',
                            len |-> udp_len', payload |-> SubSeq(data', 1, n)]
                /\ given' = d
        <3>1. HeaderVerifies'
            BY <2>4, <2>10 DEF HeaderVerifies
        <3>2. FrameExact'
            BY <2>2, <2>4, <2>5, <2>6, <2>10 DEF FrameExact
        <3>3. QED
            BY <2>7, <2>8, <3>1, <3>2
    <2>11. QED
        BY <1>3, <2>9, <2>10 DEF send_raw_socket
<1>4. CASE UNCHANGED rawvars
    BY <1>4 DEF rawvars, RawTypeOK, OneDestination, HeaderVerifies, FrameExact
<1>5. QED
    BY <1>1, <1>2, <1>3, <1>4 DEF RawNext

LEMMA FrameInvariant == RawSpec => []FrameInv
BY FrameInit, FrameStep, PTL DEF RawSpec

\* Header fields stay words and the destination an address (raw.c 40-77, 97-156).
THEOREM RawTypeCorrect == RawSpec => []RawTypeOK
BY FrameInvariant, PTL DEF FrameInv

\* Two foldings of the carry are enough for every IP header, and the checksum
\* is computed without the last one: each header that goes out verifies
\* (raw.c 51-57, 79-96).
THEOREM HeaderVerifiesHolds == RawSpec => []HeaderVerifies
BY FrameInvariant, PTL DEF FrameInv

\* A frame in a used buffer has its own data and its own lengths (raw.c 45-57).
THEOREM FrameExactHolds == RawSpec => []FrameExact
BY FrameInvariant, PTL DEF FrameInv

\* The socket address and the header never name different destinations when a
\* frame goes out (raw.c 57, 68-77).
THEOREM FrameAddressedHolds == RawSpec => FrameAddressed
<1>1. FrameInv /\ [RawNext]_rawvars
        => [wire' # wire => wire'.dest = target /\ wire'.to = target]_rawvars
    <2> SUFFICES ASSUME FrameInv, RawNext, wire' # wire
                 PROVE  wire'.dest = target /\ wire'.to = target
        BY DEF rawvars
    <2>1. PICK d \in Data : send_raw_socket(d)
        BY DEF RawNext, init_raw_socket, chg_header_raw_socket
    <2>2. wire' = [dest |-> h_dest, to |-> sll_addr, ip |-> iphead', len |-> udp_len',
                   payload |-> SubSeq(data', 1, Len(d))]
        BY <2>1 DEF send_raw_socket
    <2>3. QED
        BY <2>1, <2>2 DEF FrameInv, OneDestination, send_raw_socket
<1>2. QED
    BY <1>1, FrameInvariant, PTL DEF RawSpec, FrameAddressed
=============================================================================
