------------------------------- MODULE Resolver -------------------------------
(***************************************************************************)
(* res_query of src/helpers/resolver.c: through dnsapi.dll where there is  *)
(* one, and otherwise, or when that fails, with a UDP query of its own.    *)
(* Messages are sequences of bytes, names sequences of labels and a label  *)
(* a sequence of characters.                                               *)
(***************************************************************************)
EXTENDS Imports
LOCAL INSTANCE SequencesExt

DotChar == 46
NAME_END == 0                   \* the terminator of a string and of a name

\* The name as a C string: the labels with a dot between them.
Dotted(labels) ==
    FoldLeft(LAMBDA s, x : IF s = <<>> THEN x ELSE s \o <<DotChar>> \o x, <<>>, labels)

(* dn_comp: every label after its length, then 0; <<-1>> when a label is   *)
(* too long or there is no space.  MaxLabel is 63.                         *)
dn_comp(labels, space, MaxLabel) ==
    LET put(out, x) ==
            IF out = <<-1>> \/ Len(x) > MaxLabel \/ space - Len(out) < Len(x) + 1 THEN <<-1>>
            ELSE out \o <<Len(x)>> \o x
        out == FoldLeft(put, <<>>, labels)
    IN  IF out = <<-1>> \/ space - Len(out) < 1 THEN <<-1>> ELSE Append(out, NAME_END)

(* The loop of res_query_compat that writes the name into the packet from  *)
(* its end: a dot becomes the distance to the dot or end behind it.        *)
StringIze(s) ==
    LET start(i) == CHOOSE j \in i + 1..Len(s) + 1 :
                       /\ j = Len(s) + 1 \/ s[j] = DotChar
                       /\ \A k \in i + 1..j - 1 : s[k] # DotChar
    IN  <<start(0) - 1>> \o [i \in DOMAIN s |-> IF s[i] = DotChar THEN start(i) - i - 1 ELSE s[i]]
                         \o <<NAME_END>>

(* dn_expand: the name at src in msg.  p is where it reads, len what the   *)
(* name takes at src, and rounds are left of the iterations that detect a  *)
(* loop of references, one for every two bytes.  A place in msg counts     *)
(* from 0.  dend is the space for the name, at most 254.                   *)
dn_expand(msg, src, space) ==
    LET end == Len(msg)
        dend == IF space > 254 THEN 254 ELSE space
        bad == [len |-> -1, name |-> <<>>]
        step[k \in 0..(end + 1) \div 2, p \in 0..end, len \in -1..end, dest \in 0..dend] ==
            IF k = 0 THEN bad
            ELSE LET b == msg[p + 1]
                     q == (b % 64) * 256 + msg[IF p + 2 > end THEN end ELSE p + 2]
                     l == IF len < 0 THEN p + 2 - src ELSE len
                     d == IF dest = 0 THEN 0 ELSE dest + 1      \* after the dot
                 IN  IF b >= 64
                     THEN IF p + 1 = end \/ q >= end THEN bad ELSE step[k - 1, q, l, dest]
                     ELSE IF b > 0
                     THEN IF b >= end - (p + 1) \/ b >= dend - d THEN bad
                          ELSE LET rest == step[k - 1, p + 1 + b, len, d + b]
                               IN  IF rest.len = -1 THEN bad
                                   ELSE [rest EXCEPT !.name = <<SubSeq(msg, p + 2, p + 1 + b)>> \o @]
                     ELSE [len |-> IF len < 0 THEN p + 1 - src ELSE len, name |-> <<>>]
    IN  IF src = end \/ space <= 0 THEN bad ELSE step[(end + 1) \div 2, src, -1, 0]

(* The answer res_query_dnsapi makes of the first TXT record: the header,  *)
(* the question, a reference to its name, type, class, time to live, and   *)
(* the text after two lengths.  The result is how far it writes and what   *)
(* it returns.                                                             *)
HeaderSize == 12
Answer(labels, anslen, texts, MaxLabel) ==
    LET q == dn_comp(labels, anslen - HeaderSize, MaxLabel)
        room(at, n) == at + n <= anslen
        asked == HeaderSize + Len(q) + 4
        after == asked + 12             \* reference, type, class, time to live
        stop(at) == [wrote |-> at, ret |-> -1]
    IN  IF anslen <= HeaderSize THEN stop(0)
        ELSE IF q = <<-1>> THEN stop(HeaderSize)
        ELSE IF ~room(asked, 0) THEN stop(asked - 4)
        ELSE IF texts = <<>> \/ ~room(asked, 2) THEN stop(asked)
        ELSE IF ~room(asked, 12) THEN stop(asked + 2)
        ELSE IF ~room(after, 2 + texts[1] + 1) THEN stop(after)
        ELSE [wrote |-> after + 3 + texts[1], ret |-> after + 3 + texts[1]]
-----------------------------------------------------------------------------
res_query ==
    /\ At("resq")
    /\ LET p == init_resolver(c.arg.dnsapi)
       IN  c' = To(c, IF p["DnsQuery_A"] # "NULL" /\ p["DnsRecordListFree"] # "NULL" THEN "dnsapi" ELSE "getDns")

\* The records are freed on every path but the one where there are none.
res_query_dnsapi ==
    \/ /\ At("dnsapi")
       /\ c' \in IF c.arg.anslen <= HeaderSize THEN {Returns(c, "-1")}
                 ELSE {To(Hold(c, "rrs"), "dnsRecords"), To(c, "getDns")}
    \/ /\ At("dnsRecords")
       /\ \E texts \in {<<>>, <<2>>} :
             c' = Returns(Free(c, {"rrs"}),
                          IF Answer(c.arg.labels, c.arg.anslen, texts, 63).ret = -1 THEN "-1" ELSE "len")

(* The address of the server: GetNetworkParams twice, once more in a block *)
(* of the size it asked for, or the registry where it is not supported.    *)
(* There may be no memory for the block, and none for the larger one,      *)
(* which loses the first: FixedInfo is NULL then, and the second query can *)
(* only fail.                                                              *)
get_dns ==
    \/ /\ At("getDns")
       /\ c' \in {To(Hold(c, "FixedInfo"), "getDns2"), To(Hold(c, "firstFixedInfo"), "getDns2"), To(c, "getDns2"),
                   To(c, "getDnsReg"), Returns(c, "-1")}
    \/ /\ At("getDns2")
       /\ c' \in {Returns(Free(c, {"FixedInfo"}), "-1")}
                 \cup {To(Hold(Free(r, {"FixedInfo"}), "nameserver"), "send") : r \in {x \in {c} : "FixedInfo" \in x.held}}
get_dns_fromreg ==
    \/ At("getDnsReg") /\ c' \in {Returns(c, "-1"), To(Hold(c, "hKey"), "getDnsKeys")}
    \/ /\ At("getDnsKeys")
       /\ LET r == Free(c, {"hKey"}) IN c' \in {Returns(r, "-1"), To(Hold(r, "nameserver"), "send")}

(* The query is sent, if there is memory for it; recvfrom has no time-out, *)
(* so its answer is a step of its own that need not come.  No path closes  *)
(* the socket.                                                             *)
res_query_compat ==
    /\ At("send")
    /\ LET r == Free(c, {"nameserver"})
       IN  c' \in {Returns(r, "-1"), Returns(Hold(r, "sockfd"), "-1"), To(Hold(r, "sockfd"), "recv"),
                     To(Hold(r, "sockfd"), "crashed")}
(* What recvfrom may write is NS_PACKETSZ bytes, whatever anslen is.       *)
NS_PACKETSZ == 512
recvfrom ==
    /\ At("recv")
    /\ \/ c' = Returns(c, "-1")
       \/ \E r \in [size : {HeaderSize - 1, NS_PACKETSZ}, id : BOOLEAN, qr : BOOLEAN, rcode : {0, 3}, ancount : 0..1] :
             LET good == r.size >= HeaderSize /\ r.id /\ r.qr /\ r.rcode = 0 /\ r.ancount >= 1
             IN  c' = Returns(IF r.size > c.arg.anslen THEN Does(c, "overrun") ELSE c, IF good THEN "len" ELSE "-1")
==============================================================================
