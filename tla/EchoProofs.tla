----------------------------- MODULE EchoProofs -----------------------------
(***************************************************************************)
(* Proofs about Echo, for any set of clients, any size of a message and    *)
(* any number of them: type correctness, that every client gets its own    *)
(* echo, that a connection loses nothing while it stands, and that at most *)
(* one datagram of a client is under way.                                  *)
(***************************************************************************)
EXTENDS Echo, SequenceTheorems, TLAPS

(* The pieces a+1 .. b of client c. *)
Seg(c, a, b) == [k \in 1..(b - a) |-> <<c, a + k>>]

(* The connection stands and its server runs. *)
Live(c) == transport = "tcp" /\ server # "down" /\ conn[c] # "closed"

(* Where the pieces of client c are: up to g it has them back, up to t     *)
(* they are on their way to it and up to h the server holds them; r+1 .. s *)
(* are on their way to the server, and what is between h and r, or beyond  *)
(* s, is lost.                                                             *)
Cuts(c, g, t, h, r, s) ==
    /\ g <= t /\ t <= h /\ h <= r /\ r <= s
    /\ got[c] = Seg(c, 0, g)
    /\ toClient[c] = Seg(c, g, t)
    /\ held[c] = Seg(c, t, h)
    /\ toServer[c] = Seg(c, r, s)
    /\ Live(c) => r = h /\ s = sent[c] * Parts
    /\ transport = "udp" =>
        IF pc[c] = "receive"
        THEN /\ g + Parts = sent[c] * Parts
             /\ {t, h, r, s} \subseteq {g, sent[c] * Parts}
        ELSE g = sent[c] * Parts

Stream(c) == \E g, t, h, r, s \in 0..(sent[c] * Parts) : Cuts(c, g, t, h, r, s)

(* The parts of the state without the pieces. *)
FrameOK ==
    /\ transport \in {"udp", "tcp"}
    /\ server \in {"up", "finishing", "down"}
    /\ conn \in [Clients -> {"none", "open", "closed"}]
    /\ pc \in [Clients -> {"start", "prompt", "receive", "ended"}]
    /\ sent \in [Clients -> 0..MaxMessages]
    /\ DOMAIN toServer = Clients /\ DOMAIN held = Clients
    /\ DOMAIN toClient = Clients /\ DOMAIN got = Clients

IInv == FrameOK /\ \A c \in Clients : Stream(c)

-----------------------------------------------------------------------------
(* Segments.                                                               *)

LEMMA FunctionIsSeq ==
    ASSUME NEW S, NEW n \in Nat, NEW f \in [1..n -> S]
    PROVE  f \in Seq(S) /\ Len(f) = n
  OBVIOUS

LEMMA SegIsSeq ==
    ASSUME NEW C, NEW T, NEW c \in C, NEW a \in Nat, NEW b \in Nat, a <= b,
           (a + 1)..b \subseteq T
    PROVE  /\ Seg(c, a, b) \in Seq(C \X T)
           /\ Len(Seg(c, a, b)) = b - a
           /\ \A i \in 1..(b - a) : Seg(c, a, b)[i] = <<c, a + i>>
  <1>1. b - a \in Nat
    OBVIOUS
  <1>2. \A i \in 1..(b - a) : Seg(c, a, b)[i] = <<c, a + i>>
    BY DEF Seg
  <1>3. \A i \in 1..(b - a) : a + i \in T
    <2>1. \A i \in 1..(b - a) : a + i \in (a + 1)..b
      OBVIOUS
    <2>2. QED
      BY <2>1
  <1>4. Seg(c, a, b) \in [1..(b - a) -> C \X T]
    BY <1>2, <1>3 DEF Seg
  <1>5. QED
    BY <1>1, <1>2, <1>4, FunctionIsSeq

LEMMA SegOfClient ==
    ASSUME NEW c, NEW a \in Nat, NEW b \in Nat, a <= b
    PROVE  /\ Seg(c, a, b) \in Seq({c} \X Nat)
           /\ Len(Seg(c, a, b)) = b - a
           /\ \A i \in 1..(b - a) : Seg(c, a, b)[i] = <<c, a + i>>
  <1> DEFINE C == {c}
  <1>1. (a + 1)..b \subseteq Nat /\ c \in C
    OBVIOUS
  <1> HIDE DEF C
  <1>2. Seg(c, a, b) \in Seq(C \X Nat)
    BY <1>1, SegIsSeq
  <1>3. Len(Seg(c, a, b)) = b - a
    <2>1. DOMAIN Seg(c, a, b) = 1..(b - a) /\ b - a \in Nat
      BY DEF Seg
    <2>2. DOMAIN Seg(c, a, b) = 1..Len(Seg(c, a, b)) /\ Len(Seg(c, a, b)) \in Nat
      BY <1>2, LenProperties
    <2>3. QED
      BY <2>1, <2>2
  <1>4. \A i \in 1..(b - a) : Seg(c, a, b)[i] = <<c, a + i>>
    BY DEF Seg
  <1>5. QED
    BY <1>2, <1>3, <1>4 DEF C

LEMMA SegConcat ==
    ASSUME NEW c, NEW a \in Nat, NEW b \in Nat, NEW d \in Nat, a <= b, b <= d
    PROVE  Seg(c, a, b) \o Seg(c, b, d) = Seg(c, a, d)
  <1> DEFINE S == {c} \X Nat
  <1>1. /\ Seg(c, a, b) \in Seq(S) /\ Len(Seg(c, a, b)) = b - a
        /\ \A i \in 1..(b - a) : Seg(c, a, b)[i] = <<c, a + i>>
    BY SegOfClient
  <1>2. /\ Seg(c, b, d) \in Seq(S) /\ Len(Seg(c, b, d)) = d - b
        /\ \A i \in 1..(d - b) : Seg(c, b, d)[i] = <<c, b + i>>
    BY SegOfClient
  <1>3. a <= d /\ b - a + (d - b) = d - a
    OBVIOUS
  <1>4. /\ Seg(c, a, d) \in Seq(S) /\ Len(Seg(c, a, d)) = d - a
        /\ \A i \in 1..(d - a) : Seg(c, a, d)[i] = <<c, a + i>>
    BY <1>3, SegOfClient
  <1> DEFINE s == Seg(c, a, b) \o Seg(c, b, d)
  <1> HIDE DEF S
  <1>5. /\ s \in Seq(S) /\ Len(s) = Len(Seg(c, a, b)) + Len(Seg(c, b, d))
        /\ \A i \in 1..(Len(Seg(c, a, b)) + Len(Seg(c, b, d))) :
             s[i] = IF i <= Len(Seg(c, a, b)) THEN Seg(c, a, b)[i]
                    ELSE Seg(c, b, d)[i - Len(Seg(c, a, b))]
    BY <1>1, <1>2, ConcatProperties, Zenon
  <1>6. /\ s \in Seq(S) /\ Len(s) = d - a
        /\ \A i \in 1..(d - a) :
             s[i] = IF i <= b - a THEN Seg(c, a, b)[i] ELSE Seg(c, b, d)[i - (b - a)]
    BY <1>3, <1>1, <1>2, <1>5
  <1>7. ASSUME NEW i \in 1..(d - a) PROVE s[i] = Seg(c, a, d)[i]
    <2>1. CASE i <= b - a
      <3>1. i \in 1..(b - a)
        BY <2>1
      <3>2. QED
        BY <1>1, <1>4, <1>6, <2>1, <3>1
    <2>2. CASE ~(i <= b - a)
      <3>1. i - (b - a) \in 1..(d - b) /\ b + (i - (b - a)) = a + i
        BY <2>2
      <3>2. Seg(c, b, d)[i - (b - a)] = <<c, a + i>>
        BY <1>2, <3>1
      <3>3. QED
        BY <1>4, <1>6, <2>2, <3>2
    <2>3. QED
      BY <2>1, <2>2
  <1> HIDE DEF s
  <1>8. s = Seg(c, a, d)
    BY <1>4, <1>6, <1>7, SeqEqual
  <1>9. QED
    BY <1>8 DEF s

(* What a receiving call takes from a segment and what it leaves.  Part    *)
(* keeps the provers from unfolding SubSeq, and two inequalities stand for *)
(* each of the equations p = m - a + 1 and q = n - a, which they would     *)
(* substitute away.                                                        *)
Part(s, p, q) == SubSeq(s, p, q)

LEMMA SegPart ==
    ASSUME NEW c, NEW a \in Nat, NEW b \in Nat, NEW m \in Nat, NEW n \in Nat,
           NEW p \in Int, NEW q \in Int,
           a <= m, m <= n, n <= b,
           p + a <= m + 1, m + 1 <= p + a, q + a <= n, n <= q + a
    PROVE  Part(Seg(c, a, b), p, q) = Seg(c, m, n)
  <1> DEFINE S == {c} \X Nat
             s == SubSeq(Seg(c, a, b), p, q)
  <1>1. a <= b /\ p = m - a + 1 /\ q = n - a
    OBVIOUS
  <1>2. /\ Seg(c, a, b) \in Seq(S) /\ Len(Seg(c, a, b)) = b - a
        /\ \A i \in 1..(b - a) : Seg(c, a, b)[i] = <<c, a + i>>
    BY <1>1, SegOfClient
  <1>3. /\ Seg(c, m, n) \in Seq(S) /\ Len(Seg(c, m, n)) = n - m
        /\ \A i \in 1..(n - m) : Seg(c, m, n)[i] = <<c, m + i>>
    BY SegOfClient
  <1>4. \A i \in p..q : i \in 1..(b - a) /\ <<c, a + i>> \in S
    BY <1>1
  <1> HIDE DEF S
  <1>5. \A i \in p..q : Seg(c, a, b)[i] \in S
    BY <1>2, <1>4
  <1>6. /\ s \in Seq(S)
        /\ Len(s) = IF p <= q THEN q - p + 1 ELSE 0
        /\ \A i \in 1..(q - p + 1) : s[i] = Seg(c, a, b)[p + i - 1]
    BY <1>5, SubSeqProperties
  <1>7. Len(s) = n - m /\ q - p + 1 = n - m
    BY <1>1, <1>6
  <1>8. ASSUME NEW i \in 1..(n - m) PROVE s[i] = Seg(c, m, n)[i]
    <2>1. p + i - 1 \in 1..(b - a) /\ a + (p + i - 1) = m + i
      BY <1>1
    <2>2. s[i] = Seg(c, a, b)[p + i - 1]
      BY <1>6, <1>7
    <2>3. Seg(c, a, b)[p + i - 1] = <<c, m + i>>
      BY <1>2, <2>1
    <2>4. QED
      BY <1>3, <2>2, <2>3
  <1> HIDE DEF s
  <1>9. s = Seg(c, m, n)
    BY <1>3, <1>6, <1>7, <1>8, SeqEqual
  <1>10. QED
    BY <1>9 DEF s, Part

(* A segment is empty exactly when its ends meet. *)
LEMMA SegEmpty ==
    ASSUME NEW c, NEW a \in Nat, NEW b \in Nat, a <= b
    PROVE  Seg(c, a, b) = <<>> <=> a = b
  <1>1. Seg(c, a, b) \in Seq({c} \X Nat) /\ Len(Seg(c, a, b)) = b - a
    BY SegOfClient
  <1>2. QED
    BY <1>1

LEMMA PiecesSeg == ASSUME NEW c, NEW n \in Nat PROVE Pieces(c, n) = Seg(c, 0, n)
  <1>1. 1..(n - 0) = 1..n /\ \A k \in 1..n : 0 + k = k
    OBVIOUS
  <1>2. QED
    BY <1>1 DEF Pieces, Seg

LEMMA SegPrefix ==
    ASSUME NEW c, NEW a \in Nat, NEW b \in Nat, a <= b
    PROVE  IsPrefix(Seg(c, 0, a), Pieces(c, b))
  <1>1. Len(Seg(c, 0, a)) = a - 0 /\ Len(Seg(c, 0, b)) = b - 0
    <2>1. 0 \in Nat /\ 0 <= a /\ 0 <= b
      OBVIOUS
    <2>2. QED
      BY <2>1, SegOfClient
  <1>2. /\ 0 <= a /\ a <= a /\ 0 <= 0 /\ 0 \in Nat
        /\ 1 \in Int /\ a \in Int
    OBVIOUS
  <1>3. Part(Seg(c, 0, a), 1, a) = Seg(c, 0, a)
    BY <1>2, SegPart
  <1>4. Part(Seg(c, 0, b), 1, a) = Seg(c, 0, a)
    BY <1>2, SegPart
  <1>5. QED
    BY <1>1, <1>3, <1>4, PiecesSeg DEF IsPrefix, Part

-----------------------------------------------------------------------------
(* The invariant.                                                          *)

LEMMA Times ==
    ASSUME NEW m \in Nat
    PROVE  /\ m * Parts \in Nat
           /\ (m + 1) * Parts \in Nat
           /\ (m + 1) * Parts = m * Parts + Parts
  BY EchoAssumption

LEMMA TimesBound ==
    ASSUME NEW m \in 0..MaxMessages
    PROVE  m * Parts \in Nat /\ MaxMessages * Parts \in Nat /\ m * Parts <= MaxMessages * Parts
  BY EchoAssumption

LEMMA PiecesPart ==
    ASSUME NEW c, NEW a \in Nat, NEW b \in Nat, a <= b
    PROVE  SubSeq(Pieces(c, b), a + 1, b) = Seg(c, a, b)
  <1>1. 0 \in Nat /\ 0 <= a /\ b <= b /\ a + 1 \in Int /\ b \in Int 
    OBVIOUS
  <1>2. Part(Seg(c, 0, b), a + 1, b) = Seg(c, a, b)
    BY <1>1, SegPart
  <1>3. QED
    BY <1>2, PiecesSeg DEF Part

LEMMA MessageSeg ==
    ASSUME NEW c \in Clients, sent[c] \in Nat
    PROVE  Message(c) = Seg(c, sent[c] * Parts, (sent[c] + 1) * Parts)
  <1>1. sent[c] * Parts <= (sent[c] + 1) * Parts
    BY Times, EchoAssumption
  <1>2. QED
    BY <1>1, Times, PiecesPart DEF Message

LEMMA IInvInit == Init => IInv
  <1> SUFFICES ASSUME Init PROVE IInv
    OBVIOUS
  <1>1. FrameOK
    BY EchoAssumption DEF Init, FrameOK
  <1>2. ASSUME NEW c \in Clients PROVE Stream(c)
    <2>1. sent[c] * Parts = 0 /\ 0 \in 0..(sent[c] * Parts)
      BY EchoAssumption DEF Init
    <2>2. Seg(c, 0, 0) = <<>>
      BY SegEmpty
    <2>3. Cuts(c, 0, 0, 0, 0, 0)
      BY <2>1, <2>2 DEF Init, Cuts
    <2>4. QED
      BY <2>1, <2>3 DEF Stream
  <1>3. QED
    BY <1>1, <1>2 DEF IInv

(* What a client may do without a call that moves pieces. *)
Waits(d) ==
    \/ pc'[d] = pc[d]
    \/ transport = "tcp"
    \/ pc[d] # "receive" /\ pc'[d] # "receive"

(* Pieces that the server has not echoed yet may be lost, unless the       *)
(* connection stands.                                                      *)
LEMMA StreamLoses ==
    ASSUME FrameOK, NEW d \in Clients, Stream(d), Waits(d),
           transport' = transport, sent'[d] = sent[d],
           got'[d] = got[d], toClient'[d] = toClient[d],
           held'[d] = held[d] \/ held'[d] = <<>>,
           toServer'[d] = toServer[d] \/ toServer'[d] = <<>>,
           Live(d)' => Live(d) /\ held'[d] = held[d] /\ toServer'[d] = toServer[d]
    PROVE  Stream(d)'
  <1> DEFINE N == sent[d] * Parts
  <1>1. N \in Nat /\ sent[d] \in 0..MaxMessages
    BY TimesBound DEF FrameOK
  <1>2. PICK g, t, h, r, s \in 0..N : Cuts(d, g, t, h, r, s)
    BY DEF Stream
  <1>3. (sent[d] * Parts)' = N
    OBVIOUS
  <1> HIDE DEF N
  <1>4. ASSUME NEW h2 \in 0..N, NEW r2 \in 0..N, NEW s2 \in 0..N,
               t <= h2, h2 <= r2, r2 <= s2,
               held'[d] = Seg(d, t, h2), toServer'[d] = Seg(d, r2, s2),
               Live(d)' => h2 = h /\ r2 = r /\ s2 = s,
               {h2, r2, s2} \subseteq {t, h, r, s}
        PROVE  Stream(d)'
    <2>1. \A x \in {t, h2, r2, s2} : x \in {t, h, r, s}
      BY <1>4
    <2>2. g <= t /\ got'[d] = Seg(d, 0, g) /\ toClient'[d] = Seg(d, g, t)
      BY <1>2 DEF Cuts
    <2>3. Live(d)' => r2 = h2 /\ s2 = N
      BY <1>2, <1>4 DEF Cuts, N
    <2>4. transport' = "udp" => IF pc'[d] = "receive"
             THEN g + Parts = N /\ {t, h2, r2, s2} \subseteq {g, N} ELSE g = N
      BY <1>2, <2>1 DEF Cuts, N, Waits
    <2>5. Cuts(d, g, t, h2, r2, s2)'
      BY <1>3, <1>4, <2>2, <2>3, <2>4 DEF Cuts
    <2>6. QED
      BY <1>3, <2>5 DEF Stream
  <1>5. /\ t <= h /\ h <= r /\ r <= s /\ held[d] = Seg(d, t, h) /\ toServer[d] = Seg(d, r, s)
    BY <1>2 DEF Cuts
  <1>6. \A x \in 0..N : Seg(d, x, x) = <<>>
    BY <1>1, SegEmpty
  <1>7. CASE held'[d] = held[d] /\ toServer'[d] = toServer[d]
    BY <1>4, <1>5, <1>7
  <1>8. CASE held'[d] = held[d] /\ toServer'[d] = <<>> /\ ~Live(d)'
    BY <1>4, <1>5, <1>6, <1>8
  <1>9. CASE held'[d] = <<>> /\ toServer'[d] = toServer[d] /\ ~Live(d)'
    <2>1. t <= t /\ t <= r
      BY <1>5
    <2>2. QED
      BY <1>4, <1>5, <1>6, <1>9, <2>1
  <1>10. CASE held'[d] = <<>> /\ toServer'[d] = <<>> /\ ~Live(d)'
    BY <1>4, <1>6, <1>10
  <1>11. QED
    BY <1>7, <1>8, <1>9, <1>10

(* A client that the step does not touch keeps its pieces. *)
LEMMA StreamKept ==
    ASSUME FrameOK, NEW d \in Clients, Stream(d), Waits(d),
           transport' = transport, sent'[d] = sent[d],
           got'[d] = got[d], toClient'[d] = toClient[d],
           held'[d] = held[d], toServer'[d] = toServer[d],
           Live(d)' => Live(d)
    PROVE  Stream(d)'
  BY StreamLoses

(* What a receiving call takes, and what is left. *)
LEMMA SegTakes ==
    ASSUME NEW c, NEW a \in Nat, NEW b \in Nat, NEW n \in 1..(b - a)
    PROVE  /\ Part(Seg(c, a, b), 1, n) = Seg(c, a, a + n)
           /\ Part(Seg(c, a, b), n + 1, Len(Seg(c, a, b))) = Seg(c, a + n, b)
  <1>1. /\ n \in Int /\ n + 1 \in Int /\ b - a \in Int /\ 1 \in Int /\ a + n \in Nat
        /\ a <= a /\ a <= a + n /\ a + n <= b /\ b <= b /\ a <= b
        /\ 1 + a <= a + 1 /\ a + 1 <= 1 + a /\ n + a <= a + n /\ a + n <= n + a
        /\ n + 1 + a <= a + n + 1 /\ a + n + 1 <= n + 1 + a
        /\ b - a + a <= b /\ b <= b - a + a
    OBVIOUS
  <1>2. Len(Seg(c, a, b)) = b - a
    BY <1>1, SegOfClient
  <1>3. Part(Seg(c, a, b), 1, n) = Seg(c, a, a + n)
    BY <1>1, SegPart
  <1>4. Part(Seg(c, a, b), n + 1, b - a) = Seg(c, a + n, b)
    BY <1>1, SegPart
  <1>5. QED
    BY <1>2, <1>3, <1>4

LEMMA AmountsSeg ==
    ASSUME NEW c, NEW a \in Nat, NEW b \in Nat, a <= b, NEW n \in Amounts(Seg(c, a, b))
    PROVE  n \in 1..(b - a) /\ (transport = "udp" => n = b - a)
  <1>1. Len(Seg(c, a, b)) = b - a
    BY SegOfClient
  <1>2. QED
    BY <1>1 DEF Amounts

(* recv() takes the first pieces on their way to the client. *)
LEMMA ReceiveStream ==
    ASSUME FrameOK, NEW c \in Clients, Stream(c), receive(c)
    PROVE  Stream(c)'
  <1> DEFINE N == sent[c] * Parts
  <1>1. N \in Nat
    BY TimesBound DEF FrameOK
  <1>2. PICK g, t, h, r, s \in 0..N : Cuts(c, g, t, h, r, s)
    BY DEF Stream
  <1>3. PICK n \in Amounts(toClient[c]) :
            /\ got'[c] = got[c] \o Part(toClient[c], 1, n)
            /\ toClient'[c] = Part(toClient[c], n + 1, Len(toClient[c]))
    BY DEF receive, Put, Part, FrameOK
  <1>4. /\ transport' = transport /\ held'[c] = held[c] /\ toServer'[c] = toServer[c]
        /\ pc[c] = "receive" /\ pc'[c] = "prompt" /\ (Live(c)' => Live(c)) /\ (sent[c] * Parts)' = N
    BY DEF receive, Goto, FrameOK, Live
  <1> HIDE DEF N
  <1>5. g <= t /\ t <= h /\ h <= r /\ r <= s /\ got[c] = Seg(c, 0, g) /\ toClient[c] = Seg(c, g, t)
    BY <1>2 DEF Cuts
  <1>6. n \in 1..(t - g) /\ (transport = "udp" => n = t - g)
    BY <1>1, <1>3, <1>5, AmountsSeg
  <1>7. g + n \in 0..N /\ g + n <= t /\ g <= g + n
    BY <1>1, <1>5, <1>6
  <1>8. /\ Part(toClient[c], 1, n) = Seg(c, g, g + n)
        /\ Part(toClient[c], n + 1, Len(toClient[c])) = Seg(c, g + n, t)
    <2>1. g \in Nat /\ t \in Nat
      OBVIOUS
    <2>2. /\ Part(Seg(c, g, t), 1, n) = Seg(c, g, g + n)
          /\ Part(Seg(c, g, t), n + 1, Len(Seg(c, g, t))) = Seg(c, g + n, t)
      BY <1>6, <2>1, SegTakes
    <2>3. QED
      BY <1>5, <2>2, Zenon
  <1>9. got'[c] = Seg(c, 0, g + n) /\ toClient'[c] = Seg(c, g + n, t)
    <2>1. 0 \in Nat /\ g \in Nat /\ g + n \in Nat /\ 0 <= g
      BY <1>7
    <2>2. Seg(c, 0, g) \o Seg(c, g, g + n) = Seg(c, 0, g + n)
      BY <1>7, <2>1, SegConcat, Zenon
    <2>3. QED
      BY <1>3, <1>5, <1>8, <2>2, Zenon
  <1>10. transport = "udp" => g + n = N
    BY <1>1, <1>2, <1>4, <1>6 DEF Cuts, N
  <1>11. Cuts(c, g + n, t, h, r, s)'
    BY <1>2, <1>4, <1>5, <1>7, <1>9, <1>10 DEF Cuts, N
  <1>12. QED
    BY <1>4, <1>7, <1>11 DEF Stream

(* recv() of the server takes the first pieces on their way to it, with    *)
(* nothing between them and what has been echoed.                          *)
LEMMA ServerReceiveStream ==
    ASSUME FrameOK, NEW c \in Clients, Stream(c), server # "down", server_receive(c)
    PROVE  Stream(c)'
  <1> DEFINE N == sent[c] * Parts
  <1>1. N \in Nat /\ Parts \in Nat \ {0}
    BY TimesBound, EchoAssumption DEF FrameOK
  <1>2. PICK g, t, h, r, s \in 0..N : Cuts(c, g, t, h, r, s)
    BY DEF Stream
  <1>3. PICK n \in Amounts(toServer[c]) :
            /\ held'[c] = Part(toServer[c], 1, n)
            /\ toServer'[c] = Part(toServer[c], n + 1, Len(toServer[c]))
    BY DEF server_receive, Part, FrameOK
  <1>4. /\ transport' = transport /\ got'[c] = got[c] /\ toClient'[c] = toClient[c]
        /\ pc'[c] = pc[c] /\ (Live(c)' => Live(c)) /\ (sent[c] * Parts)' = N
        /\ held[c] = <<>> /\ (transport = "tcp" => Live(c)) /\ transport \in {"udp", "tcp"}
    BY DEF server_receive, Idle, FrameOK, Live
  <1> HIDE DEF N
  <1>5. g <= t /\ t <= h /\ h <= r /\ r <= s /\ held[c] = Seg(c, t, h) /\ toServer[c] = Seg(c, r, s)
    BY <1>2 DEF Cuts
  <1>6. n \in 1..(s - r) /\ (transport = "udp" => n = s - r)
    BY <1>1, <1>3, <1>5, AmountsSeg
  <1>7. t = h
    BY <1>4, <1>5, SegEmpty
  <1>8. t = r
    <2>1. CASE transport = "tcp"
      BY <1>2, <1>4, <1>7, <2>1 DEF Cuts
    <2>2. CASE transport = "udp"
      <3>1. pc[c] = "receive" /\ r \in {g, N} /\ s \in {g, N}
        BY <1>1, <1>2, <1>5, <1>6, <2>2 DEF Cuts, N
      <3>2. QED
        BY <1>1, <1>5, <1>6, <3>1
    <2>3. QED
      BY <1>4, <2>1, <2>2
  <1>9. r + n \in 0..N /\ r + n <= s /\ r <= r + n
    BY <1>1, <1>5, <1>6
  <1>10. held'[c] = Seg(c, t, r + n) /\ toServer'[c] = Seg(c, r + n, s)
    <2>1. r \in Nat /\ s \in Nat
      OBVIOUS
    <2>2. /\ Part(Seg(c, r, s), 1, n) = Seg(c, r, r + n)
          /\ Part(Seg(c, r, s), n + 1, Len(Seg(c, r, s))) = Seg(c, r + n, s)
      BY <1>6, <2>1, SegTakes
    <2>3. QED
      BY <1>3, <1>5, <1>8, <2>2, Zenon
  <1>11. t <= r + n
    BY <1>8, <1>9
  <1>12. Live(c)' => s = N
    BY <1>2, <1>4 DEF Cuts, N
  <1>13. transport = "udp" => IF pc[c] = "receive"
            THEN g + Parts = N /\ {t, r + n, s} \subseteq {g, N} ELSE g = N
    <2>1. transport = "udp" => r + n = s
      BY <1>6
    <2>2. QED
      BY <1>2, <2>1 DEF Cuts, N
  <1>14. Cuts(c, g, t, r + n, r + n, s)'
    BY <1>2, <1>4, <1>9, <1>10, <1>11, <1>12, <1>13 DEF Cuts
  <1>15. QED
    BY <1>4, <1>9, <1>14 DEF Stream

(* write() or sendto() puts all that the server holds on its way back. *)
LEMMA EchoStream ==
    ASSUME FrameOK, NEW c \in Clients, Stream(c), Waits(c),
           transport' = transport, sent'[c] = sent[c], got'[c] = got[c],
           toServer'[c] = toServer[c], pc'[c] = pc[c], Live(c)' => Live(c),
           toClient'[c] = toClient[c] \o held[c], held'[c] = <<>>
    PROVE  Stream(c)'
  <1> DEFINE N == sent[c] * Parts
  <1>1. N \in Nat
    BY TimesBound DEF FrameOK
  <1>2. PICK g, t, h, r, s \in 0..N : Cuts(c, g, t, h, r, s)
    BY DEF Stream
  <1>3. (sent[c] * Parts)' = N
    OBVIOUS
  <1>4. g <= t /\ t <= h /\ h <= r /\ r <= s /\ held[c] = Seg(c, t, h) /\ toClient[c] = Seg(c, g, t)
    BY <1>2 DEF Cuts
  <1>5. g \in Nat /\ t \in Nat /\ h \in Nat /\ g <= h /\ h <= h
    BY <1>1, <1>4
  <1>6. toClient'[c] = Seg(c, g, h)
    <2>1. Seg(c, g, t) \o Seg(c, t, h) = Seg(c, g, h)
      BY <1>4, <1>5, SegConcat, Zenon
    <2>2. QED
      BY <1>4, <2>1, Zenon
  <1>7. held'[c] = Seg(c, h, h)
    BY <1>5, SegEmpty
  <1>8. Cuts(c, g, h, h, r, s)'
    BY <1>2, <1>3, <1>4, <1>5, <1>6, <1>7 DEF Cuts
  <1>9. QED
    BY <1>3, <1>8 DEF Stream

(* send() or sendto() puts the whole message on its way, or loses all of   *)
(* it; only what is sent to a standing connection is not lost.             *)
LEMMA SendStream ==
    ASSUME FrameOK, NEW c \in Clients, Stream(c), send(c)
    PROVE  Stream(c)'
  <1> DEFINE N == sent[c] * Parts
             M == (sent[c] + 1) * Parts
  <1>1. /\ N \in Nat /\ M \in Nat /\ M = N + Parts /\ Parts \in Nat \ {0} /\ N <= M
        /\ sent[c] \in Nat
    <2>1. sent[c] \in Nat
      BY EchoAssumption DEF FrameOK
    <2>2. QED
      BY <2>1, Times, EchoAssumption
  <1>2. PICK g, t, h, r, s \in 0..N : Cuts(c, g, t, h, r, s)
    BY DEF Stream
  <1>3. /\ transport' = transport /\ got'[c] = got[c] /\ toClient'[c] = toClient[c]
        /\ held'[c] = held[c] /\ (Live(c)' <=> Live(c)) /\ (sent[c] * Parts)' = M
        /\ pc[c] = "prompt" /\ (transport = "udp" => pc'[c] = "receive")
    BY DEF send, Goto, FrameOK, Live, HungUp
  <1>4. g <= t /\ t <= h /\ h <= r /\ r <= s /\ s <= N /\ toServer[c] = Seg(c, r, s)
    BY <1>2 DEF Cuts
  <1>5. transport = "udp" => g = N /\ t = N /\ h = N /\ r = N /\ s = N
    BY <1>1, <1>2, <1>3, <1>4 DEF Cuts
  <1>6. ASSUME NEW s2 \in {s, M}, toServer'[c] = Seg(c, r, s2),
               Live(c) => s2 = M
        PROVE  Stream(c)'
    <2>1. s <= s2 /\ s2 \in 0..M /\ r <= s2
      BY <1>1, <1>4, <1>6
    <2>2. Live(c)' => r = h /\ s2 = M
      BY <1>2, <1>3, <1>6 DEF Cuts
    <2>3. transport' = "udp" => pc'[c] = "receive" /\ g + Parts = M /\ {t, h, r, s2} \subseteq {g, M}
      BY <1>1, <1>3, <1>5
    <2>4. g <= t /\ t <= h /\ h <= r /\ got'[c] = Seg(c, 0, g)
          /\ toClient'[c] = Seg(c, g, t) /\ held'[c] = Seg(c, t, h)
      BY <1>2, <1>3 DEF Cuts
    <2> HIDE DEF N, M
    <2>5. Cuts(c, g, t, h, r, s2)'
      BY <1>3, <1>6, <2>1, <2>2, <2>3, <2>4 DEF Cuts
    <2>6. g \in 0..M /\ t \in 0..M /\ h \in 0..M /\ r \in 0..M
      BY <1>1
    <2>7. QED
      BY <1>3, <2>1, <2>5, <2>6 DEF Stream
  <1>7. CASE /\ server # "down" /\ ~HungUp(c)
             /\ toServer' = Put(toServer, c, Message(c))
    <2>1. toServer'[c] = toServer[c] \o Message(c)
      BY <1>7 DEF Put, FrameOK
    <2>2. Message(c) = Seg(c, N, M)
      BY <1>1, MessageSeg
    <2>3. s = N
      BY <1>2, <1>5, <1>7 DEF Cuts, Live, HungUp, FrameOK
    <2>4. r \in Nat /\ r <= N
      BY <1>1, <1>4
    <2> HIDE DEF N, M
    <2>5. Seg(c, r, N) \o Seg(c, N, M) = Seg(c, r, M)
      BY <1>1, <2>4, SegConcat, Zenon
    <2>6. toServer'[c] = Seg(c, r, M)
      BY <1>4, <2>1, <2>2, <2>3, <2>5, Zenon
    <2>7. QED
      BY <1>6, <2>6
  <1>8. CASE (transport = "udp" \/ HungUp(c)) /\ UNCHANGED toServer
    <2>1. ~Live(c) /\ toServer'[c] = Seg(c, r, s)
      BY <1>4, <1>8 DEF Live, HungUp
    <2>2. QED
      BY <1>6, <2>1
  <1>9. QED
    BY <1>7, <1>8 DEF send

(* A step of one client or its handler leaves the pieces of the others. *)
LEMMA OthersKept ==
    ASSUME FrameOK, NEW c \in Clients, NEW d \in Clients \ {c}, Stream(d),
           send(c) \/ receive(c) \/ server_receive(c) \/ echo_udp(c) \/ echo_tcp(c)
    PROVE  Stream(d)'
  <1>1. CASE send(c)
    BY <1>1, StreamKept DEF send, Goto, Put, FrameOK, Live, Waits
  <1>2. CASE receive(c)
    BY <1>2, StreamKept DEF receive, Goto, Put, FrameOK, Live, Waits
  <1>3. CASE server_receive(c)
    BY <1>3, StreamKept DEF server_receive, FrameOK, Live, Waits
  <1>4. CASE echo_udp(c)
    BY <1>4, StreamKept DEF echo_udp, Put, FrameOK, Live, Waits
  <1>5. CASE echo_tcp(c)
    BY <1>5, StreamKept DEF echo_tcp, Put, FrameOK, Live, Waits
  <1>6. QED
    BY <1>1, <1>2, <1>3, <1>4, <1>5

LEMMA ClientKeeps ==
    ASSUME IInv, NEW c \in Clients, client(c)
    PROVE  IInv'
  <1>1. FrameOK /\ \A d \in Clients : Stream(d)
    BY DEF IInv
  <1>2. CASE start(c) \/ leave(c)
    <2>1. FrameOK'
      BY <1>1, <1>2 DEF start, leave, Goto, channels, FrameOK
    <2>2. ASSUME NEW d \in Clients PROVE Stream(d)'
      BY <1>1, <1>2, StreamKept DEF start, leave, Goto, channels, FrameOK, Live, Waits
    <2>3. QED
      BY <2>1, <2>2 DEF IInv
  <1>3. CASE end_of_stream(c)
    <2>1. FrameOK'
      BY <1>1, <1>3 DEF end_of_stream, Goto, channels, FrameOK
    <2>2. ASSUME NEW d \in Clients PROVE Stream(d)'
      BY <1>1, <1>3, StreamKept DEF end_of_stream, HungUp, Goto, channels, FrameOK, Live, Waits
    <2>3. QED
      BY <2>1, <2>2 DEF IInv
  <1>4. CASE send(c)
    <2>1. sent'[c] \in 0..MaxMessages
      BY <1>1, <1>4, EchoAssumption DEF send, FrameOK
    <2>2. FrameOK'
      BY <1>1, <1>4, <2>1 DEF send, Goto, Put, FrameOK
    <2>3. ASSUME NEW d \in Clients PROVE Stream(d)'
      BY <1>1, <1>4, SendStream, OthersKept
    <2>4. QED
      BY <2>2, <2>3 DEF IInv
  <1>5. CASE receive(c)
    <2>1. FrameOK'
      BY <1>1, <1>5 DEF receive, Goto, Put, FrameOK
    <2>2. ASSUME NEW d \in Clients PROVE Stream(d)'
      BY <1>1, <1>5, ReceiveStream, OthersKept
    <2>3. QED
      BY <2>1, <2>2 DEF IInv
  <1>6. QED
    BY <1>2, <1>3, <1>4, <1>5 DEF client

(* The end of the server loses what it has not echoed. *)
LEMMA DownKeeps ==
    ASSUME IInv, Down, UNCHANGED <<transport, conn, pc, toClient, sent, got>>
    PROVE  IInv'
  <1>1. FrameOK /\ \A d \in Clients : Stream(d)
    BY DEF IInv
  <1>2. FrameOK'
    BY <1>1 DEF Down, FrameOK
  <1>3. ASSUME NEW d \in Clients PROVE Stream(d)'
    BY <1>1, StreamLoses DEF Down, Live, Waits
  <1>4. QED
    BY <1>2, <1>3 DEF IInv

LEMMA HandlerKeeps ==
    ASSUME IInv, NEW c \in Clients, handler(c)
    PROVE  IInv'
  <1>1. FrameOK /\ (\A d \in Clients : Stream(d)) /\ server # "down"
    BY DEF IInv, handler
  <1>2. CASE Down /\ UNCHANGED <<transport, conn, pc, toClient, sent, got>>
    BY <1>2, DownKeeps
  <1>3. CASE accept(c) /\ ~Down
    <2>1. FrameOK'
      BY <1>1, <1>3 DEF accept, FrameOK
    <2>2. ASSUME NEW d \in Clients PROVE Stream(d)'
      BY <1>1, <1>3, StreamKept DEF accept, FrameOK, Live, Waits
    <2>3. QED
      BY <2>1, <2>2 DEF IInv
  <1>4. CASE server_receive(c)
    <2>1. FrameOK'
      BY <1>1, <1>4 DEF server_receive, FrameOK
    <2>2. ASSUME NEW d \in Clients PROVE Stream(d)'
      BY <1>1, <1>4, ServerReceiveStream, OthersKept
    <2>3. QED
      BY <2>1, <2>2 DEF IInv
  <1>5. CASE echo_udp(c)
    <2>1. FrameOK'
      BY <1>1, <1>5 DEF echo_udp, Put, FrameOK
    <2>2. Stream(c)'
      <3>1. /\ Waits(c) /\ transport' = transport /\ sent'[c] = sent[c] /\ got'[c] = got[c]
            /\ toServer'[c] = toServer[c] /\ pc'[c] = pc[c] /\ ~Live(c)'
            /\ held'[c] = <<>>
        BY <1>1, <1>5 DEF echo_udp, Live, Waits, FrameOK
      <3>2. toClient'[c] = toClient[c] \o held[c] \/ toClient'[c] = toClient[c]
        BY <1>1, <1>5 DEF echo_udp, Put, FrameOK
      <3>3. QED
        BY <1>1, <3>1, <3>2, EchoStream, StreamLoses
    <2>3. ASSUME NEW d \in Clients PROVE Stream(d)'
      BY <1>1, <1>5, <2>2, OthersKept
    <2>4. QED
      BY <2>1, <2>3 DEF IInv
  <1>6. CASE echo_tcp(c)
    <2>1. FrameOK'
      BY <1>1, <1>6 DEF echo_tcp, Put, FrameOK
    <2>2. Stream(c)'
      <3>1. /\ Waits(c) /\ transport' = transport /\ sent'[c] = sent[c] /\ got'[c] = got[c]
            /\ toServer'[c] = toServer[c] /\ pc'[c] = pc[c] /\ (Live(c)' => Live(c))
            /\ held'[c] = <<>>
        BY <1>1, <1>6 DEF echo_tcp, Live, Waits, FrameOK
      <3>2. toClient'[c] = toClient[c] \o held[c] \/ (toClient'[c] = toClient[c] /\ ~Live(c)')
        BY <1>1, <1>6 DEF echo_tcp, Put, Live, FrameOK
      <3>3. QED
        BY <1>1, <3>1, <3>2, EchoStream, StreamLoses
    <2>3. ASSUME NEW d \in Clients PROVE Stream(d)'
      BY <1>1, <1>6, <2>2, OthersKept
    <2>4. QED
      BY <2>1, <2>3 DEF IInv
  <1>7. CASE disconnect(c) /\ ~Down
    <2>1. FrameOK'
      BY <1>1, <1>7 DEF disconnect, FrameOK
    <2>2. ASSUME NEW d \in Clients PROVE Stream(d)'
      <3>1. CASE d = c
        BY <1>1, <1>7, <3>1, StreamLoses DEF disconnect, FrameOK, Live, Waits
      <3>2. CASE d # c
        BY <1>1, <1>7, <3>2, StreamKept DEF disconnect, FrameOK, Live, Waits
      <3>3. QED
        BY <3>1, <3>2
    <2>3. QED
      BY <2>1, <2>2 DEF IInv
  <1>8. (accept(c) \/ disconnect(c)) /\ Down => UNCHANGED <<transport, conn, pc, toClient, sent, got>>
    BY <1>1 DEF accept, disconnect, Down
  <1>9. QED
    BY <1>2, <1>3, <1>4, <1>5, <1>6, <1>7, <1>8 DEF handler

LEMMA IInvNext == IInv /\ [Next]_vars => IInv'
  <1> SUFFICES ASSUME IInv, [Next]_vars PROVE IInv'
    OBVIOUS
  <1>1. FrameOK /\ \A d \in Clients : Stream(d)
    BY DEF IInv
  <1>2. ASSUME NEW c \in Clients, client(c) \/ handler(c) PROVE IInv'
    BY <1>2, ClientKeeps, HandlerKeeps
  <1>3. CASE input_q
    <2>1. FrameOK'
      BY <1>1, <1>3 DEF input_q, channels, FrameOK
    <2>2. ASSUME NEW d \in Clients PROVE Stream(d)'
      BY <1>1, <1>3, StreamKept DEF input_q, channels, Live, Waits
    <2>3. QED
      BY <2>1, <2>2 DEF IInv
  <1>4. CASE server_exit
    BY <1>4, DownKeeps DEF server_exit
  <1>5. CASE UNCHANGED vars
    <2>1. FrameOK'
      BY <1>1, <1>5 DEF vars, channels, FrameOK
    <2>2. ASSUME NEW d \in Clients PROVE Stream(d)'
      BY <1>1, <1>5, StreamKept DEF vars, channels, Live, Waits
    <2>3. QED
      BY <2>1, <2>2 DEF IInv
  <1>6. QED
    BY <1>2, <1>3, <1>4, <1>5 DEF Next

LEMMA Invariance == Spec => []IInv
  BY IInvInit, IInvNext, PTL DEF Spec

-----------------------------------------------------------------------------
(* Theorems.                                                               *)

LEMMA IInvType == IInv => TypeOK
  <1> SUFFICES ASSUME IInv PROVE TypeOK
    OBVIOUS
  <1>1. FrameOK /\ \A c \in Clients : Stream(c)
    BY DEF IInv
  <1> DEFINE T == 1..(MaxMessages * Parts)
             P == Clients \X T
  <1>2. ASSUME NEW c \in Clients
        PROVE  /\ toServer[c] \in Seq(P) /\ held[c] \in Seq(P)
               /\ toClient[c] \in Seq(P) /\ got[c] \in Seq(P)
    <2> DEFINE N == sent[c] * Parts
    <2>1. N \in Nat /\ MaxMessages * Parts \in Nat /\ N <= MaxMessages * Parts
      BY <1>1, TimesBound DEF FrameOK
    <2>2. PICK g, t, h, r, s \in 0..N : Cuts(c, g, t, h, r, s)
      BY <1>1 DEF Stream
    <2> HIDE DEF N
    <2>3. ASSUME NEW a \in 0..N, NEW b \in 0..N, a <= b PROVE Seg(c, a, b) \in Seq(P)
      <3>1. (a + 1)..b \subseteq T /\ a \in Nat /\ b \in Nat
        BY <2>1, <2>3
      <3> HIDE DEF T
      <3>2. QED
        BY <2>3, <3>1, SegIsSeq
    <2>4. 0 \in 0..N /\ 0 <= g
      BY <2>1
    <2>5. /\ g <= t /\ t <= h /\ r <= s
          /\ got[c] = Seg(c, 0, g) /\ toClient[c] = Seg(c, g, t)
          /\ held[c] = Seg(c, t, h) /\ toServer[c] = Seg(c, r, s)
      BY <2>2 DEF Cuts
    <2> HIDE DEF P
    <2>6. QED
      BY <2>3, <2>4, <2>5
  <1> HIDE DEF T
  <1>3. QED
    BY <1>1, <1>2 DEF TypeOK, FrameOK, T

(* Every variable of the echo programs keeps its type: no client numbers a *)
(* piece beyond what it may send, whichever calls of client and server     *)
(* interleave.                                                             *)
THEOREM TypeCorrect == Spec => []TypeOK
  BY Invariance, IInvType, PTL

(* Every client gets back a prefix of what it has sent itself, and with    *)
(* datagrams the whole of the message just sent, for any number of         *)
(* clients served by messageHandler() or by the connectionHandler()        *)
(* threads at the same time.                                               *)
THEOREM OwnEchoHolds == Spec => []OwnEcho
  <1>1. IInv => OwnEcho
    <2> SUFFICES ASSUME IInv, NEW c \in Clients
                 PROVE  /\ IsPrefix(got[c], Pieces(c, sent[c] * Parts))
                        /\ transport = "udp" /\ pc[c] = "prompt" => got[c] = Pieces(c, sent[c] * Parts)
      BY DEF OwnEcho
    <2> DEFINE N == sent[c] * Parts
    <2>1. N \in Nat
      BY TimesBound DEF IInv, FrameOK
    <2>2. PICK g, t, h, r, s \in 0..N : Cuts(c, g, t, h, r, s)
      BY DEF IInv, Stream
    <2>3. got[c] = Seg(c, 0, g) /\ g \in Nat /\ g <= N
      BY <2>1, <2>2 DEF Cuts
    <2>4. transport = "udp" /\ pc[c] = "prompt" => g = N
      BY <2>2 DEF Cuts
    <2> HIDE DEF N
    <2>5. IsPrefix(got[c], Pieces(c, N))
      BY <2>1, <2>3, SegPrefix
    <2>6. transport = "udp" /\ pc[c] = "prompt" => got[c] = Pieces(c, N)
      BY <2>1, <2>3, <2>4, PiecesSeg
    <2>7. QED
      BY <2>5, <2>6 DEF N
  <1>2. QED
    BY Invariance, <1>1, PTL

(* The connection stands: what the client has back, what is on its way to  *)
(* it, in the thread's buffer and on its way to the server make up all it  *)
(* has sent.                                                               *)
NothingLost ==
    \A c \in Clients :
        Live(c) => got[c] \o (toClient[c] \o (held[c] \o toServer[c])) = Pieces(c, sent[c] * Parts)

(* The stream of a TCP client is complete and in order as long as neither  *)
(* the server nor connectionHandler() has ended, however recv() cuts it    *)
(* and whatever the other connections do.                                  *)
THEOREM NothingLostHolds == Spec => []NothingLost
  <1>1. IInv => NothingLost
    <2> SUFFICES ASSUME IInv, NEW c \in Clients, Live(c)
                 PROVE  got[c] \o (toClient[c] \o (held[c] \o toServer[c])) = Pieces(c, sent[c] * Parts)
      BY DEF NothingLost
    <2> DEFINE N == sent[c] * Parts
    <2>1. N \in Nat
      BY TimesBound DEF IInv, FrameOK
    <2>2. PICK g, t, h, r, s \in 0..N : Cuts(c, g, t, h, r, s)
      BY DEF IInv, Stream
    <2>3. /\ got[c] = Seg(c, 0, g) /\ toClient[c] = Seg(c, g, t)
          /\ held[c] = Seg(c, t, h) /\ toServer[c] = Seg(c, h, N)
      BY <2>2 DEF Cuts
    <2>4. g <= t /\ t <= h
      BY <2>2 DEF Cuts
    <2> HIDE DEF N
    <2>5. /\ 0 \in Nat /\ g \in Nat /\ t \in Nat /\ h \in Nat
          /\ 0 <= g /\ h <= N /\ t <= N /\ g <= N
      BY <2>1
    <2>6. Seg(c, t, h) \o Seg(c, h, N) = Seg(c, t, N)
      BY <2>1, <2>4, <2>5, SegConcat, Zenon
    <2>7. Seg(c, g, t) \o Seg(c, t, N) = Seg(c, g, N)
      BY <2>1, <2>4, <2>5, SegConcat, Zenon
    <2>8. Seg(c, 0, g) \o Seg(c, g, N) = Seg(c, 0, N)
      BY <2>1, <2>5, SegConcat, Zenon
    <2>9. got[c] \o (toClient[c] \o (held[c] \o toServer[c])) = Seg(c, 0, N)
      BY <2>3, <2>6, <2>7, <2>8, Zenon
    <2>10. QED
      BY <2>1, <2>9, PiecesSeg DEF N
  <1>2. QED
    BY Invariance, <1>1, PTL

(* A datagram client has at most one message under way, whole and in one   *)
(* place, and only while it waits for the answer.                          *)
OneUnderWay ==
    transport = "udp" =>
        \A c \in Clients :
            LET latest == Seg(c, (sent[c] - 1) * Parts, sent[c] * Parts)
                places == <<toServer[c], held[c], toClient[c]>>
            IN  /\ pc[c] # "receive" => places = <<<<>>, <<>>, <<>>>>
                /\ places \in {<<<<>>, <<>>, <<>>>>, <<latest, <<>>, <<>>>>,
                                <<<<>>, latest, <<>>>>, <<<<>>, <<>>, latest>>}

(* Because the UDP client waits after sendto() and messageHandler() has    *)
(* one buffer, an answer cannot meet a second message of its client        *)
(* anywhere.                                                               *)
THEOREM OneUnderWayHolds == Spec => []OneUnderWay
  <1>1. IInv => OneUnderWay
    <2> SUFFICES ASSUME IInv, transport = "udp", NEW c \in Clients
                 PROVE  LET latest == Seg(c, (sent[c] - 1) * Parts, sent[c] * Parts)
                            places == <<toServer[c], held[c], toClient[c]>>
                        IN  /\ pc[c] # "receive" => places = <<<<>>, <<>>, <<>>>>
                            /\ places \in {<<<<>>, <<>>, <<>>>>, <<latest, <<>>, <<>>>>,
                                            <<<<>>, latest, <<>>>>, <<<<>>, <<>>, latest>>}
      BY DEF OneUnderWay
    <2> DEFINE N == sent[c] * Parts
               B == (sent[c] - 1) * Parts
    <2>1. N \in Nat /\ sent[c] \in Nat
      BY TimesBound, EchoAssumption DEF IInv, FrameOK
    <2>2. N = B + Parts /\ B \in Int
      BY <2>1, EchoAssumption
    <2>3. PICK g, t, h, r, s \in 0..N : Cuts(c, g, t, h, r, s)
      BY DEF IInv, Stream
    <2>4. /\ toClient[c] = Seg(c, g, t) /\ held[c] = Seg(c, t, h) /\ toServer[c] = Seg(c, r, s)
          /\ g <= t /\ t <= h /\ h <= r /\ r <= s
      BY <2>3 DEF Cuts
    <2>5. IF pc[c] = "receive" THEN g + Parts = N /\ {t, h, r, s} \subseteq {g, N} ELSE g = N
      BY <2>3 DEF Cuts
    <2> HIDE DEF N, B
    <2>6. \A x \in 0..N : Seg(c, x, x) = <<>>
      BY <2>1, SegEmpty
    <2>7. pc[c] # "receive" => toServer[c] = <<>> /\ held[c] = <<>> /\ toClient[c] = <<>>
      <3>1. pc[c] # "receive" => g = N /\ t = N /\ h = N /\ r = N /\ s = N
        BY <2>1, <2>4, <2>5
      <3>2. QED
        BY <2>4, <2>6, <3>1
    <2>8. pc[c] = "receive" =>
             \/ toServer[c] = <<>> /\ held[c] = <<>> /\ toClient[c] = <<>>
             \/ toServer[c] = Seg(c, B, N) /\ held[c] = <<>> /\ toClient[c] = <<>>
             \/ toServer[c] = <<>> /\ held[c] = Seg(c, B, N) /\ toClient[c] = <<>>
             \/ toServer[c] = <<>> /\ held[c] = <<>> /\ toClient[c] = Seg(c, B, N)
      <3> SUFFICES ASSUME pc[c] = "receive"
                   PROVE \/ toServer[c] = <<>> /\ held[c] = <<>> /\ toClient[c] = <<>>
                         \/ toServer[c] = Seg(c, B, N) /\ held[c] = <<>> /\ toClient[c] = <<>>
                         \/ toServer[c] = <<>> /\ held[c] = Seg(c, B, N) /\ toClient[c] = <<>>
                         \/ toServer[c] = <<>> /\ held[c] = <<>> /\ toClient[c] = Seg(c, B, N)
        OBVIOUS
      <3>1. g = B /\ g < N
        BY <2>1, <2>2, <2>5, EchoAssumption
      <3>2. t \in {g, N} /\ h \in {g, N} /\ r \in {g, N} /\ s \in {g, N}
        BY <2>5
      <3>3. \/ g = t /\ t = h /\ r = s
            \/ g = t /\ t = h /\ r = g /\ s = N
            \/ g = t /\ h = N /\ r = s
            \/ t = N /\ h = t /\ r = s
        BY <2>1, <2>4, <3>1, <3>2
      <3>4. QED
        BY <2>4, <2>6, <3>1, <3>3
    <2>9. QED
      BY <2>7, <2>8 DEF N, B
  <1>2. QED
    BY Invariance, <1>1, PTL

=============================================================================
