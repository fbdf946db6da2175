-------------------------- MODULE SerialLinkProofs --------------------------
(* What the operators on the line's buffers return, for any tokens.        *)
EXTENDS SerialLink, TLAPS

(* A receive buffer holds what was sent, whatever it drops. *)
LEMMA DeliverType ==
  ASSUME NEW S, NEW box \in Seq(S), NEW tokens \in Seq(S), NEW cap \in Nat
  PROVE  Deliver(box, tokens, cap) \in Seq(S)
<1> DEFINE n == IF Len(box) + Len(tokens) <= cap THEN Len(box) + Len(tokens)
                ELSE IF Len(box) <= cap THEN cap ELSE Len(box)
<1>1. box \o tokens \in Seq(S) /\ Len(box \o tokens) = Len(box) + Len(tokens)
  OBVIOUS
<1>2. n \in 0..Len(box \o tokens)
  BY <1>1
<1>3. SubSeq(box \o tokens, 1, n) \in Seq(S)
  BY <1>1, <1>2
<1> QED BY <1>3 DEF Deliver

(* What a delivery leaves out is always a tail of what was sent. *)
Room(box, tokens, cap) == IF Len(box) + Len(tokens) <= cap THEN Len(tokens)
                          ELSE IF Len(box) <= cap THEN cap - Len(box) ELSE 0

LEMMA DeliverCuts ==
  ASSUME NEW S, NEW box \in Seq(S), NEW tokens \in Seq(S), NEW cap \in Nat
  PROVE  /\ Room(box, tokens, cap) \in 0..Len(tokens)
         /\ Deliver(box, tokens, cap)
              = box \o SubSeq(tokens, 1, Room(box, tokens, cap))
<1> DEFINE r == Room(box, tokens, cap)
           n == IF Len(box) + Len(tokens) <= cap THEN Len(box) + Len(tokens)
                ELSE IF Len(box) <= cap THEN cap ELSE Len(box)
<1>1. r \in 0..Len(tokens) /\ n = Len(box) + r
  BY DEF Room
<1>2. Deliver(box, tokens, cap) = SubSeq(box \o tokens, 1, n)
  BY DEF Deliver
<1> HIDE DEF r, n
<1>3. SubSeq(box \o tokens, 1, Len(box) + r) = box \o SubSeq(tokens, 1, r)
  <2> DEFINE head == SubSeq(box \o tokens, 1, Len(box) + r)
             cut  == SubSeq(tokens, 1, r)
             both == box \o cut
  <2>1. /\ box \o tokens \in Seq(S) /\ Len(box \o tokens) = Len(box) + Len(tokens)
        /\ \A k \in 1..Len(box) : (box \o tokens)[k] = box[k]
        /\ \A k \in 1..Len(tokens) : (box \o tokens)[Len(box) + k] = tokens[k]
    OBVIOUS
  <2>2. /\ head \in Seq(S) /\ Len(head) = Len(box) + r
        /\ \A k \in 1..(Len(box) + r) : head[k] = (box \o tokens)[k]
    BY <1>1, <2>1
  <2>3. cut \in Seq(S) /\ Len(cut) = r /\ \A k \in 1..r : cut[k] = tokens[k]
    BY <1>1
  <2> HIDE DEF head, cut
  <2>4. /\ both \in Seq(S) /\ Len(both) = Len(box) + r
        /\ \A k \in 1..Len(box) : both[k] = box[k]
        /\ \A k \in 1..r : both[Len(box) + k] = cut[k]
    BY <1>1, <2>3
  <2> HIDE DEF both
  <2>5. ASSUME NEW k \in 1..(Len(box) + r) PROVE head[k] = both[k]
    <3>1. CASE k <= Len(box)
      BY <2>1, <2>2, <2>4, <3>1
    <3>2. CASE k > Len(box)
      <4>1. PICK i \in 1..r : k = Len(box) + i
        <5>1. k - Len(box) \in 1..r /\ k = Len(box) + (k - Len(box))
          BY <1>1, <3>2
        <5> QED BY <5>1
      <4>2. (box \o tokens)[Len(box) + i] = tokens[i]
        BY <1>1, <2>1
      <4>3. head[k] = tokens[i]
        BY <2>2, <4>1, <4>2
      <4>4. both[k] = tokens[i]
        BY <2>3, <2>4, <4>1
      <4> QED BY <4>3, <4>4
    <3> QED BY <1>1, <3>1, <3>2
  <2>6. head = both
    BY <2>2, <2>4, <2>5, SMTT(30)
  <2> QED BY <2>6 DEF head, both, cut
<1> QED BY <1>1, <1>2, <1>3 DEF r

(* An empty buffer with room for them takes all the tokens sent. *)
LEMMA DeliverAll ==
  ASSUME NEW S, NEW tokens \in Seq(S), NEW cap \in Nat, Len(tokens) <= cap
  PROVE  Deliver(<<>>, tokens, cap) = tokens
<1>1. <<>> \in Seq(S) /\ Len(<<>>) = 0 /\ <<>> \o tokens = tokens
  OBVIOUS
<1>2. Deliver(<<>>, tokens, cap) = SubSeq(tokens, 1, Len(tokens))
  BY <1>1 DEF Deliver
<1> QED BY <1>2

(* Nor does losing or garbling a token bring in anything but noise. *)
LEMMA LostType ==
  ASSUME NEW S, NEW box \in Seq(S), NEW k \in 1..Len(box)
  PROVE  Lost(box, k) \in Seq(S)
BY DEF Lost

LEMMA GarbledType ==
  ASSUME NEW S, NEW box \in Seq(S), NEW k \in 1..Len(box),
         Noise(Width(box[k])) \in S
  PROVE  Garbled(box, k) \in Seq(S)
BY DEF Garbled

LEMMA TailType ==
  ASSUME NEW S, NEW box \in Seq(S), box # <<>>
  PROVE  Tail(box) \in Seq(S) /\ Head(box) \in S /\ Len(box) >= 1
OBVIOUS

(* The rest of a buffer after k tokens were taken from it. *)
LEMMA RestType ==
  ASSUME NEW S, NEW box \in Seq(S), NEW k \in 1..(Len(box) + 1)
  PROVE  SubSeq(box, k, Len(box)) \in Seq(S)
OBVIOUS

(* The first tokens of a buffer. *)
LEMMA PrefixType ==
  ASSUME NEW S, NEW box \in Seq(S), NEW r \in 0..Len(box)
  PROVE  /\ SubSeq(box, 1, r) \in Seq(S) /\ Len(SubSeq(box, 1, r)) = r
         /\ \A k \in 1..r : SubSeq(box, 1, r)[k] = box[k]
OBVIOUS

(* And the others. *)
LEMMA SuffixType ==
  ASSUME NEW S, NEW box \in Seq(S), NEW j \in 0..Len(box)
  PROVE  /\ SubSeq(box, j + 1, Len(box)) \in Seq(S)
         /\ Len(SubSeq(box, j + 1, Len(box))) = Len(box) - j
         /\ \A k \in 1..(Len(box) - j) : SubSeq(box, j + 1, Len(box))[k] = box[k + j]
OBVIOUS

(* Two buffers one behind the other. *)
LEMMA BothType ==
  ASSUME NEW S, NEW box \in Seq(S), NEW more \in Seq(S)
  PROVE  /\ box \o more \in Seq(S) /\ Len(box \o more) = Len(box) + Len(more)
         /\ \A k \in 1..Len(box) : (box \o more)[k] = box[k]
         /\ \A k \in 1..Len(more) : (box \o more)[Len(box) + k] = more[k]
OBVIOUS

LEMMA WidthOfHostToken ==
  ASSUME NEW t \in HostToken
  PROVE  Width(t) \in 1..RestBytes
BY RestBytesAssumption DEF HostToken, Width, Size
=============================================================================
