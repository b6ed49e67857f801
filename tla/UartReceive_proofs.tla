------------------------- MODULE UartReceive_proofs -------------------------
(***************************************************************************)
(* Proofs about UartReceive for any length of a frame, size of the buffer  *)
(* and number of lost bytes: that a loss costs no more than its frame and  *)
(* one more, and that no damaged frame is handed on when fewer bytes are   *)
(* lost than a frame has.                                                  *)
(***************************************************************************)
EXTENDS UartReceive, SequenceTheorems, FiniteSetTheorems, TLAPS

\* The place of a byte: in its frame, behind how many bytes lost so far, and
\* whether none of them were of the same frame.
Places == {x \in [pos : 1 .. FrameLen, seen : 0 .. MaxLost, ok : BOOLEAN] : x.pos = 1 => x.ok}
Tip == [pos |-> due, seen |-> lost, ok |-> whole]

Shows(x, b) == /\ x.pos = 1 => b = "H"
               /\ x.pos = FrameLen => b = IF x.ok THEN "F" ELSE "f"
               /\ x.pos \in 2 .. FrameLen - 1 => b \in {"h", "d"}

\* The byte at y is the one that was received after the one at x.
Follows(x, y) ==
    LET gap == y.seen - x.seen IN
    /\ gap >= 0
    /\ gap = 0 => IF x.pos = FrameLen THEN y.pos = 1 ELSE y.pos = x.pos + 1 /\ y.ok = x.ok
    /\ gap > 0 /\ y.ok => y.pos = 1
    /\ gap < FrameLen => y.pos \in {x.pos + 1 + gap, x.pos + 1 + gap - FrameLen}

\* The places of what the driver holds, and of the byte that is sent next.
Placed(h) == /\ h \in Seq(Places) /\ Len(h) = Len(rx) + 1 /\ h[Len(h)] = Tip
             /\ \A i \in 1 .. Len(h) : h[i].seen <= lost
             /\ \A i \in 1 .. Len(rx) : Shows(h[i], rx[i]) /\ Follows(h[i], h[i + 1])

Bytes == Header \cup {"d"} \cup Footer
Types == /\ pattern \in Patterns /\ due \in 1 .. FrameLen /\ whole \in BOOLEAN
         /\ due = 1 => whole
         /\ rx \in Seq({"H", "h", "d"} \cup Footer) /\ Len(rx) <= BufSize
         /\ at \in {"search", "rest", "check", "handover"}
         /\ buf \in Seq(Bytes)
         /\ at = "search" => buf = <<>> \/ (Len(buf) = 1 /\ buf[1] \notin {"H", "h"})
         /\ at = "rest" => Len(buf) \in 1 .. FrameLen - 1
         /\ at \in {"check", "handover"} => Len(buf) = FrameLen
         /\ at = "handover" => buf[FrameLen] \in Footer
         /\ lost \in 0 .. MaxLost
         /\ misled \in BOOLEAN /\ missed \in 0 .. MaxLost + 1

\* As long as no data was taken for a header, no byte behind the header that
\* was found, up to the one at n which is read next, has been lost; or else a
\* loss is still to be paid for, and the rest of what is read has no footer of
\* a whole frame.
NoFooter(k) == \A i \in 1 .. k : buf[i] # "F"
Paid(n) ==
    misled \/ /\ missed <= n.seen
              /\ at = "search" /\ (n.pos # 1 \/ buf = <<"s">>) => missed < n.seen
              /\ at = "rest" => /\ NoFooter(Len(buf))
                                /\ \/ n.pos = Len(buf) + 1 /\ n.ok
                                   \/ missed < n.seen /\ (n.ok => n.pos <= Len(buf))
              /\ at = "check" => /\ NoFooter(FrameLen - 1)
                                 /\ \/ buf[FrameLen] = "F" /\ n.pos = 1
                                    \/ missed < n.seen
              /\ at = "handover" => n.pos = 1 \/ missed < n.seen

\* Counted from a header, the place of the next byte tells how many were lost,
\* when they are fewer than a frame has.
Plain(i, k) == \A j \in i .. k : buf[j] \notin Footer
Framed(n) ==
    buf # <<>> /\ buf[1] = "H" =>
        /\ at = "rest" => \E b \in 0 .. n.seen :
              /\ n.pos \in {Len(buf) + 1 + n.seen - b, Len(buf) + 1 + n.seen - b - FrameLen}
              /\ n.seen = b => n.ok /\ Plain(2, Len(buf))
        /\ at \in {"check", "handover"} /\ buf[FrameLen] \in Footer
              => buf[FrameLen] = "F" /\ Plain(2, FrameLen - 1)

Misled == misled => lost > 0

IInv == /\ Types /\ Misled
        /\ \E h \in Seq(Places) : Placed(h) /\ Paid(h[1]) /\ (MaxLost < FrameLen => Framed(h[1]))
-----------------------------------------------------------------------------
(* Types *)

LEMMA ConstantsAre == /\ FrameLen \in Nat /\ FrameLen > 2 /\ MaxLost \in Nat /\ BufSize \in Nat \ {0}
                      /\ \A p \in Patterns : p \subseteq 2 .. FrameLen - 1
  BY UartReceiveAssumption

LEMMA PlaceIs == ASSUME NEW x \in Places
                 PROVE  /\ x.pos \in 1 .. FrameLen /\ x.pos \in Nat /\ x.seen \in 0 .. MaxLost
                        /\ x.seen \in Nat /\ x.ok \in BOOLEAN /\ (x.pos = 1 => x.ok)
  BY ConstantsAre DEF Places

LEMMA TipIs == ASSUME Types PROVE Tip \in Places
  BY DEF Types, Tip, Places

LEMMA AdvanceIs ==
  ASSUME Types, NEW w \in BOOLEAN, Advance(w)
  PROVE  /\ pattern' \in Patterns /\ due' \in 1 .. FrameLen /\ whole' \in BOOLEAN
         /\ due' = 1 => whole'
         /\ IF due = FrameLen THEN due' = 1 ELSE due' = due + 1 /\ whole' = w
<1>1. due \in Nat /\ due >= 1 /\ due <= FrameLen
  BY ConstantsAre DEF Types
<1>2. CASE due = FrameLen
  BY <1>2, ConstantsAre DEF Advance
<1>3. CASE due # FrameLen
  BY <1>1, <1>3, ConstantsAre DEF Advance, Types
<1> QED BY <1>2, <1>3

LEMMA BytesTaken ==
  ASSUME Types, rx # <<>>
  PROVE  /\ Head(rx) = rx[1] /\ Head(rx) \in {"H", "h", "d"} \cup Footer /\ Head(rx) \in Bytes
         /\ Tail(rx) \in Seq({"H", "h", "d"} \cup Footer) /\ Len(Tail(rx)) <= BufSize
         /\ Len(rx) \in Nat \ {0} /\ Len(Tail(rx)) = Len(rx) - 1
<1>1. rx \in Seq({"H", "h", "d"} \cup Footer) /\ Len(rx) <= BufSize
  BY DEF Types
<1>2. Len(rx) \in Nat \ {0}
  BY <1>1, EmptySeq
<1>3. /\ Head(rx) \in {"H", "h", "d"} \cup Footer /\ Tail(rx) \in Seq({"H", "h", "d"} \cup Footer)
      /\ Len(Tail(rx)) = Len(rx) - 1
  BY <1>1, HeadTailProperties
<1>4. Head(rx) = rx[1]
  BY <1>1, <1>2
<1> QED BY <1>1, <1>2, <1>3, <1>4, ConstantsAre DEF Bytes, Header

\* The frames counted in a sequence of bytes.
LEMMA WholeIs == ASSUME NEW s \in Seq(Bytes)
                 PROVE  /\ Whole(s) \in Nat
                        /\ (\A i \in 1 .. Len(s) : s[i] # "F") => Whole(s) = 0
                        /\ Len(s) = 1 => Whole(s) <= 1
<1> DEFINE S == {i \in DOMAIN s : s[i] = "F"}
<1>1. IsFiniteSet(1 .. Len(s)) /\ DOMAIN s = 1 .. Len(s)
  BY FS_Interval
<1>2. IsFiniteSet(S) /\ Cardinality(S) \in Nat
  BY <1>1, FS_Subset, FS_CardinalityType
<1>3. ASSUME \A i \in 1 .. Len(s) : s[i] # "F" PROVE Cardinality(S) = 0
  BY <1>1, <1>2, <1>3, FS_EmptySet
<1>4. ASSUME Len(s) = 1 PROVE Cardinality(S) <= 1
  <2>1. IsFiniteSet({1}) /\ Cardinality({1}) = 1 /\ S \subseteq {1}
    BY <1>1, <1>4, FS_Singleton
  <2> QED BY <2>1, FS_Subset
<1> QED BY <1>2, <1>3, <1>4 DEF Whole

LEMMA MissIs == ASSUME Types, NEW s \in Seq(Bytes), Miss(s)
                PROVE  /\ missed' \in 0 .. MaxLost + 1 /\ missed' <= missed + Whole(s)
                       /\ Whole(s) = 0 => missed' = missed
<1>1. Whole(s) \in Nat /\ missed \in 0 .. MaxLost + 1
  BY WholeIs DEF Types
<1>2. missed' = IF missed + Whole(s) > MaxLost THEN MaxLost + 1 ELSE missed + Whole(s)
  BY DEF Miss
<1> QED BY <1>1, <1>2, ConstantsAre

LEMMA SendTypes == ASSUME Types, SendByte PROVE Types'
<1>1. Byte \in {"H", "h", "d"} \cup Footer
  BY DEF Byte, Footer
<1>2. rx' \in Seq({"H", "h", "d"} \cup Footer) /\ Len(rx') <= BufSize
  <2>1. rx' = Append(rx, Byte) /\ Len(rx) < BufSize /\ rx \in Seq({"H", "h", "d"} \cup Footer)
    BY DEF SendByte, Types
  <2>2. Len(rx') = Len(rx) + 1 /\ rx' \in Seq({"H", "h", "d"} \cup Footer)
    BY <1>1, <2>1, AppendProperties
  <2> QED BY <2>1, <2>2, ConstantsAre
<1>3. Advance(whole) /\ whole \in BOOLEAN /\ UNCHANGED <<at, buf, lost, misled, missed>>
  BY DEF SendByte, Types
<1> QED BY <1>2, <1>3, AdvanceIs DEF Types

LEMMA LoseTypes == ASSUME Types, LoseByte PROVE Types'
<1>1. Advance(FALSE) /\ UNCHANGED <<rx, at, buf, misled, missed>>
  BY DEF LoseByte
<1>2. lost' \in 0 .. MaxLost
  BY ConstantsAre DEF LoseByte, Types
<1> QED BY <1>1, <1>2, AdvanceIs DEF Types

LEMMA SearchTypes == ASSUME Types, Search PROVE Types'
<1> DEFINE b == Head(rx)
<1>1. /\ rx # <<>> /\ buf' = <<b>> /\ rx' = Tail(rx) /\ Miss(<<b>>)
      /\ at' = IF b \in Header THEN "rest" ELSE "search"
      /\ misled' = (misled \/ b = "h") /\ UNCHANGED <<lineVars, lost>>
  BY DEF Search
<1>2. /\ b \in Bytes /\ rx' \in Seq({"H", "h", "d"} \cup Footer) /\ Len(rx') <= BufSize
  BY <1>1, BytesTaken
<1> HIDE DEF b
<1>3. <<b>> \in Seq(Bytes) /\ Len(<<b>>) = 1 /\ <<b>>[1] = b /\ <<b>> # <<>>
  BY <1>2
<1>4. missed' \in 0 .. MaxLost + 1
  BY <1>1, <1>3, MissIs
<1>5. misled' \in BOOLEAN
  BY <1>1 DEF Types
<1>6. 1 \in 1 .. FrameLen - 1
  BY ConstantsAre
<1>7. CASE b \in Header
  BY <1>1, <1>2, <1>3, <1>4, <1>5, <1>6, <1>7 DEF Types, lineVars
<1>8. CASE b \notin Header
  BY <1>1, <1>2, <1>3, <1>4, <1>5, <1>8 DEF Types, lineVars, Header
<1> QED BY <1>7, <1>8

LEMMA SearchTimeoutTypes == ASSUME Types, SearchTimeout PROVE Types'
<1>1. Len(buf) = 1 /\ 1 \in 1 .. FrameLen - 1
  BY ConstantsAre DEF SearchTimeout, Types
<1>2. at' = "rest" /\ UNCHANGED <<lineVars, rx, buf, lost, misled, missed>>
  BY DEF SearchTimeout
<1> QED BY <1>1, <1>2 DEF Types, lineVars

LEMMA ReadRestTypes == ASSUME Types, ReadRest PROVE Types'
<1> DEFINE b == Head(rx)
<1>1. /\ at = "rest" /\ rx # <<>> /\ buf' = Append(buf, b) /\ rx' = Tail(rx)
      /\ at' = IF Len(buf') = FrameLen THEN "check" ELSE "rest"
      /\ UNCHANGED <<lineVars, lost, misled, missed>>
  BY DEF ReadRest
<1>2. b \in Bytes /\ rx' \in Seq({"H", "h", "d"} \cup Footer) /\ Len(rx') <= BufSize
  BY <1>1, BytesTaken
<1> HIDE DEF b
<1>3. buf \in Seq(Bytes) /\ Len(buf) \in 1 .. FrameLen - 1
  BY <1>1 DEF Types
<1>4. buf' \in Seq(Bytes) /\ Len(buf') = Len(buf) + 1
  BY <1>1, <1>2, <1>3, AppendProperties
<1>5. CASE Len(buf') = FrameLen
  BY <1>1, <1>2, <1>4, <1>5 DEF Types, lineVars
<1>6. CASE Len(buf') # FrameLen
  <2>1. Len(buf') \in 1 .. FrameLen - 1
    BY <1>3, <1>4, <1>6, ConstantsAre
  <2> QED BY <1>1, <1>2, <1>4, <1>6, <2>1 DEF Types, lineVars
<1> QED BY <1>5, <1>6

LEMMA StartsOver == <<"s">> \in Seq(Bytes) /\ Len(<<"s">>) = 1 /\ <<"s">>[1] = "s"
  BY DEF Bytes, Header

LEMMA RestTimeoutTypes == ASSUME Types, RestTimeout PROVE Types'
<1>1. /\ at' = "search" /\ buf' = <<"s">> /\ UNCHANGED <<lineVars, rx, lost, misled, missed>>
  BY DEF RestTimeout
<1> QED BY <1>1, StartsOver DEF Types, lineVars

\* What the footer is looked for in.
LEMMA CheckIs == ASSUME Types, Check
                 PROVE  /\ at = "check" /\ buf \in Seq(Bytes) /\ Len(buf) = FrameLen
                        /\ Last(buf) = buf[FrameLen] /\ UNCHANGED <<lineVars, rx, lost, misled>>
                        /\ Front(buf) \in Seq(Bytes) /\ Len(Front(buf)) = FrameLen - 1
                        /\ \A i \in 1 .. FrameLen - 1 : Front(buf)[i] = buf[i]
<1>1. at = "check" /\ UNCHANGED <<lineVars, rx, lost, misled>>
  BY DEF Check
<1>2. buf \in Seq(Bytes) /\ Len(buf) = FrameLen
  BY <1>1 DEF Types
<1>3. \A i \in 1 .. FrameLen - 1 : buf[i] \in Bytes
  <2>1. \A i \in 1 .. FrameLen - 1 : i \in 1 .. Len(buf)
    BY <1>2, ConstantsAre
  <2> QED BY <1>2, <2>1
<1>4. /\ SubSeq(buf, 1, FrameLen - 1) \in Seq(Bytes)
      /\ Len(SubSeq(buf, 1, FrameLen - 1)) = IF 1 <= FrameLen - 1 THEN FrameLen - 1 - 1 + 1 ELSE 0
      /\ \A i \in 1 .. FrameLen - 1 - 1 + 1 : SubSeq(buf, 1, FrameLen - 1)[i] = buf[1 + i - 1]
  BY <1>3, ConstantsAre, SubSeqProperties
<1>5. Front(buf) = SubSeq(buf, 1, FrameLen - 1) /\ Last(buf) = buf[FrameLen]
  BY <1>2 DEF Front, Last
<1> QED BY <1>1, <1>2, <1>4, <1>5, ConstantsAre

LEMMA CheckTypes == ASSUME Types, Check PROVE Types'
<1>1. CASE buf[FrameLen] \in Footer
  <2>1. at' = "handover" /\ UNCHANGED buf /\ Miss(Front(buf))
    BY <1>1, CheckIs DEF Check
  <2>2. missed' \in 0 .. MaxLost + 1
    BY <2>1, CheckIs, MissIs
  <2> QED BY <1>1, <2>1, <2>2, CheckIs DEF Types, lineVars
<1>2. CASE buf[FrameLen] \notin Footer
  <2>1. at' = "search" /\ buf' = <<"s">> /\ Miss(buf)
    BY <1>2, CheckIs DEF Check
  <2>2. missed' \in 0 .. MaxLost + 1
    BY <2>1, CheckIs, MissIs
  <2> QED BY <2>1, <2>2, CheckIs, StartsOver DEF Types, lineVars
<1> QED BY <1>1, <1>2

LEMMA HandOverTypes == ASSUME Types, HandOver PROVE Types'
<1>1. at' = "search" /\ buf' = <<>> /\ UNCHANGED <<lineVars, rx, lost, misled, missed>>
  BY DEF HandOver
<1>2. <<>> \in Seq(Bytes)
  BY EmptySeq
<1> QED BY <1>1, <1>2 DEF Types, lineVars
-----------------------------------------------------------------------------
(* The places of the bytes on the line *)

LEMMA PlacedIs == ASSUME Types, NEW h, Placed(h)
                  PROVE  /\ h \in Seq(Places) /\ Len(h) \in Nat \ {0} /\ Len(h) = Len(rx) + 1
                         /\ h[1] \in Places /\ Len(rx) \in Nat
                         /\ h[1].seen <= lost /\ (rx = <<>> => h[1] = Tip)
<1>1. Len(rx) \in Nat /\ h \in Seq(Places) /\ Len(h) = Len(rx) + 1
  BY DEF Types, Placed
<1>2. 1 \in 1 .. Len(h)
  BY <1>1
<1>3. rx = <<>> => Len(h) = 1
  BY <1>1
<1> QED BY <1>1, <1>2, <1>3 DEF Placed

LEMMA TipSent == ASSUME Types, SendByte PROVE Shows(Tip, Byte) /\ Follows(Tip, Tip')
<1>1. due \in 1 .. FrameLen /\ lost \in Nat /\ whole \in BOOLEAN /\ (due = 1 => whole)
  BY ConstantsAre DEF Types
<1>2. Shows(Tip, Byte)
  <2>1. due = 1 => Byte = "H"
    BY ConstantsAre DEF Byte
  <2>2. due = FrameLen => Byte = IF whole THEN "F" ELSE "f"
    BY ConstantsAre DEF Byte
  <2>3. due \in 2 .. FrameLen - 1 => Byte \in {"h", "d"}
    BY ConstantsAre DEF Byte
  <2> QED BY <2>1, <2>2, <2>3 DEF Shows, Tip
<1>3. IF due = FrameLen THEN due' = 1 ELSE due' = due + 1 /\ whole' = whole
  BY <1>1, AdvanceIs DEF SendByte
<1>4. lost' = lost
  BY DEF SendByte
<1>5. Follows(Tip, Tip')
  <2>1. lost' - lost = 0
    BY <1>1, <1>4
  <2>2. due' \in {due + 1 + 0, due + 1 + 0 - FrameLen}
    BY <1>1, <1>3, ConstantsAre
  <2> QED BY <1>3, <2>1, <2>2 DEF Follows, Tip
<1> QED BY <1>2, <1>5

\* A byte that is lost moves the place of the next one.
Skips(y, z) == /\ z.seen = y.seen + 1 /\ (z.ok => z.pos = 1)
               /\ z.pos = IF y.pos = FrameLen THEN 1 ELSE y.pos + 1

LEMMA TipSkips == ASSUME Types, LoseByte PROVE Skips(Tip, Tip') /\ Tip' \in Places
<1>1. Advance(FALSE) /\ lost' = lost + 1
  BY DEF LoseByte
<1>2. due' = IF due = FrameLen THEN 1 ELSE due + 1
  BY <1>1, AdvanceIs
<1>3. whole' => due' = 1
  BY <1>1, AdvanceIs
<1>4. Tip' \in Places
  <2>1. Types'
    BY LoseTypes
  <2> QED BY <2>1 DEF Types, Tip, Places
<1> QED BY <1>1, <1>2, <1>3, <1>4 DEF Skips, Tip

LEMMA SkipsFollows ==
  ASSUME NEW x \in Places, NEW y \in Places, NEW z \in Places, Follows(x, y), Skips(y, z)
  PROVE  Follows(x, z)
<1> DEFINE g == y.seen - x.seen
           k == z.seen - x.seen
<1>1. /\ x.pos \in 1 .. FrameLen /\ y.pos \in 1 .. FrameLen /\ z.pos \in 1 .. FrameLen
      /\ x.seen \in Nat /\ y.seen \in Nat /\ z.seen \in Nat
  BY PlaceIs
<1>2. /\ g >= 0 /\ (g < FrameLen => y.pos \in {x.pos + 1 + g, x.pos + 1 + g - FrameLen})
  BY DEF Follows
<1>3. k = g + 1 /\ g \in Int
  BY <1>1 DEF Skips
<1> HIDE DEF g, k
<1>4. k > 0 /\ k >= 0 /\ k # 0
  BY <1>2, <1>3
<1>5. k < FrameLen => z.pos \in {x.pos + 1 + k, x.pos + 1 + k - FrameLen}
  BY <1>1, <1>2, <1>3, ConstantsAre DEF Skips
<1> QED BY <1>4, <1>5 DEF Follows, Skips, k

\* A byte is sent: nothing changes for the one that is read next.
LEMMA SendPlaced == ASSUME Types, NEW h, Placed(h), SendByte
                    PROVE  \E g \in Seq(Places) : Placed(g)' /\ g[1] = h[1]
<1>1. PICK z : z = Tip'
  OBVIOUS
<1>2. z \in Places
  <2>1. Types'
    BY SendTypes
  <2> QED BY <1>1, <2>1 DEF Types, Tip, Places
<1> DEFINE g == Append(h, z)
           n == Len(h)
<1>3. h \in Seq(Places) /\ n \in Nat \ {0} /\ n = Len(rx) + 1 /\ Len(rx) \in Nat
  BY PlacedIs
<1>4. /\ g \in Seq(Places) /\ Len(g) = n + 1 /\ g[n + 1] = z
      /\ \A i \in 1 .. n : g[i] = h[i]
  BY <1>2, <1>3, AppendProperties
<1> HIDE DEF g, n
<1>5. /\ Len(rx') = n /\ rx'[n] = Byte /\ \A i \in 1 .. Len(rx) : rx'[i] = rx[i]
  <2>1. rx' = Append(rx, Byte) /\ rx \in Seq({"H", "h", "d"} \cup Footer)
    BY DEF SendByte, Types
  <2>2. Byte \in {"H", "h", "d"} \cup Footer
    BY DEF Byte, Footer
  <2> QED BY <1>3, <2>1, <2>2, AppendProperties
<1>6. h[n] = Tip /\ \A i \in 1 .. Len(rx) : Shows(h[i], rx[i]) /\ Follows(h[i], h[i + 1])
  BY DEF Placed, n
<1>7. ASSUME NEW i \in 1 .. n PROVE Shows(g[i], rx'[i]) /\ Follows(g[i], g[i + 1])
  <2>1. CASE i = n
    <3>1. g[i] = Tip /\ g[i + 1] = Tip'
      BY <1>1, <1>3, <1>4, <1>6, <2>1
    <3> QED BY <1>5, <2>1, <3>1, TipSent
  <2>2. CASE i # n
    <3>1. i \in 1 .. Len(rx) /\ i + 1 \in 1 .. n
      BY <1>3, <2>2
    <3> QED BY <1>4, <1>5, <1>6, <3>1
  <2> QED BY <2>1, <2>2
<1>8. Placed(g)'
  <2>1. \A i \in 1 .. n + 1 : g[i].seen <= lost'
    <3>1. lost' = lost /\ z.seen = lost /\ lost \in Nat
      BY <1>1, ConstantsAre DEF SendByte, Types, Tip
    <3>2. \A i \in 1 .. n : g[i].seen <= lost
      BY <1>4 DEF Placed, n
    <3> QED BY <1>3, <1>4, <3>1, <3>2
  <2> QED BY <1>1, <1>4, <1>5, <1>7, <2>1 DEF Placed
<1>9. g[1] = h[1]
  BY <1>3, <1>4
<1> QED BY <1>4, <1>8, <1>9

\* A byte is lost: that is the one read next if no other is waiting.
LEMMA LosePlaced == ASSUME Types, NEW h, Placed(h), LoseByte
                    PROVE  \E g \in Seq(Places) : /\ Placed(g)'
                                                  /\ g[1] = h[1] \/ Skips(h[1], g[1])
<1>1. PICK z \in Places : z = Tip' /\ Skips(Tip, z)
  BY TipSkips
<1> DEFINE n == Len(h)
           g == [h EXCEPT ![n] = z]
<1>2. h \in Seq(Places) /\ n \in Nat \ {0} /\ n = Len(rx) + 1 /\ Len(rx) \in Nat
  BY PlacedIs
<1>3. /\ g \in Seq(Places) /\ Len(g) = n /\ g[n] = z
      /\ \A i \in 1 .. n : i # n => g[i] = h[i]
  BY <1>1, <1>2
<1> HIDE DEF g
<1>4. rx' = rx
  BY DEF LoseByte
<1>5. h[n] = Tip /\ \A i \in 1 .. Len(rx) : Shows(h[i], rx[i]) /\ Follows(h[i], h[i + 1])
  BY DEF Placed
<1> HIDE DEF n
<1>6. ASSUME NEW i \in 1 .. Len(rx) PROVE Shows(g[i], rx[i]) /\ Follows(g[i], g[i + 1])
  <2>1. i \in 1 .. n /\ i # n /\ i + 1 \in 1 .. n /\ g[i] = h[i] /\ h[i] \in Places
    BY <1>2, <1>3 DEF n
  <2>2. CASE i + 1 = n
    <3>1. Tip \in Places /\ Follows(h[i], Tip)
      BY <1>5, <2>2, TipIs
    <3> QED BY <1>1, <1>3, <1>5, <2>1, <2>2, <3>1, SkipsFollows
  <2>3. CASE i + 1 # n
    BY <1>3, <1>5, <2>1, <2>3
  <2> QED BY <2>2, <2>3
<1>7. Placed(g)'
  <2>1. \A i \in 1 .. n : g[i].seen <= lost'
    <3>1. lost' = lost + 1 /\ z.seen = lost' /\ lost \in Nat
      BY <1>1, ConstantsAre DEF LoseByte, Types, Tip
    <3>2. ASSUME NEW i \in 1 .. n, i # n PROVE g[i].seen <= lost'
      <4>1. h[i] \in Places /\ h[i].seen <= lost /\ g[i] = h[i]
        BY <1>2, <1>3, <3>2 DEF Placed, n
      <4>2. h[i].seen \in Nat
        BY <4>1, PlaceIs
      <4> QED BY <3>1, <4>1, <4>2
    <3> QED BY <1>3, <3>1, <3>2
  <2> QED BY <1>1, <1>2, <1>3, <1>4, <1>6, <2>1 DEF Placed
<1>8. g[1] = h[1] \/ Skips(h[1], g[1])
  <2>1. CASE n = 1
    BY <1>1, <1>3, <1>5, <2>1
  <2>2. CASE n # 1
    BY <1>2, <1>3, <2>2
  <2> QED BY <2>1, <2>2
<1> QED BY <1>3, <1>7, <1>8

\* A byte is read: the one after it is next.
LEMMA TakePlaced ==
  ASSUME Types, NEW h, Placed(h), rx # <<>>, rx' = Tail(rx), UNCHANGED <<lineVars, lost>>
  PROVE  \E g \in Seq(Places) : Placed(g)' /\ Shows(h[1], Head(rx)) /\ Follows(h[1], g[1])
<1> DEFINE n == Len(rx)
           g == Tail(h)
<1>1. h \in Seq(Places) /\ Len(h) = n + 1 /\ n \in Nat \ {0} /\ h # <<>>
  <2>1. h \in Seq(Places) /\ Len(h) = n + 1 /\ n \in Nat \ {0}
    BY PlacedIs, BytesTaken
  <2> QED BY <2>1, EmptySeq
<1>2. /\ g \in Seq(Places) /\ Len(g) = n /\ \A i \in 1 .. n : g[i] = h[i + 1]
  BY <1>1, HeadTailProperties
<1>3. Len(rx') = n - 1 /\ \A i \in 1 .. n - 1 : rx'[i] = rx[i + 1]
  BY BytesTaken, HeadTailProperties DEF Types
<1>4. /\ h[n + 1] = Tip
      /\ \A i \in 1 .. n : Shows(h[i], rx[i]) /\ Follows(h[i], h[i + 1])
  BY <1>1 DEF Placed
<1> HIDE DEF n, g
<1>5. ASSUME NEW i \in 1 .. n - 1 PROVE Shows(g[i], rx'[i]) /\ Follows(g[i], g[i + 1])
  <2>1. i \in 1 .. n /\ i + 1 \in 1 .. n
    BY <1>1
  <2> QED BY <1>2, <1>3, <1>4, <2>1
<1>6. g[n] = Tip'
  <2>1. Tip' = Tip
    BY DEF Tip, lineVars
  <2>2. n \in 1 .. n
    BY <1>1
  <2> QED BY <1>2, <1>4, <2>1, <2>2
<1>7. Placed(g)'
  <2>1. Len(g) = Len(rx') + 1
    BY <1>1, <1>2, <1>3
  <2>2. \A i \in 1 .. n : g[i].seen <= lost
    <3>1. \A i \in 1 .. n : i + 1 \in 1 .. Len(h)
      BY <1>1
    <3> QED BY <1>2, <3>1 DEF Placed
  <2> QED BY <1>2, <1>3, <1>5, <1>6, <2>1, <2>2 DEF Placed
<1>8. Shows(h[1], Head(rx)) /\ Follows(h[1], g[1])
  <2>1. 1 \in 1 .. n /\ 1 + 1 = 2
    BY <1>1
  <2> QED BY <1>2, <1>4, <2>1, BytesTaken
<1> QED BY <1>2, <1>7, <1>8

\* The other steps of the receiver leave the line alone.
LEMMA SamePlaced == ASSUME NEW h, Placed(h), UNCHANGED <<lineVars, rx, lost>> PROVE Placed(h)'
  BY DEF Placed, Tip, lineVars
-----------------------------------------------------------------------------
(* What a loss costs *)

LEMMA LosePaid ==
  ASSUME Types, LoseByte, NEW x \in Places, NEW y \in Places, Skips(x, y), Paid(x)
  PROVE  Paid(y)'
<1>1. UNCHANGED <<at, buf, misled, missed>>
  BY DEF LoseByte
<1>2. CASE misled
  BY <1>1, <1>2 DEF Paid
<1>3. CASE ~misled
  <2>1. missed < y.seen /\ missed <= y.seen
    <3>1. missed <= x.seen
      BY <1>3 DEF Paid
    <3>2. missed \in Nat /\ x.seen \in Nat /\ y.seen = x.seen + 1
      BY PlaceIs, ConstantsAre DEF Types, Skips
    <3> QED BY <3>1, <3>2
  <2>2. at = "rest" => (y.ok => y.pos <= Len(buf))
    <3>1. at = "rest" => Len(buf) \in 1 .. FrameLen - 1
      BY DEF Types
    <3>2. y.ok => y.pos = 1
      BY DEF Skips
    <3> QED BY <3>1, <3>2, ConstantsAre
  <2>3. Paid(y)
    BY <1>3, <2>1, <2>2 DEF Paid
  <2> QED BY <1>1, <2>3 DEF Paid, NoFooter
<1> QED BY <1>2, <1>3

\* A header begins a frame; anything else in the search is the rest of a frame
\* that was lost, at most one footer of it.
LEMMA SearchPaid ==
  ASSUME Types, Misled, Search, NEW x \in Places, NEW y \in Places, Shows(x, Head(rx)),
         Follows(x, y), x.seen <= lost, Paid(x)
  PROVE  Paid(y)' /\ Misled'
<1> DEFINE b == Head(rx)
<1>1. /\ at = "search" /\ rx # <<>> /\ buf' = <<b>> /\ Miss(<<b>>)
      /\ at' = IF b \in Header THEN "rest" ELSE "search"
      /\ misled' = (misled \/ b = "h") /\ lost' = lost
  BY DEF Search
<1>2. b \in {"H", "h", "d"} \cup Footer /\ b \in Bytes
  BY <1>1, BytesTaken
<1>3. /\ x.pos \in 1 .. FrameLen /\ y.pos \in 1 .. FrameLen /\ x.pos \in Nat /\ y.pos \in Nat
      /\ x.seen \in Nat /\ y.seen \in Nat /\ missed \in Nat /\ lost \in Nat
  BY PlaceIs, ConstantsAre DEF Types
<1>4. Shows(x, b)
  OBVIOUS
<1> HIDE DEF b
<1>5. b = "H" <=> x.pos = 1
  BY <1>3, <1>4, ConstantsAre DEF Shows
<1>6. CASE misled
  BY <1>1, <1>6 DEF Paid, Misled
<1>7. CASE ~misled /\ b = "h"
  <2>1. missed < x.seen
    BY <1>1, <1>5, <1>7 DEF Paid
  <2>2. lost > 0
    BY <1>3, <2>1
  <2> QED BY <1>1, <1>7, <2>2 DEF Paid, Misled
<1>8. CASE ~misled /\ b # "h"
  <2>1. missed <= x.seen /\ (x.pos # 1 => missed < x.seen) /\ ~misled'
    BY <1>1, <1>8 DEF Paid
  <2>2. <<b>> \in Seq(Bytes) /\ Len(<<b>>) = 1 /\ <<b>>[1] = b
    BY <1>2
  <2>3. missed' \in Nat /\ missed' <= missed + 1 /\ (b # "F" => missed' = missed)
    <3>1. /\ missed' \in 0 .. MaxLost + 1 /\ missed' <= missed + Whole(<<b>>)
          /\ Whole(<<b>>) = 0 => missed' = missed
      BY <1>1, <2>2, MissIs
    <3>2. Whole(<<b>>) \in Nat /\ Whole(<<b>>) <= 1 /\ (b # "F" => Whole(<<b>>) = 0)
      <4>1. PICK s \in Seq(Bytes) : s = <<b>> /\ Len(s) = 1 /\ s[1] = b
        BY <2>2
      <4>2. b # "F" => \A i \in 1 .. Len(s) : s[i] # "F"
        BY <4>1
      <4>3. Whole(s) \in Nat /\ Whole(s) <= 1 /\ (b # "F" => Whole(s) = 0)
        BY <4>1, <4>2, WholeIs
      <4> QED BY <4>1, <4>3
    <3> QED BY <1>3, <3>1, <3>2, ConstantsAre
  <2>4. y.seen >= x.seen /\ (y.seen - x.seen = 0 <=> y.seen = x.seen)
    BY <1>3 DEF Follows
  <2>5. CASE b = "H"
    <3>1. x.pos = 1 /\ x.ok /\ missed' = missed /\ at' = "rest" /\ Len(buf') = 1 /\ buf'[1] = "H"
      BY <1>1, <1>5, <2>2, <2>3, <2>5, PlaceIs DEF Header
    <3>2. NoFooter(Len(buf))'
      BY <3>1 DEF NoFooter
    <3>3. missed' <= y.seen
      BY <1>3, <2>1, <2>4, <3>1
    <3>4. CASE y.seen = x.seen
      <4>1. y.pos = 2 /\ y.ok
        <5>1. y.pos = x.pos + 1 /\ y.ok = x.ok
          <6>1. x.pos # FrameLen
            BY <3>1, ConstantsAre
          <6> QED BY <2>4, <3>4, <6>1 DEF Follows
        <5> QED BY <3>1, <5>1
      <4> QED BY <3>1, <3>2, <3>3, <4>1, <2>1, <1>1 DEF Paid, Misled
    <3>5. CASE y.seen # x.seen
      <4>1. missed' < y.seen
        BY <1>3, <2>1, <2>4, <3>1, <3>5
      <4>2. y.ok => y.pos <= 1
        BY <1>3, <2>4, <3>5 DEF Follows
      <4> QED BY <3>1, <3>2, <3>3, <4>1, <4>2, <2>1, <1>1 DEF Paid, Misled
    <3> QED BY <3>4, <3>5
  <2>6. CASE b # "H"
    <3>1. missed < x.seen /\ at' = "search" /\ buf' # <<"s">>
      BY <1>1, <1>2, <1>5, <1>8, <2>1, <2>6 DEF Header, Footer
    <3>2. missed' <= y.seen
      BY <1>3, <2>3, <2>4, <3>1
    <3>3. y.pos # 1 => missed' < y.seen
      <4>1. CASE y.seen = x.seen
        <5>1. y.pos # 1 => x.pos # FrameLen
          BY <2>4, <4>1 DEF Follows
        <5>2. x.pos # FrameLen => b # "F"
          BY <1>3, <1>4, ConstantsAre DEF Shows
        <5> QED BY <1>3, <2>3, <3>1, <4>1, <5>1, <5>2
      <4>2. CASE y.seen # x.seen
        BY <1>3, <2>3, <2>4, <3>1, <4>2
      <4> QED BY <4>1, <4>2
    <3> QED BY <3>1, <3>2, <3>3, <1>1, <2>1 DEF Paid, Misled
  <2> QED BY <2>5, <2>6
<1> QED BY <1>2, <1>6, <1>7, <1>8

LEMMA SearchTimeoutPaid ==
  ASSUME Types, SearchTimeout, NEW x \in Places, x = Tip, Paid(x)
  PROVE  Paid(x)'
<1>1. /\ at = "search" /\ due = 1 /\ buf # <<>> /\ Head(buf) \in Header /\ at' = "rest"
      /\ UNCHANGED <<buf, misled, missed>>
  BY DEF SearchTimeout, Quiet
<1>2. Len(buf) = 1 /\ buf[1] = "s" /\ buf = <<"s">>
  <2>1. buf \in Seq(Bytes) /\ Len(buf) = 1 /\ buf[1] \notin {"H", "h"}
    BY <1>1 DEF Types
  <2>2. Head(buf) = buf[1] /\ buf = <<buf[1]>>
    BY <2>1
  <2> QED BY <1>1, <2>1, <2>2 DEF Header
<1>3. x.pos = 1 /\ (~misled => missed < x.seen /\ missed <= x.seen)
  BY <1>1, <1>2 DEF Paid, Tip
<1> QED BY <1>1, <1>2, <1>3 DEF Paid, NoFooter

\* The receiver reads on; a loss on the way has it read beyond its frame.
LEMMA ReadRestPaid ==
  ASSUME Types, ReadRest, NEW x \in Places, NEW y \in Places, Shows(x, Head(rx)),
         Follows(x, y), Paid(x)
  PROVE  Paid(y)'
<1> DEFINE b == Head(rx)
           k == Len(buf)
<1>1. /\ at = "rest" /\ rx # <<>> /\ buf' = Append(buf, b) /\ UNCHANGED <<misled, missed>>
      /\ at' = IF Len(buf') = FrameLen THEN "check" ELSE "rest"
  BY DEF ReadRest
<1>2. buf \in Seq(Bytes) /\ k \in 1 .. FrameLen - 1 /\ k \in Nat
  BY <1>1, ConstantsAre DEF Types
<1>3. Len(buf') = k + 1 /\ buf'[k + 1] = b /\ \A i \in 1 .. k : buf'[i] = buf[i]
  <2>1. b \in Bytes
    BY <1>1, BytesTaken
  <2> QED BY <1>1, <1>2, <2>1, AppendProperties
<1>4. /\ x.pos \in 1 .. FrameLen /\ y.pos \in 1 .. FrameLen /\ x.pos \in Nat /\ y.pos \in Nat
      /\ x.seen \in Nat /\ y.seen \in Nat /\ missed \in Nat
  BY PlaceIs, ConstantsAre DEF Types
<1>5. Shows(x, b)
  OBVIOUS
<1>6. CASE misled
  BY <1>1, <1>6 DEF Paid
<1>7. CASE ~misled
  <2>1. missed <= x.seen /\ NoFooter(k)
    BY <1>1, <1>7 DEF Paid
  <2>2. \/ x.pos = k + 1 /\ x.ok
        \/ missed < x.seen /\ (x.ok => x.pos <= k)
    BY <1>1, <1>7 DEF Paid
  <2> HIDE DEF b, k
  <2>3. y.seen >= x.seen /\ (y.seen - x.seen = 0 <=> y.seen = x.seen)
    BY <1>4 DEF Follows
  <2>4. missed <= y.seen /\ (y.seen # x.seen => missed < y.seen)
    BY <1>4, <2>1, <2>3
  <2>5. b = "F" => k + 1 = FrameLen
    <3>1. b = "F" => x.pos = FrameLen /\ x.ok
      BY <1>4, <1>5, ConstantsAre DEF Shows
    <3>2. x.pos = FrameLen /\ x.ok => k + 1 = FrameLen
      BY <1>2, <2>2, ConstantsAre
    <3> QED BY <3>1, <3>2
  <2>6. CASE k + 1 = FrameLen
    <3>1. at' = "check" /\ FrameLen - 1 = k
      BY <1>1, <1>2, <1>3, <2>6
    <3>2. NoFooter(FrameLen - 1)'
      BY <1>3, <2>1, <3>1 DEF NoFooter
    <3>3. \/ buf'[FrameLen] = "F" /\ y.pos = 1
          \/ missed < y.seen
      <4>1. CASE x.pos = k + 1 /\ x.ok /\ y.seen = x.seen
        <5>1. y.pos = 1
          BY <2>3, <2>6, <4>1 DEF Follows
        <5>2. b = "F"
          BY <1>5, <2>6, <4>1 DEF Shows
        <5> QED BY <1>3, <2>6, <5>1, <5>2
      <4>2. CASE missed < x.seen
        BY <1>4, <2>3, <4>2
      <4> QED BY <2>2, <2>4, <4>1, <4>2
    <3> QED BY <1>1, <2>4, <3>1, <3>2, <3>3 DEF Paid
  <2>7. CASE k + 1 # FrameLen
    <3>1. at' = "rest"
      BY <1>1, <1>3, <2>7
    <3>2. NoFooter(Len(buf))'
      <4>1. \A i \in 1 .. k + 1 : i \in 1 .. k \/ i = k + 1
        BY <1>2
      <4>2. \A i \in 1 .. k + 1 : buf'[i] # "F"
        BY <1>3, <2>1, <2>5, <2>7, <4>1 DEF NoFooter
      <4> QED BY <1>3, <4>2 DEF NoFooter
    <3>3. \/ y.pos = k + 1 + 1 /\ y.ok
          \/ missed < y.seen /\ (y.ok => y.pos <= k + 1)
      <4>1. CASE y.seen # x.seen
        <5>1. y.ok => y.pos = 1
          BY <1>4, <2>3, <4>1 DEF Follows
        <5> QED BY <1>2, <2>4, <4>1, <5>1
      <4>2. CASE y.seen = x.seen
        <5>1. IF x.pos = FrameLen THEN y.pos = 1 ELSE y.pos = x.pos + 1 /\ y.ok = x.ok
          BY <2>3, <4>2 DEF Follows
        <5>2. CASE x.pos = k + 1 /\ x.ok
          BY <1>2, <2>7, <5>1, <5>2, ConstantsAre
        <5>3. CASE missed < x.seen /\ (x.ok => x.pos <= k)
          BY <1>2, <1>4, <4>2, <5>1, <5>3, ConstantsAre
        <5> QED BY <2>2, <5>2, <5>3
      <4> QED BY <4>1, <4>2
    <3> QED BY <1>1, <1>3, <2>4, <3>1, <3>2, <3>3 DEF Paid
  <2> QED BY <2>6, <2>7
<1> QED BY <1>6, <1>7

LEMMA RestTimeoutPaid ==
  ASSUME Types, RestTimeout, NEW x \in Places, x = Tip, Paid(x)
  PROVE  Paid(x)'
<1>1. /\ at = "rest" /\ due = 1 /\ at' = "search" /\ UNCHANGED <<misled, missed>>
  BY DEF RestTimeout, Quiet
<1>2. x.pos = 1 /\ Len(buf) \in 1 .. FrameLen - 1
  BY <1>1 DEF Tip, Types
<1>3. x.pos # Len(buf) + 1
  BY <1>2, ConstantsAre
<1>4. ~misled => missed < x.seen /\ missed <= x.seen
  BY <1>1, <1>3 DEF Paid
<1> QED BY <1>1, <1>4 DEF Paid

LEMMA CheckPaid ==
  ASSUME Types, Check, NEW x \in Places, Paid(x)
  PROVE  Paid(x)'
<1>1. at = "check" /\ UNCHANGED misled
  BY DEF Check
<1>2. CASE misled
  BY <1>1, <1>2 DEF Paid
<1>3. CASE ~misled
  <2>1. /\ missed <= x.seen /\ \A i \in 1 .. FrameLen - 1 : buf[i] # "F"
        /\ \/ buf[FrameLen] = "F" /\ x.pos = 1
           \/ missed < x.seen
    BY <1>1, <1>3 DEF Paid, NoFooter
  <2>2. CASE buf[FrameLen] \in Footer
    <3>1. at' = "handover" /\ Miss(Front(buf))
      BY <2>2, CheckIs DEF Check
    <3>2. \A i \in 1 .. Len(Front(buf)) : Front(buf)[i] # "F"
      BY <2>1, CheckIs
    <3>3. missed' = missed
      BY <3>1, <3>2, CheckIs, WholeIs, MissIs
    <3> QED BY <1>1, <2>1, <3>1, <3>3 DEF Paid
  <2>3. CASE buf[FrameLen] \notin Footer
    <3>1. at' = "search" /\ Miss(buf)
      BY <2>3, CheckIs DEF Check
    <3>2. \A i \in 1 .. Len(buf) : buf[i] # "F"
      <4>1. \A i \in 1 .. FrameLen : i \in 1 .. FrameLen - 1 \/ i = FrameLen
        BY ConstantsAre
      <4> QED BY <2>1, <2>3, <4>1, CheckIs DEF Footer
    <3>3. missed' = missed
      BY <3>1, <3>2, CheckIs, WholeIs, MissIs
    <3>4. missed < x.seen
      BY <2>1, <2>3 DEF Footer
    <3> QED BY <1>1, <2>1, <3>1, <3>3, <3>4 DEF Paid
  <2> QED BY <2>2, <2>3
<1> QED BY <1>2, <1>3

LEMMA HandOverPaid == ASSUME HandOver, NEW x, Paid(x) PROVE Paid(x)'
<1>1. at = "handover" /\ at' = "search" /\ buf' = <<>> /\ UNCHANGED <<misled, missed>>
  BY DEF HandOver
<1>2. <<"s">> # <<>>
  OBVIOUS
<1> QED BY <1>1, <1>2 DEF Paid
-----------------------------------------------------------------------------
(* What a frame is put together from *)

LEMMA NextPlace ==
  ASSUME NEW p \in 1 .. FrameLen, NEW k \in 1 .. FrameLen - 1, NEW l \in 0 .. FrameLen - 1,
         NEW q, q = IF p = FrameLen THEN 1 ELSE p + 1,
         p = k + 1 + l \/ p = k + 1 + l - FrameLen
  PROVE  q = k + 1 + (l + 1) \/ q = k + 1 + (l + 1) - FrameLen
<1>1. FrameLen \in Nat
  BY ConstantsAre
<1>2. CASE p = FrameLen
  <2>1. k + 1 + l # FrameLen + FrameLen
    BY <1>1
  <2>2. k + 1 + l = FrameLen
    BY <1>1, <1>2, <2>1
  <2> QED BY <1>1, <1>2, <2>2
<1>3. CASE p # FrameLen
  BY <1>1, <1>3
<1> QED BY <1>2, <1>3

LEMMA LoseFramed ==
  ASSUME Types, MaxLost < FrameLen, LoseByte, NEW x \in Places, NEW y \in Places, Skips(x, y),
         Framed(x)
  PROVE  Framed(y)'
<1>1. UNCHANGED <<at, buf>>
  BY DEF LoseByte
<1>2. CASE ~(buf # <<>> /\ buf[1] = "H")
  BY <1>1, <1>2 DEF Framed
<1>3. CASE buf # <<>> /\ buf[1] = "H"
  <2>1. at \in {"check", "handover"} /\ buf[FrameLen] \in Footer
           => buf[FrameLen] = "F" /\ Plain(2, FrameLen - 1)
    BY <1>3 DEF Framed
  <2>2. CASE at = "rest"
    <3>1. PICK c \in 0 .. x.seen :
             /\ x.pos \in {Len(buf) + 1 + x.seen - c, Len(buf) + 1 + x.seen - c - FrameLen}
             /\ x.seen = c => x.ok /\ Plain(2, Len(buf))
      BY <1>3, <2>2 DEF Framed
    <3>2. PICK k \in 1 .. FrameLen - 1 : k = Len(buf)
      BY <2>2 DEF Types
    <3>3. /\ x.pos \in 1 .. FrameLen /\ x.seen \in Nat /\ y.seen = x.seen + 1
          /\ y.seen \in 0 .. MaxLost /\ y.pos = IF x.pos = FrameLen THEN 1 ELSE x.pos + 1
      BY PlaceIs DEF Skips
    <3>4. c \in 0 .. y.seen /\ y.seen # c
      BY <3>3
    <3>5. y.pos \in {k + 1 + y.seen - c, k + 1 + y.seen - c - FrameLen}
      <4>1. PICK l \in 0 .. FrameLen - 1 : l = x.seen - c
        BY <3>3, ConstantsAre
      <4>2. x.pos = k + 1 + l \/ x.pos = k + 1 + l - FrameLen
        BY <3>1, <3>2, <3>3, <4>1, ConstantsAre
      <4>3. y.pos = k + 1 + (l + 1) \/ y.pos = k + 1 + (l + 1) - FrameLen
        BY <3>3, <4>2, NextPlace
      <4>4. /\ k + 1 + y.seen - c = k + 1 + (l + 1)
            /\ k + 1 + y.seen - c - FrameLen = k + 1 + (l + 1) - FrameLen
        BY <3>3, <4>1, ConstantsAre
      <4> QED BY <4>3, <4>4
    <3> QED BY <1>1, <2>2, <3>2, <3>4, <3>5 DEF Framed
  <2>3. CASE at # "rest"
    BY <1>1, <2>1, <2>3 DEF Framed, Plain
  <2> QED BY <2>2, <2>3
<1> QED BY <1>2, <1>3

\* The header of a frame: from here on the lost bytes count.
LEMMA SearchFramed ==
  ASSUME Types, MaxLost < FrameLen, Search, NEW x \in Places, NEW y \in Places,
         Shows(x, Head(rx)), Follows(x, y)
  PROVE  Framed(y)'
<1>1. PICK b \in Bytes : b = Head(rx)
  BY BytesTaken DEF Search
<1>2. PICK s \in Seq(Bytes) : s = <<b>> /\ Len(s) = 1 /\ s[1] = b
  <2>1. <<b>> \in Seq(Bytes) /\ Len(<<b>>) = 1 /\ <<b>>[1] = b
    BY <1>1
  <2> QED BY <2>1
<1>3. buf' = s /\ (b = "H" => at' = "rest") /\ at' \notin {"check", "handover"}
  BY <1>1, <1>2 DEF Search, Header
<1>4. CASE b # "H"
  BY <1>2, <1>3, <1>4 DEF Framed
<1>5. CASE b = "H"
  <2>1. /\ x.pos \in 1 .. FrameLen /\ x.seen \in Nat /\ y.pos \in 1 .. FrameLen
        /\ y.seen \in 0 .. MaxLost /\ y.seen \in Nat /\ (x.pos = 1 => x.ok)
    BY PlaceIs
  <2>2. x.pos = 1 /\ x.ok /\ x.pos # FrameLen
    BY <1>1, <1>5, <2>1, ConstantsAre DEF Shows, Footer
  <2>3. PICK g \in Int : g = y.seen - x.seen
    BY <2>1
  <2>4. /\ g >= 0 /\ (g = 0 => y.ok = x.ok)
        /\ g < FrameLen => y.pos \in {x.pos + 1 + g, x.pos + 1 + g - FrameLen}
    BY <2>2, <2>3 DEF Follows
  <2>5. /\ x.seen \in 0 .. y.seen
        /\ y.pos \in {1 + 1 + y.seen - x.seen, 1 + 1 + y.seen - x.seen - FrameLen}
    BY <2>1, <2>2, <2>3, <2>4, ConstantsAre
  <2>6. y.seen = x.seen => y.ok
    <3>1. y.seen = x.seen => g = 0
      BY <2>1, <2>3
    <3>2. g = 0 => y.ok = x.ok
      BY <2>4
    <3> QED BY <2>2, <3>1, <3>2
  <2>7. Len(buf') = 1 /\ Plain(2, 1)'
    BY <1>2, <1>3 DEF Plain
  <2> QED BY <1>3, <2>5, <2>6, <2>7 DEF Framed
<1> QED BY <1>4, <1>5

\* Another header than that of the frame that was read before.
LEMMA SearchTimeoutFramed ==
  ASSUME Types, SearchTimeout, NEW x PROVE Framed(x)'
<1>1. buf \in Seq(Bytes) /\ Len(buf) = 1 /\ buf[1] # "H" /\ buf' = buf
  BY DEF SearchTimeout, Types
<1> QED BY <1>1 DEF Framed

LEMMA ReadRestFramed ==
  ASSUME Types, MaxLost < FrameLen, ReadRest, NEW x \in Places, NEW y \in Places,
         Shows(x, Head(rx)), Follows(x, y), Framed(x)
  PROVE  Framed(y)'
<1>1. PICK b \in Bytes : b = Head(rx)
  BY BytesTaken DEF ReadRest
<1>2. PICK k \in 1 .. FrameLen - 1 : k = Len(buf)
  BY DEF ReadRest, Types
<1>3. /\ at = "rest" /\ buf' = Append(buf, b) /\ buf \in Seq(Bytes)
      /\ at' = IF Len(buf') = FrameLen THEN "check" ELSE "rest"
  BY <1>1 DEF ReadRest, Types
<1>4. Len(buf') = k + 1 /\ buf'[k + 1] = b /\ \A i \in 1 .. k : buf'[i] = buf[i]
  BY <1>1, <1>2, <1>3, AppendProperties
<1>5. 1 \in 1 .. k /\ k \in Nat
  BY <1>2
<1>6. CASE buf[1] # "H"
  BY <1>4, <1>5, <1>6 DEF Framed
<1>7. CASE buf[1] = "H"
  <2>1. buf # <<>>
    BY <1>2
  <2>2. PICK c \in 0 .. x.seen :
           /\ x.pos \in {k + 1 + x.seen - c, k + 1 + x.seen - c - FrameLen}
           /\ x.seen = c => x.ok /\ Plain(2, k)
    BY <1>2, <1>3, <1>7, <2>1 DEF Framed
  <2>3. /\ x.pos \in 1 .. FrameLen /\ x.seen \in 0 .. MaxLost /\ y.pos \in 1 .. FrameLen
        /\ y.seen \in 0 .. MaxLost /\ y.seen \in Nat /\ x.seen \in Nat
    BY PlaceIs
  <2>4. CASE k + 1 = FrameLen
    <3>1. at' = "check"
      BY <1>3, <1>4, <2>4
    <3>2. ASSUME b \in Footer PROVE b = "F" /\ Plain(2, k)
      <4>1. x.pos = FrameLen
        <5>1. x.pos # 1 /\ x.pos \notin 2 .. FrameLen - 1
          BY <1>1, <3>2 DEF Shows, Footer
        <5> QED BY <2>3, <5>1, ConstantsAre
      <4>2. x.seen = c
        BY <2>2, <2>3, <2>4, <4>1, ConstantsAre
      <4> QED BY <1>1, <2>2, <4>1, <4>2 DEF Shows
    <3>3. FrameLen - 1 = k /\ buf'[FrameLen] = b
      BY <1>2, <1>4, <2>4
    <3>4. Plain(2, k) => Plain(2, k)'
      BY <1>4, <1>5 DEF Plain
    <3> QED BY <3>1, <3>2, <3>3, <3>4 DEF Framed
  <2>5. CASE k + 1 # FrameLen
    <3>1. at' = "rest"
      BY <1>3, <1>4, <2>5
    <3>2. PICK g \in Int : g = y.seen - x.seen
      BY <2>3
    <3>3. /\ g >= 0 /\ (g = 0 => IF x.pos = FrameLen THEN y.pos = 1 ELSE y.pos = x.pos + 1 /\ y.ok = x.ok)
          /\ g < FrameLen => y.pos \in {x.pos + 1 + g, x.pos + 1 + g - FrameLen}
      BY <3>2 DEF Follows
    <3>4. c \in 0 .. y.seen
      BY <2>3, <3>2, <3>3
    <3>5. y.pos \in {k + 1 + 1 + y.seen - c, k + 1 + 1 + y.seen - c - FrameLen}
      <4>1. y.pos \in {x.pos + 1 + g, x.pos + 1 + g - FrameLen}
        BY <2>3, <3>2, <3>3, ConstantsAre
      <4>2. k + 1 < FrameLen
        BY <1>2, <2>5, ConstantsAre
      <4> QED BY <2>2, <2>3, <3>2, <3>4, <4>1, <4>2, ConstantsAre
    <3>6. ASSUME y.seen = c PROVE y.ok /\ Plain(2, k + 1)'
      <4>1. x.seen = c /\ g = 0
        BY <2>3, <3>2, <3>3, <3>6
      <4>2. x.pos = k + 1
        BY <1>2, <2>2, <2>3, <4>1, ConstantsAre
      <4>3. x.pos \in 2 .. FrameLen - 1 /\ x.pos # FrameLen
        BY <1>2, <2>5, <4>2, ConstantsAre
      <4>4. y.ok /\ b \in {"h", "d"} /\ Plain(2, k)
        BY <1>1, <2>2, <3>3, <4>1, <4>3 DEF Shows
      <4>5. ASSUME NEW i \in 2 .. k + 1 PROVE buf'[i] \notin Footer
        <5>1. (i \in 2 .. k /\ i \in 1 .. k) \/ i = k + 1
          BY <1>2
        <5> QED BY <1>4, <4>4, <5>1 DEF Plain, Footer
      <4> QED BY <4>4, <4>5 DEF Plain
    <3> QED BY <1>4, <3>1, <3>4, <3>5, <3>6 DEF Framed
  <2> QED BY <2>4, <2>5
<1> QED BY <1>6, <1>7

LEMMA StartsFramed ==
  ASSUME buf' = <<"s">> \/ buf' = <<>>, NEW x PROVE Framed(x)'
  BY StartsOver DEF Framed

LEMMA CheckFramed == ASSUME Types, Check, NEW x, Framed(x) PROVE Framed(x)'
<1>1. CASE buf[FrameLen] \in Footer
  <2>1. at = "check" /\ at' = "handover" /\ buf' = buf
    BY <1>1, CheckIs DEF Check
  <2> QED BY <2>1 DEF Framed, Plain
<1>2. CASE buf[FrameLen] \notin Footer
  BY <1>2, CheckIs, StartsFramed DEF Check
<1> QED BY <1>1, <1>2
-----------------------------------------------------------------------------
(* The invariant *)

LEMMA InitInv == Init => IInv
<1> SUFFICES ASSUME Init PROVE IInv
  OBVIOUS
<1>1. Types
  <2>1. rx = <<>> /\ rx \in Seq({"H", "h", "d"} \cup Footer) /\ Len(rx) <= BufSize
    <3>1. Len(<<>>) = 0 /\ 0 <= BufSize
      BY ConstantsAre
    <3> QED BY <3>1 DEF Init
  <2>2. buf \in Seq(Bytes) /\ buf = <<>>
    BY DEF Init
  <2>3. lost \in 0 .. MaxLost /\ missed \in 0 .. MaxLost + 1 /\ due \in 1 .. FrameLen
    BY ConstantsAre DEF Init
  <2> QED BY <2>1, <2>2, <2>3 DEF Init, Types
<1>2. Misled
  BY DEF Init, Misled
<1>3. PICK x \in Places : x = Tip
  BY <1>1, TipIs
<1>4. PICK h \in Seq(Places) : h = <<x>> /\ Len(h) = 1 /\ h[1] = x
  <2>1. <<x>> \in Seq(Places) /\ Len(<<x>>) = 1 /\ <<x>>[1] = x
    OBVIOUS
  <2> QED BY <2>1
<1>5. rx = <<>> /\ Len(rx) = 0 /\ x.seen = 0 /\ x.pos = 1 /\ lost = 0
  BY <1>3 DEF Init, Tip
<1>6. Placed(h)
  BY <1>3, <1>4, <1>5 DEF Placed
<1>7. Paid(h[1]) /\ Framed(h[1])
  BY <1>4, <1>5 DEF Init, Paid, Framed
<1> QED BY <1>1, <1>2, <1>6, <1>7 DEF IInv

LEMMA SendInv == ASSUME IInv, SendByte PROVE IInv'
<1>1. PICK h \in Seq(Places) : Placed(h) /\ Paid(h[1]) /\ (MaxLost < FrameLen => Framed(h[1]))
  BY DEF IInv
<1>2. PICK g \in Seq(Places) : Placed(g)' /\ g[1] = h[1]
  BY <1>1, SendPlaced DEF IInv
<1>3. UNCHANGED <<at, buf, lost, misled, missed>>
  BY DEF SendByte
<1>4. Paid(h[1])' /\ (MaxLost < FrameLen => Framed(h[1])')
  BY <1>1, <1>3 DEF Paid, Framed, NoFooter, Plain
<1>5. Types' /\ Misled'
  BY <1>3, SendTypes DEF IInv, Misled
<1> QED BY <1>2, <1>4, <1>5 DEF IInv

LEMMA LoseInv == ASSUME IInv, LoseByte PROVE IInv'
<1>1. PICK h \in Seq(Places) : Placed(h) /\ Paid(h[1]) /\ (MaxLost < FrameLen => Framed(h[1]))
  BY DEF IInv
<1>2. Types /\ h[1] \in Places
  BY <1>1, PlacedIs DEF IInv
<1>3. PICK g \in Seq(Places) : Placed(g)' /\ (g[1] = h[1] \/ Skips(h[1], g[1]))
  BY <1>1, <1>2, LosePlaced
<1>4. g[1] \in Places
  <2>1. Types'
    BY <1>2, LoseTypes
  <2>2. Len(g) = Len(rx') + 1 /\ Len(rx') \in Nat
    BY <1>3, <2>1 DEF Placed, Types
  <2> QED BY <2>2
<1>5. UNCHANGED <<at, buf, misled, missed>>
  BY DEF LoseByte
<1>6. Types' /\ Misled'
  <2>1. lost' > 0
    BY <1>2, ConstantsAre DEF LoseByte, Types
  <2> QED BY <1>2, <2>1, LoseTypes DEF Misled
<1>7. Paid(g[1])' /\ (MaxLost < FrameLen => Framed(g[1])')
  <2>1. CASE g[1] = h[1]
    BY <1>1, <1>5, <2>1 DEF Paid, Framed, NoFooter, Plain
  <2>2. CASE Skips(h[1], g[1])
    BY <1>1, <1>2, <1>4, <2>2, LosePaid, LoseFramed
  <2> QED BY <1>3, <2>1, <2>2
<1> QED BY <1>3, <1>6, <1>7 DEF IInv

LEMMA SearchInv == ASSUME IInv, Search PROVE IInv'
<1>1. PICK h \in Seq(Places) : Placed(h) /\ Paid(h[1])
  BY DEF IInv
<1>2. Types /\ Misled /\ h[1] \in Places /\ h[1].seen <= lost
  BY <1>1, PlacedIs DEF IInv
<1>3. rx # <<>> /\ rx' = Tail(rx) /\ UNCHANGED <<lineVars, lost>>
  BY DEF Search
<1>4. PICK g \in Seq(Places) : Placed(g)' /\ Shows(h[1], Head(rx)) /\ Follows(h[1], g[1])
  BY <1>1, <1>2, <1>3, TakePlaced
<1>5. Types'
  BY <1>2, SearchTypes
<1>6. g[1] \in Places
  <2>1. Len(g) = Len(rx') + 1 /\ Len(rx') \in Nat
    BY <1>4, <1>5 DEF Placed, Types
  <2> QED BY <2>1
<1>7. Paid(g[1])' /\ Misled'
  BY <1>1, <1>2, <1>4, <1>6, SearchPaid
<1>8. MaxLost < FrameLen => Framed(g[1])'
  BY <1>2, <1>4, <1>6, SearchFramed
<1> QED BY <1>4, <1>5, <1>7, <1>8 DEF IInv

LEMMA ReadRestInv == ASSUME IInv, ReadRest PROVE IInv'
<1>1. PICK h \in Seq(Places) : Placed(h) /\ Paid(h[1]) /\ (MaxLost < FrameLen => Framed(h[1]))
  BY DEF IInv
<1>2. Types /\ h[1] \in Places
  BY <1>1, PlacedIs DEF IInv
<1>3. rx # <<>> /\ rx' = Tail(rx) /\ UNCHANGED <<lineVars, lost, misled>>
  BY DEF ReadRest
<1>4. PICK g \in Seq(Places) : Placed(g)' /\ Shows(h[1], Head(rx)) /\ Follows(h[1], g[1])
  BY <1>1, <1>2, <1>3, TakePlaced
<1>5. Types' /\ Misled'
  BY <1>2, <1>3, ReadRestTypes DEF IInv, Misled
<1>6. g[1] \in Places
  <2>1. Len(g) = Len(rx') + 1 /\ Len(rx') \in Nat
    BY <1>4, <1>5 DEF Placed, Types
  <2> QED BY <2>1
<1>7. Paid(g[1])'
  BY <1>1, <1>2, <1>4, <1>6, ReadRestPaid
<1>8. MaxLost < FrameLen => Framed(g[1])'
  BY <1>1, <1>2, <1>4, <1>6, ReadRestFramed
<1> QED BY <1>4, <1>5, <1>7, <1>8 DEF IInv

\* The steps that leave the line and what the driver holds alone.
LEMMA StayInv ==
  ASSUME IInv, SearchTimeout \/ RestTimeout \/ Check \/ HandOver PROVE IInv'
<1>1. PICK h \in Seq(Places) : Placed(h) /\ Paid(h[1]) /\ (MaxLost < FrameLen => Framed(h[1]))
  BY DEF IInv
<1>2. Types /\ h[1] \in Places /\ (rx = <<>> => h[1] = Tip)
  BY <1>1, PlacedIs DEF IInv
<1>3. UNCHANGED <<lineVars, rx, lost, misled>>
  BY DEF SearchTimeout, RestTimeout, Check, HandOver
<1>4. Placed(h)' /\ Misled'
  BY <1>1, <1>3, SamePlaced DEF IInv, Misled
<1>5. CASE SearchTimeout
  <2>1. rx = <<>>
    BY <1>5 DEF SearchTimeout, Quiet
  <2> QED BY <1>1, <1>2, <1>4, <1>5, <2>1, SearchTimeoutTypes, SearchTimeoutPaid, SearchTimeoutFramed
          DEF IInv
<1>6. CASE RestTimeout
  <2>1. rx = <<>> /\ buf' = <<"s">>
    BY <1>6 DEF RestTimeout, Quiet
  <2> QED BY <1>1, <1>2, <1>4, <1>6, <2>1, RestTimeoutTypes, RestTimeoutPaid, StartsFramed DEF IInv
<1>7. CASE Check
  BY <1>1, <1>2, <1>4, <1>7, CheckTypes, CheckPaid, CheckFramed DEF IInv
<1>8. CASE HandOver
  <2>1. buf' = <<>>
    BY <1>8 DEF HandOver
  <2> QED BY <1>1, <1>2, <1>4, <1>8, <2>1, HandOverTypes, HandOverPaid, StartsFramed DEF IInv
<1> QED BY <1>5, <1>6, <1>7, <1>8

LEMMA StutterInv == ASSUME IInv, UNCHANGED vars PROVE IInv'
<1>1. UNCHANGED <<pattern, due, whole, rx, at, buf, lost, misled, missed>>
  BY DEF vars, lineVars
<1>2. Types' /\ Misled'
  BY <1>1 DEF IInv, Types, Misled
<1>3. PICK h \in Seq(Places) : Placed(h) /\ Paid(h[1]) /\ (MaxLost < FrameLen => Framed(h[1]))
  BY DEF IInv
<1>4. Placed(h)'
  BY <1>1, <1>3, SamePlaced DEF lineVars
<1>5. Paid(h[1])' /\ (MaxLost < FrameLen => Framed(h[1])')
  BY <1>1, <1>3 DEF Paid, Framed, NoFooter, Plain
<1> QED BY <1>2, <1>4, <1>5 DEF IInv

\* Whatever is lost on the line of task_receive_uart and whatever its frames
\* look like, the bytes on the line and the frame that is being put together
\* are of consecutive frames but for the bytes counted as lost.
THEOREM Invariance == Spec => []IInv
<1>1. IInv /\ [Next]_vars => IInv'
  <2> SUFFICES ASSUME IInv, [Next]_vars PROVE IInv'
    OBVIOUS
  <2>1. CASE SendByte
    BY <2>1, SendInv
  <2>2. CASE LoseByte
    BY <2>2, LoseInv
  <2>3. CASE Search
    BY <2>3, SearchInv
  <2>4. CASE ReadRest
    BY <2>4, ReadRestInv
  <2>5. CASE SearchTimeout \/ RestTimeout \/ Check \/ HandOver
    BY <2>5, StayInv
  <2>6. CASE UNCHANGED vars
    BY <2>6, StutterInv
  <2> QED BY <2>1, <2>2, <2>3, <2>4, <2>5, <2>6 DEF Next, Line, Receive
<1> QED BY <1>1, InitInv, PTL DEF Spec

\* The buffer of the driver and the frame *msg are never overrun, and the rest
\* of a frame is read only behind its first byte.
THEOREM TypeCorrect == Spec => []TypeOK
<1>1. IInv => TypeOK
  <2> SUFFICES ASSUME IInv PROVE TypeOK
    OBVIOUS
  <2>1. Types
    BY DEF IInv
  <2>2. buf \in Seq(Header \cup {"d"} \cup Footer)
    BY <2>1 DEF Types, Bytes
  <2>3. Len(buf) <= FrameLen
    <3>1. CASE at = "search"
      <4>1. buf = <<>> => Len(buf) = 0
        OBVIOUS
      <4>2. Len(buf) = 0 \/ Len(buf) = 1
        BY <2>1, <3>1, <4>1 DEF Types
      <4> QED BY <4>2, ConstantsAre
    <3>2. CASE at # "search"
      BY <2>1, <3>2, ConstantsAre DEF Types
    <3> QED BY <3>1, <3>2
  <2> QED BY <2>1, <2>2, <2>3 DEF TypeOK, Types
<1> QED BY <1>1, Invariance, PTL

\* In task_receive_uart a lost byte costs its own frame and at most one more,
\* as long as no data is taken for a header, which it is only after a loss.
THEOREM LossStaysLocal == Spec => []LossIsLocal
<1>1. IInv => LossIsLocal
  <2> SUFFICES ASSUME IInv PROVE LossIsLocal
    OBVIOUS
  <2>1. PICK h \in Seq(Places) : Placed(h) /\ Paid(h[1])
    BY DEF IInv
  <2>2. Types /\ Misled /\ h[1] \in Places /\ h[1].seen <= lost
    BY <2>1, PlacedIs DEF IInv
  <2>3. CASE misled
    BY <2>2, <2>3 DEF Misled, LossIsLocal
  <2>4. CASE ~misled
    <3>1. missed <= h[1].seen
      BY <2>1, <2>4 DEF Paid
    <3>2. missed \in Nat /\ lost \in Nat /\ h[1].seen \in Nat
      BY <2>2, PlaceIs, ConstantsAre DEF Types
    <3>3. missed <= lost
      BY <2>2, <3>1, <3>2
    <3> QED BY <2>4, <3>3 DEF LossIsLocal
  <2> QED BY <2>3, <2>4
<1> QED BY <1>1, Invariance, PTL

\* A frame that task_receive_uart hands on, read behind a header, is one frame
\* no byte of which was lost, if fewer bytes are lost than a frame has.
\* (Bytes are lost here, never altered.)
THEOREM NothingDamaged == ASSUME MaxLost < FrameLen PROVE Spec => []NoneDamaged
<1>1. IInv => NoneDamaged
  <2> SUFFICES ASSUME IInv, at = "handover", buf[1] = "H"
               PROVE  Last(buf) = "F" /\ \A i \in 2 .. FrameLen - 1 : buf[i] \notin Footer
    BY DEF NoneDamaged
  <2>1. PICK x : Framed(x)
    BY DEF IInv
  <2>2. buf \in Seq(Bytes) /\ Len(buf) = FrameLen /\ buf[FrameLen] \in Footer
    BY DEF IInv, Types
  <2>3. buf # <<>> /\ Last(buf) = buf[FrameLen]
    BY <2>2, ConstantsAre DEF Last
  <2> QED BY <2>1, <2>2, <2>3 DEF Framed, Plain
<1> QED BY <1>1, Invariance, PTL
=============================================================================
