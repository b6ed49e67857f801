-------------------------- MODULE Handshake_proofs --------------------------
(***************************************************************************)
(* Proofs about Handshake, for any cubes, kits and number of troubles:     *)
(* that ids only ever name a possible neighbour, that an answer is never   *)
(* paired with the wrong ping, that no neighbour is given up without       *)
(* cause, and that the last report of an end is true.                      *)
(***************************************************************************)
EXTENDS Handshake, Counting

\* Whom an end may have on the other side of the link.
Near(e) == IF e = Upper THEN Cubes ELSE {Upper}
Kinds == {"ping", "ack"}
Frames(e) == [kind : Kinds, from : Near(e)]

NearOK == \A e \in Ends : /\ inbox[e] \in Seq(Frames(e))
                          /\ last_ack[e] \in Near(e) \cup {None}
                          /\ handler[e].from \in Near(e) \cup {None}

\* An answer the ping task is told of, or is about to be, set the flag.
Told == late = 0 =>
    \A e \in Ends : handler[e].at = "notify" \/ notified[e] => received[e]

\* As long as nothing disturbs the link after a ping of e, the answer is
\* coming until the wait is over, and has set the flag by then.
Undisturbed == late = 0 =>
    \A e \in Ends : ~disturbed[e] =>
        /\ Other(e) # None
        /\ ping_pc[e] = "wait" => Pending(e) >= 1
        /\ ping_pc[e] = "decide" => received[e]
        /\ ping_pc[e] # "lost"

\* What a task of e that nobody else raced is about to report is true.
Correct(e, k) == snap[e][k] = peer[e] \/ Deferred(e)
Fresh(e) == ~raced[e] =>
    /\ ~(Reporting(e, "ping") /\ Reporting(e, "handler"))
    /\ ping_pc[e] = "post" => Correct(e, "ping")
    /\ handler[e].at = "post" => Correct(e, "handler")
    /\ Reporting(e, "ping") \/ Reporting(e, "handler") \/ Deferred(e) \/ reported[e] = peer[e]
FreshReports == \A e \in Ends : Fresh(e)

IInv == TypeOK /\ NearOK /\ OneOutstanding /\ Told /\ Undisturbed /\ FreshReports
-----------------------------------------------------------------------------
(* Types *)

AnyFrame == [kind : Kinds, from : Ends]
Boxes == {box \in [Ends -> Seq(AnyFrame)] : \A e \in Ends : box[e] \in Seq(Frames(e))}

\* Who is on the other side of e when cube c is plugged.
Across(c, e) == CASE e = Upper -> c
                  [] e = c -> Upper
                  [] OTHER -> None

LEMMA Names == /\ None \notin Ends /\ Upper \in Ends /\ Upper \notin Cubes
               /\ \A e \in Ends : e = Upper \/ e \in Cubes
               /\ \A e \in Ends : Near(e) \subseteq Ends
               /\ \A e \in Ends : Near(e) \subseteq IF e = Upper THEN Cubes ELSE {Upper}
  BY HandshakeAssumption DEF Ends, Near

LEMMA AcrossType == ASSUME NEW c \in Cubes \cup {None}, NEW e \in Ends
                    PROVE  /\ Across(c, e) \in Ends \cup {None}
                           /\ Across(c, e) # None => /\ e \in Near(Across(c, e))
                                                     /\ Across(c, e) # e
                                                     /\ Across(c, Across(c, e)) = e
                                                     /\ c # None /\ (e = c \/ Across(c, e) = c)
                           /\ \A x \in Ends : Across(c, e) # None /\ Across(c, x) = Across(c, e) => x = e
  BY HandshakeAssumption DEF Across, Near, Ends

LEMMA FramesAny == ASSUME NEW e \in Ends, NEW q \in Seq(Frames(e))
                   PROVE  q \in Seq(AnyFrame)
<1>1. Frames(e) \subseteq AnyFrame
  BY Names DEF Frames, AnyFrame
<1>2. \A i \in 1 .. Len(q) : q[i] \in AnyFrame
  BY <1>1, ElementOfSeq
<1> QED BY <1>2

\* A box with one queue replaced.
LEMMA BoxWith == ASSUME NEW box \in Boxes, NEW e \in Ends, NEW q \in Seq(Frames(e))
                 PROVE  [box EXCEPT ![e] = q] \in Boxes
  BY FramesAny DEF Boxes

LEMMA BoxQueues == ASSUME NEW box \in Boxes, NEW e \in Ends
                   PROVE  box[e] \in Seq(Frames(e)) /\ box[e] \in Seq(AnyFrame)
  BY DEF Boxes

LEMMA FirstFrame == ASSUME NEW box \in Boxes, NEW e \in Ends, box[e] # <<>>
                    PROVE  /\ Head(box[e]) \in Frames(e) /\ Head(box[e]) \in AnyFrame
                           /\ Head(box[e]).from \in Near(e) /\ Head(box[e]).kind \in Kinds
                           /\ [box EXCEPT ![e] = Tail(@)] \in Boxes
<1>1. box[e] \in Seq(Frames(e)) /\ box[e] \in Seq(AnyFrame)
  BY BoxQueues
<1>2. /\ Head(box[e]) \in Frames(e) /\ Head(box[e]) \in AnyFrame
      /\ Tail(box[e]) \in Seq(Frames(e))
  BY <1>1, HeadTailProperties
<1>3. Head(box[e]).from \in Near(e) /\ Head(box[e]).kind \in Kinds
  BY <1>2 DEF Frames
<1> QED BY <1>2, <1>3, BoxWith

\* Sent with the other side as a parameter.
SentTo(box, o, e, k) == IF o = None THEN box ELSE [box EXCEPT ![o] = Append(@, [kind |-> k, from |-> e])]

LEMMA SentBoxes == ASSUME NEW box \in Boxes, NEW e \in Ends, NEW k \in Kinds, NEW c \in Cubes \cup {None}
                   PROVE  SentTo(box, Across(c, e), e, k) \in Boxes
<1> DEFINE o == Across(c, e)
           m == [kind |-> k, from |-> e]
<1>1. CASE o = None
  BY <1>1 DEF SentTo
<1>2. CASE o # None
  <2>1. o \in Ends /\ e \in Near(o)
    BY <1>2, AcrossType
  <2> HIDE DEF o
  <2>2. m \in Frames(o)
    BY <2>1 DEF Frames
  <2>3. Append(box[o], m) \in Seq(Frames(o))
    BY <2>1, <2>2, BoxQueues, AppendProperties
  <2>4. [box EXCEPT ![o] = Append(@, m)] \in Boxes
    BY <2>1, <2>3, BoxWith
  <2> QED BY <1>2, <2>4 DEF SentTo, o
<1> QED BY <1>1, <1>2

LEMMA OtherIsAcross == \A e : Other(e) = Across(attached, e)
  BY DEF Other, Across

LEMMA SentIsSentTo == \A box, e, k : Sent(box, e, k) = SentTo(box, Across(attached, e), e, k)
  BY OtherIsAcross DEF Sent, SentTo

\* What the types of the model and NearOK come to, one conjunct per variable.
Peers == {p \in [Ends -> Ends \cup {None}] : \A e \in Ends : p[e] \in Near(e) \cup {None}}
Handlers == {h \in [Ends -> [at : {"idle", "adopt", "snap", "post", "notify"}, from : Ends \cup {None}]] :
               \A e \in Ends : h[e].from \in Near(e) \cup {None}}
PingPcs == [Ends -> {"off", "reset", "send", "wait", "decide", "found", "lost", "snap", "post"}]
Snaps == [Ends -> [ping : Ends \cup {None}, handler : Ends \cup {None}]]

Types == /\ kit \in Kits /\ attached \in kit.cubes \cup {None}
         /\ inbox \in Boxes /\ peer \in Peers /\ last_ack \in Peers /\ handler \in Handlers
         /\ received \in [Ends -> BOOLEAN] /\ notified \in [Ends -> BOOLEAN]
         /\ ping_pc \in PingPcs
         /\ when_sent \in [Ends -> Ends \cup {None}]
         /\ snap \in Snaps /\ reported \in [Ends -> Ends \cup {None}]
         /\ raced \in [Ends -> BOOLEAN] /\ disturbed \in [Ends -> BOOLEAN]
         /\ troubles \in 0 .. MaxTroubles /\ late \in 0 .. MaxLate

LEMMA TypesAre == TypeOK /\ NearOK <=> Types
<1>1. inbox \in Boxes <=> /\ inbox \in [Ends -> Seq([kind : {"ping", "ack"}, from : Ends])]
                          /\ \A e \in Ends : inbox[e] \in Seq(Frames(e))
  BY DEF Boxes, AnyFrame, Kinds
<1>2. peer \in Peers <=> /\ peer \in [Ends -> Ends \cup {None}]
                         /\ peer[Upper] \in Cubes \cup {None}
                         /\ \A c \in Cubes : peer[c] \in {Upper, None}
  BY Names DEF Peers, Near, Ends
<1>3. last_ack \in Peers <=> /\ last_ack \in [Ends -> Ends \cup {None}]
                             /\ \A e \in Ends : last_ack[e] \in Near(e) \cup {None}
  BY DEF Peers
<1>4. handler \in Handlers <=> /\ handler \in [Ends -> [at : {"idle", "adopt", "snap", "post", "notify"},
                                                        from : Ends \cup {None}]]
                               /\ \A e \in Ends : handler[e].from \in Near(e) \cup {None}
  BY DEF Handlers
<1> QED BY <1>1, <1>2, <1>3, <1>4 DEF TypeOK, NearOK, Types, PingPcs, Snaps

LEMMA InitTypes == Init => Types
<1> SUFFICES ASSUME Init PROVE Types
  OBVIOUS
<1> USE DEF Init
<1>1. inbox \in Boxes
  BY EmptySeq DEF Boxes
<1>2. peer \in Peers /\ last_ack \in Peers
  BY DEF Peers
<1>3. handler \in Handlers
  BY DEF Handlers, Idle
<1>4. snap \in Snaps /\ ping_pc \in PingPcs
  BY DEF Snaps, NoSnap, PingPcs
<1>5. troubles \in 0 .. MaxTroubles /\ late \in 0 .. MaxLate
  BY HandshakeAssumption
<1>6. kit \in Kits /\ attached \in kit.cubes \cup {None}
  BY HandshakeAssumption
<1>7. /\ received \in [Ends -> BOOLEAN] /\ notified \in [Ends -> BOOLEAN]
      /\ when_sent \in [Ends -> Ends \cup {None}] /\ reported \in [Ends -> Ends \cup {None}]
      /\ raced \in [Ends -> BOOLEAN] /\ disturbed \in [Ends -> BOOLEAN]
  OBVIOUS
<1> QED BY <1>1, <1>2, <1>3, <1>4, <1>5, <1>6, <1>7 DEF Types

\* Which cube is plugged, as a type.
LEMMA AttachedType == Types => attached \in Cubes \cup {None}
  BY HandshakeAssumption DEF Types

LEMMA BeginType == ASSUME Types, NEW e \in Ends, NEW k, Begin(e, k)
                   PROVE  raced' \in [Ends -> BOOLEAN]
<1>1. Reporting(e, k) \in BOOLEAN
  <2>1. CASE k = "ping"
    BY <2>1 DEF Reporting
  <2>2. CASE k # "ping"
    BY <2>2 DEF Reporting
  <2> QED BY <2>1, <2>2
<1> QED BY <1>1 DEF Begin, Types

\* A handler that goes somewhere else with the sender it deals with, or idles.
LEMMA HandlerGoes == ASSUME NEW h \in Handlers, NEW e \in Ends,
                            NEW a \in {"idle", "adopt", "snap", "post", "notify"}
                     PROVE  /\ [h EXCEPT ![e] = Idle] \in Handlers
                            /\ [h EXCEPT ![e] = [@ EXCEPT !.at = a]] \in Handlers
                            /\ [h EXCEPT ![e].at = a] = [h EXCEPT ![e] = [@ EXCEPT !.at = a]]
<1>1. [h EXCEPT ![e] = Idle] \in Handlers
  BY DEF Handlers, Idle
<1>2. [h[e] EXCEPT !.at = a] \in [at : {"idle", "adopt", "snap", "post", "notify"}, from : Ends \cup {None}]
  BY DEF Handlers
<1>3. [h[e] EXCEPT !.at = a].from = h[e].from
  BY DEF Handlers
<1>4. [h EXCEPT ![e] = [@ EXCEPT !.at = a]] \in Handlers
  BY <1>2, <1>3 DEF Handlers
<1>5. [h EXCEPT ![e].at = a] = [h EXCEPT ![e] = [@ EXCEPT !.at = a]]
  OBVIOUS
<1> QED BY <1>1, <1>4, <1>5

LEMMA PingTypes == ASSUME Types, NEW e \in Ends, Ping(e)
                   PROVE  Types'
<1> USE DEF userVars, ackVars, nodeVars, reportVars, budgets
<1>1. CASE PingReset(e)
  BY <1>1 DEF PingReset, Types, PingPcs
<1>2. CASE PingSend(e)
  <2>1. inbox' \in Boxes
    BY <1>2, AttachedType, SentBoxes, SentIsSentTo DEF PingSend, Types, Kinds
  <2>2. when_sent' \in [Ends -> Ends \cup {None}]
    BY <1>2 DEF PingSend, Types, Peers
  <2>3. disturbed' \in [Ends -> BOOLEAN]
    BY <1>2 DEF PingSend, Types
  <2> QED BY <1>2, <2>1, <2>2, <2>3 DEF PingSend, Types, PingPcs
<1>3. CASE NotifyTake(e)
  BY <1>3 DEF NotifyTake, Types, PingPcs
<1>4. CASE Timeout(e)
  <2>1. late' \in 0 .. MaxLate
    BY <1>4, HandshakeAssumption DEF Timeout, Types
  <2> QED BY <1>4, <2>1 DEF Timeout, Types, PingPcs
<1>5. CASE PingDecide(e)
  <2>1. ping_pc' \in PingPcs
    BY <1>5 DEF PingDecide, Types, PingPcs
  <2> QED BY <1>5, <2>1 DEF PingDecide, Types
<1>6. CASE PingFound(e)
  <2>1. peer' \in Peers
    BY <1>6 DEF PingFound, Types, Peers
  <2>2. raced' \in [Ends -> BOOLEAN]
    BY <1>6, BeginType DEF PingFound
  <2> QED BY <1>6, <2>1, <2>2 DEF PingFound, Types, PingPcs
<1>7. CASE PingLost(e)
  <2>1. peer' \in Peers
    BY <1>7 DEF PingLost, Types, Peers
  <2>2. raced' \in [Ends -> BOOLEAN]
    BY <1>7, BeginType DEF PingLost, Types
  <2> QED BY <1>7, <2>1, <2>2 DEF PingLost, Types, PingPcs
<1>8. CASE PingSnapshot(e)
  <2>1. snap' \in Snaps
    BY <1>8 DEF PingSnapshot, Snapshot, Types, Snaps, Peers
  <2> QED BY <1>8, <2>1 DEF PingSnapshot, Types, PingPcs
<1>9. CASE PingPost(e)
  <2>1. snap' \in Snaps /\ reported' \in [Ends -> Ends \cup {None}] /\ raced' = raced
    BY <1>9 DEF PingPost, Post, Types, Snaps
  <2> QED BY <1>9, <2>1 DEF PingPost, Types, PingPcs
<1> QED BY <1>1, <1>2, <1>3, <1>4, <1>5, <1>6, <1>7, <1>8, <1>9 DEF Ping, PingWait, PingReport

LEMMA HandleTypes == ASSUME Types, NEW e \in Ends, Handle(e)
                     PROVE  Types'
<1> USE DEF userVars, ackVars, nodeVars, reportVars, budgets
<1>1. CASE HandlePing(e)
  <2>1. inbox[e] # <<>> /\ inbox \in Boxes
    BY <1>1 DEF HandlePing, Heads, Types
  <2>2. Head(inbox[e]).from \in Near(e) /\ [inbox EXCEPT ![e] = Tail(@)] \in Boxes
    BY <2>1, FirstFrame
  <2>3. inbox' \in Boxes
    BY <1>1, <2>2, AttachedType, SentBoxes, SentIsSentTo DEF HandlePing, Kinds
  <2>4. handler' \in Handlers
    BY <1>1, <2>2, Names DEF HandlePing, Types, Handlers
  <2> QED BY <1>1, <2>3, <2>4 DEF HandlePing, Types
<1>2. CASE Adopt(e)
  <2>1. peer' \in Peers
    BY <1>2 DEF Adopt, Types, Peers, Handlers
  <2>2. handler' \in Handlers
    <3>1. CASE peer[e] = handler[e].from
      BY ZenonT(60), <1>2, <3>1, HandlerGoes DEF Adopt, Types
    <3>2. CASE peer[e] # handler[e].from
      BY <1>2, <3>2, HandlerGoes DEF Adopt, Types
    <3> QED BY <3>1, <3>2
  <2>3. raced' \in [Ends -> BOOLEAN]
    BY <1>2, BeginType DEF Adopt, Types
  <2> QED BY <1>2, <2>1, <2>2, <2>3 DEF Adopt, Types
<1>3. CASE HandlerSnapshot(e)
  <2>1. snap' \in Snaps
    BY <1>3 DEF HandlerSnapshot, Snapshot, Types, Snaps, Peers
  <2>2. handler' \in Handlers
    <3>1. CASE Deferred(e)
      BY <1>3, <3>1, HandlerGoes DEF HandlerSnapshot, Types
    <3>2. CASE ~Deferred(e)
      BY <1>3, <3>2, HandlerGoes DEF HandlerSnapshot, Types
    <3> QED BY <3>1, <3>2
  <2> QED BY <1>3, <2>1, <2>2 DEF HandlerSnapshot, Types
<1>4. CASE HandlerPost(e)
  <2>1. snap' \in Snaps /\ reported' \in [Ends -> Ends \cup {None}] /\ raced' = raced
    BY <1>4 DEF HandlerPost, Post, Types, Snaps
  <2>2. handler' \in Handlers
    BY <1>4 DEF HandlerPost, Types, Handlers, Idle
  <2> QED BY <1>4, <2>1, <2>2 DEF HandlerPost, Types
<1>5. CASE HandleAck(e)
  <2>1. inbox[e] # <<>> /\ inbox \in Boxes
    BY <1>5 DEF HandleAck, Heads, Types
  <2>2. Head(inbox[e]).from \in Near(e) /\ inbox' \in Boxes
    BY <1>5, <2>1, FirstFrame DEF HandleAck
  <2>3. last_ack' \in Peers
    BY <1>5, <2>2, Names DEF HandleAck, Types, Peers
  <2>4. handler' \in Handlers
    BY <1>5, HandlerGoes DEF HandleAck, Types
  <2> QED BY <1>5, <2>2, <2>3, <2>4 DEF HandleAck, Types
<1>6. CASE Notify(e)
  <2>1. handler' \in Handlers
    BY <1>6 DEF Notify, Types, Handlers, Idle
  <2> QED BY <1>6, <2>1 DEF Notify, Types
<1> QED BY <1>1, <1>2, <1>3, <1>4, <1>5, <1>6 DEF Handle

LEMMA UserTypes == ASSUME Types,
                          Detach \/ (\E c \in Cubes : Attach(c)) \/ (\E e \in Ends : LoseFrame(e))
                   PROVE  Types'
<1> USE DEF userVars, ackVars, nodeVars, reportVars, budgets
<1>1. CASE Detach
  <2>1. inbox' \in Boxes
    BY <1>1, EmptySeq, BoxWith, Names, AttachedType DEF Detach, Types, Ends
  <2>2. peer' \in Peers /\ last_ack' \in Peers
    BY <1>1 DEF Detach, Types, Peers
  <2>3. handler' \in Handlers
    BY <1>1 DEF Detach, Types, Handlers, Idle
  <2>4. /\ received' \in [Ends -> BOOLEAN] /\ notified' \in [Ends -> BOOLEAN]
        /\ ping_pc' \in PingPcs /\ when_sent' \in [Ends -> Ends \cup {None}]
        /\ snap' \in Snaps
    BY <1>1 DEF Detach, Types, PingPcs, Snaps, NoSnap
  <2>5. /\ troubles' \in 0 .. MaxTroubles /\ disturbed' \in [Ends -> BOOLEAN]
        /\ attached' \in kit'.cubes \cup {None}
    BY <1>1, HandshakeAssumption DEF Detach, Types
  <2> QED BY <1>1, <2>1, <2>2, <2>3, <2>4, <2>5 DEF Detach, Types
<1>2. ASSUME NEW c \in Cubes, Attach(c) PROVE Types'
  <2>1. /\ troubles' \in 0 .. MaxTroubles /\ disturbed' \in [Ends -> BOOLEAN]
        /\ attached' \in kit'.cubes \cup {None}
    BY <1>2, HandshakeAssumption DEF Attach, Types
  <2>2. ping_pc' \in PingPcs
    BY <1>2 DEF Attach, Types, PingPcs
  <2> QED BY <1>2, <2>1, <2>2 DEF Attach, Types
<1>3. ASSUME NEW e \in Ends, LoseFrame(e) PROVE Types'
  <2>1. PICK i \in DOMAIN inbox[e] : inbox' = [inbox EXCEPT ![e] = RemoveAt(@, i)]
    BY <1>3 DEF LoseFrame
  <2>2. inbox[e] \in Seq(Frames(e))
    BY DEF Types, Boxes
  <2>3. RemoveAt(inbox[e], i) \in Seq(Frames(e))
    BY <2>2, RemoveAtType
  <2>4. inbox' \in Boxes
    BY <2>1, <2>3, BoxWith DEF Types
  <2>5. troubles' \in 0 .. MaxTroubles /\ disturbed' \in [Ends -> BOOLEAN]
    BY <1>3, HandshakeAssumption DEF LoseFrame, Types
  <2> QED BY <1>3, <2>4, <2>5 DEF LoseFrame, Types
<1> QED BY <1>1, <1>2, <1>3

LEMMA NextTypes == Types /\ [Next]_vars => Types'
<1>1. Types /\ UNCHANGED vars => Types'
  BY DEF vars, userVars, ackVars, nodeVars, reportVars, budgets, Types
<1> QED BY <1>1, PingTypes, HandleTypes, UserTypes DEF Next
-----------------------------------------------------------------------------
(* What is outstanding, and how an action changes it *)

OfKind(k) == [kind : {k}, from : Ends]
Num(box, e, k) == CountIn(box[e], OfKind(k))

\* Pending, of the state that a box, handlers, notifications and a cube
\* plugged make.
PendingOf(box, h, n, c, x) ==
    Num(box, x, "ack") + OneIf(h[x].at = "notify") + OneIf(n[x])
      + (IF Across(c, x) = None THEN 0 ELSE Num(box, Across(c, x), "ping"))

LEMMA NumIs == ASSUME NEW box \in Boxes, NEW e \in Ends, NEW k
               PROVE  /\ Cardinality({i \in DOMAIN box[e] : box[e][i].kind = k}) = Num(box, e, k)
                      /\ Num(box, e, k) \in Nat
                      /\ Num(box, e, k) = 0 <=> \A i \in DOMAIN box[e] : box[e][i].kind # k
<1>1. box[e] \in Seq(AnyFrame)
  BY BoxQueues
<1>2. \A i \in DOMAIN box[e] : box[e][i].kind = k <=> box[e][i] \in OfKind(k)
  <2> TAKE i \in DOMAIN box[e]
  <2>1. box[e][i] \in AnyFrame
    BY <1>1, ElementOfSeq, LenProperties
  <2> QED BY <2>1 DEF AnyFrame, OfKind
<1>3. {i \in DOMAIN box[e] : box[e][i].kind = k} = Places(box[e], OfKind(k))
  BY <1>2 DEF Places
<1>4. Num(box, e, k) \in Nat
  BY <1>1, CountType DEF Num
<1>5. Num(box, e, k) = 0 <=> \A i \in DOMAIN box[e] : box[e][i] \notin OfKind(k)
  BY <1>1, CountZero DEF Num
<1> QED BY <1>2, <1>3, <1>4, <1>5 DEF Num, CountIn

LEMMA PendingType == ASSUME NEW box \in Boxes, NEW h, NEW n, NEW c \in Cubes \cup {None}, NEW x \in Ends
                     PROVE  PendingOf(box, h, n, c, x) \in Nat
<1>1. Across(c, x) \in Ends \cup {None}
  BY AcrossType
<1>2. Num(box, x, "ack") \in Nat /\ (Across(c, x) # None => Num(box, Across(c, x), "ping") \in Nat)
  BY <1>1, NumIs
<1> QED BY <1>2 DEF PendingOf, OneIf

LEMMA PendingIs == ASSUME inbox \in Boxes, attached \in Cubes \cup {None}, NEW x \in Ends
                   PROVE  Pending(x) = PendingOf(inbox, handler, notified, attached, x)
<1>1. Across(attached, x) \in Ends \cup {None} /\ Other(x) = Across(attached, x)
  BY AcrossType, OtherIsAcross
<1>2. \A e \in Ends, k \in Kinds : Count(e, k) = Num(inbox, e, k)
  BY NumIs DEF Count
<1> QED BY <1>1, <1>2 DEF Pending, PendingOf, OneIf, Kinds

LEMMA PendingIsNext == ASSUME inbox' \in Boxes, attached' \in Cubes \cup {None}, NEW x \in Ends
                       PROVE  Pending(x)' = PendingOf(inbox', handler', notified', attached', x)
<1>1. Across(attached', x) \in Ends \cup {None} /\ Other(x)' = Across(attached', x)
  BY AcrossType DEF Other, Across
<1>2. \A e \in Ends, k \in Kinds : Count(e, k)' = Num(inbox', e, k)
  BY NumIs DEF Count
<1> QED BY <1>1, <1>2 DEF Pending, PendingOf, OneIf, Kinds

\* Receiving the first frame of e: one less of its kind.
LEMMA NumTail == ASSUME NEW box \in Boxes, NEW e \in Ends, box[e] # <<>>, NEW x \in Ends, NEW k
                 PROVE  Num(box, x, k) = Num([box EXCEPT ![e] = Tail(@)], x, k)
                                          + OneIf(x = e /\ Head(box[e]).kind = k)
<1> DEFINE r == [box EXCEPT ![e] = Tail(@)]
<1>1. Head(box[e]) \in OfKind(k) <=> Head(box[e]).kind = k
  BY FirstFrame DEF AnyFrame, OfKind
<1>2. r \in Boxes /\ Num(r, x, k) \in Nat
  BY FirstFrame, NumIs
<1>3. CASE x = e
  <2>1. r[x] = Tail(box[e])
    BY <1>3 DEF Boxes
  <2>2. box[e] \in Seq(AnyFrame)
    BY BoxQueues
  <2>3. CountIn(box[e], OfKind(k)) = CountIn(Tail(box[e]), OfKind(k)) + OneIf(Head(box[e]) \in OfKind(k))
    BY <2>2, CountTail
  <2> QED BY <1>1, <1>3, <2>1, <2>3 DEF Num, OneIf
<1>4. CASE x # e
  <2>1. r[x] = box[x]
    BY <1>4 DEF Boxes
  <2>2. Num(r, x, k) = Num(box, x, k)
    BY <2>1 DEF Num
  <2> QED BY <1>2, <1>4, <2>2 DEF OneIf
<1> QED BY <1>3, <1>4

\* Sending one: one more of its kind where it goes.
LEMMA NumSent == ASSUME NEW box \in Boxes, NEW e \in Ends, NEW j \in Kinds, NEW c \in Cubes \cup {None},
                        NEW x \in Ends, NEW k
                 PROVE  Num(SentTo(box, Across(c, e), e, j), x, k) = Num(box, x, k)
                                                                 + OneIf(x = Across(c, e) /\ j = k)
<1> DEFINE o == Across(c, e)
           m == [kind |-> j, from |-> e]
           r == SentTo(box, o, e, j)
<1>1. Num(box, x, k) \in Nat
  BY NumIs
<1>2. CASE x = o
  <2>1. o \in Ends /\ o # None
    BY <1>2, Names
  <2>2. r[x] = Append(box[o], m)
    BY <1>2, <2>1 DEF SentTo, Boxes
  <2>3. box[o] \in Seq(AnyFrame) /\ m \in AnyFrame
    BY <2>1, BoxQueues DEF AnyFrame
  <2>4. m \in OfKind(k) <=> j = k
    BY DEF OfKind
  <2>5. CountIn(Append(box[o], m), OfKind(k)) = CountIn(box[o], OfKind(k)) + OneIf(m \in OfKind(k))
    BY <2>3, CountAppend
  <2> HIDE DEF o, m, r
  <2>6. Num(r, x, k) = Num(box, x, k) + OneIf(x = o /\ j = k)
    BY <1>2, <2>2, <2>4, <2>5 DEF Num, OneIf
  <2> QED BY <2>6 DEF o, r
<1>3. CASE x # o
  <2>1. r[x] = box[x]
    BY <1>3 DEF SentTo, Boxes
  <2>2. Num(r, x, k) = Num(box, x, k)
    BY <2>1 DEF Num
  <2> QED BY <1>1, <1>3, <2>2 DEF OneIf
<1> QED BY <1>2, <1>3

\* A ping sent is outstanding for its sender, if it goes anywhere.
LEMMA PendingSent ==
  ASSUME NEW box \in Boxes, NEW h, NEW n, NEW c \in Cubes \cup {None}, NEW e \in Ends, NEW x \in Ends
  PROVE  PendingOf(SentTo(box, Across(c, e), e, "ping"), h, n, c, x)
           = PendingOf(box, h, n, c, x) + OneIf(x = e /\ Across(c, e) # None)
<1> DEFINE r == SentTo(box, Across(c, e), e, "ping")
           a == Across(c, x)
<1>0. "ping" \in Kinds
  BY DEF Kinds
<1>1. Num(r, x, "ack") = Num(box, x, "ack") + 0 /\ Num(box, x, "ack") \in Nat
  <2>1. Num(r, x, "ack") = Num(box, x, "ack") + OneIf(x = Across(c, e) /\ "ping" = "ack")
    BY <1>0, NumSent
  <2>2. Num(box, x, "ack") \in Nat
    BY NumIs
  <2> QED BY <2>1, <2>2 DEF OneIf
<1>2. a \in Ends \cup {None} /\ (a # None => (a = Across(c, e) <=> x = e))
  BY AcrossType
<1>3. a # None => /\ Num(r, a, "ping") = Num(box, a, "ping") + OneIf(a = Across(c, e))
                  /\ Num(box, a, "ping") \in Nat
  <2> SUFFICES ASSUME a # None
               PROVE  /\ Num(r, a, "ping") = Num(box, a, "ping") + OneIf(a = Across(c, e))
                      /\ Num(box, a, "ping") \in Nat
    OBVIOUS
  <2>0. a \in Ends
    BY <1>2
  <2> HIDE DEF a
  <2>1. Num(r, a, "ping") = Num(box, a, "ping") + OneIf(a = Across(c, e) /\ "ping" = "ping")
    BY <1>0, <2>0, NumSent
  <2>2. Num(box, a, "ping") \in Nat
    BY <2>0, NumIs
  <2> QED BY <2>1, <2>2 DEF OneIf
<1> HIDE DEF r, a
<1>4. PendingOf(r, h, n, c, x) = PendingOf(box, h, n, c, x) + OneIf(x = e /\ a # None)
  BY <1>1, <1>2, <1>3 DEF PendingOf, OneIf, a
<1>5. (x = e /\ a # None) <=> (x = e /\ Across(c, e) # None)
  BY DEF a
<1> QED BY <1>4, <1>5 DEF r

\* A ping answered leaves one answer outstanding instead.
LEMMA PendingAnswered ==
  ASSUME NEW box \in Boxes, NEW h, NEW n, NEW c \in Cubes \cup {None}, NEW e \in Ends, NEW x \in Ends,
         box[e] # <<>>, Head(box[e]).kind = "ping"
  PROVE  PendingOf(SentTo([box EXCEPT ![e] = Tail(@)], Across(c, e), e, "ack"), h, n, c, x)
           = PendingOf(box, h, n, c, x)
<1> DEFINE t == [box EXCEPT ![e] = Tail(@)]
           r == SentTo(t, Across(c, e), e, "ack")
           a == Across(c, x)
<1>0. t \in Boxes /\ Across(c, e) \in Ends \cup {None}
  BY FirstFrame, AcrossType
<1>1. Num(box, x, "ack") = Num(t, x, "ack") + 0 /\ Num(t, x, "ack") \in Nat
  <2>1. Num(box, x, "ack") = Num(t, x, "ack") + OneIf(x = e /\ Head(box[e]).kind = "ack")
    BY NumTail
  <2>2. Num(t, x, "ack") \in Nat
    BY <1>0, NumIs
  <2> QED BY <2>1, <2>2 DEF OneIf
<1>2. Num(r, x, "ack") = Num(t, x, "ack") + OneIf(x = Across(c, e))
  BY <1>0, NumSent DEF Kinds, OneIf
<1>3. a \in Ends \cup {None} /\ (a = e <=> x = Across(c, e))
  BY HandshakeAssumption DEF Across, Ends
<1>4. a # None => /\ Num(box, a, "ping") = Num(t, a, "ping") + OneIf(a = e)
                  /\ Num(t, a, "ping") \in Nat
  <2> SUFFICES ASSUME a \in Ends
               PROVE  /\ Num(box, a, "ping") = Num(t, a, "ping") + OneIf(a = e)
                      /\ Num(t, a, "ping") \in Nat
    BY <1>3
  <2> HIDE DEF a
  <2>1. Num(box, a, "ping") = Num(t, a, "ping") + OneIf(a = e /\ Head(box[e]).kind = "ping")
    BY SMTT(60), NumTail
  <2>2. Num(t, a, "ping") \in Nat
    BY <1>0, NumIs
  <2> QED BY <2>1, <2>2 DEF OneIf
<1> HIDE DEF t
<1>5. a # None => Num(r, a, "ping") = Num(t, a, "ping") + 0
  BY <1>0, <1>3, NumSent DEF Kinds, OneIf
<1>6. e # None
  BY Names
<1> HIDE DEF r, a
<1>7. PendingOf(r, h, n, c, x) = PendingOf(box, h, n, c, x)
  BY <1>1, <1>2, <1>3, <1>4, <1>5, <1>6 DEF PendingOf, OneIf, a
<1> QED BY <1>7 DEF r, t

\* An answer received is not under way any more.
LEMMA AnswerHeard ==
  ASSUME NEW box \in Boxes, NEW c \in Cubes \cup {None}, NEW e \in Ends, NEW x \in Ends,
         box[e] # <<>>, Head(box[e]).kind = "ack"
  PROVE  LET t == [box EXCEPT ![e] = Tail(@)]  a == Across(c, x) IN
         /\ Num(box, x, "ack") = Num(t, x, "ack") + OneIf(x = e) /\ Num(t, x, "ack") \in Nat
         /\ a # None => Num(box, a, "ping") = Num(t, a, "ping") /\ Num(t, a, "ping") \in Nat
<1> DEFINE t == [box EXCEPT ![e] = Tail(@)]
           a == Across(c, x)
<1>0. t \in Boxes
  BY FirstFrame
<1>1. Num(box, x, "ack") = Num(t, x, "ack") + OneIf(x = e) /\ Num(t, x, "ack") \in Nat
  <2>1. Num(box, x, "ack") = Num(t, x, "ack") + OneIf(x = e /\ Head(box[e]).kind = "ack")
    BY NumTail
  <2>2. Num(t, x, "ack") \in Nat
    BY <1>0, NumIs
  <2> QED BY <2>1, <2>2 DEF OneIf
<1>2. a \in Ends \cup {None}
  BY AcrossType
<1>3. a # None => Num(box, a, "ping") = Num(t, a, "ping") /\ Num(t, a, "ping") \in Nat
  <2> SUFFICES ASSUME a \in Ends
               PROVE  Num(box, a, "ping") = Num(t, a, "ping") /\ Num(t, a, "ping") \in Nat
    BY <1>2
  <2> HIDE DEF a
  <2>1. Num(box, a, "ping") = Num(t, a, "ping") + OneIf(a = e /\ Head(box[e]).kind = "ping")
    BY NumTail
  <2>2. Num(t, a, "ping") \in Nat
    BY <1>0, NumIs
  <2> QED BY <2>1, <2>2 DEF OneIf
<1> QED BY <1>1, <1>3

\* Nothing is outstanding if no answer is coming and none was told of.
LEMMA NothingPending ==
  ASSUME Types, NEW e \in Ends, ~AnswerComing(e), ~notified[e]
  PROVE  Pending(e) = 0
<1>1. inbox \in Boxes /\ attached \in Cubes \cup {None}
  BY AttachedType DEF Types
<1>2. Other(e) = Across(attached, e) /\ Other(e) \in Ends \cup {None}
  BY <1>1, OtherIsAcross, AcrossType
<1>3. Num(inbox, e, "ack") = 0
  BY <1>1, NumIs DEF AnswerComing, Has
<1>4. Other(e) # None => Num(inbox, Other(e), "ping") = 0
  BY <1>1, <1>2, NumIs DEF AnswerComing, Has
<1>5. handler[e].at # "notify"
  BY DEF AnswerComing
<1>6. Pending(e) = PendingOf(inbox, handler, notified, attached, e)
  BY <1>1, PendingIs
<1> QED BY <1>2, <1>3, <1>4, <1>5, <1>6 DEF PendingOf, OneIf

\* Two states with as much outstanding.
LEMMA PendingSame ==
  ASSUME Types, Types', NEW x \in Ends,
         inbox' = inbox, attached' = attached, notified' = notified,
         handler'[x].at = "notify" <=> handler[x].at = "notify"
  PROVE  Pending(x)' = Pending(x)
<1>1. Pending(x) = PendingOf(inbox, handler, notified, attached, x)
  BY AttachedType, PendingIs DEF Types
<1>2. attached' \in Cubes \cup {None} /\ inbox' \in Boxes
  BY AttachedType DEF Types
<1>3. Pending(x)' = PendingOf(inbox', handler', notified', attached', x)
  BY <1>2, PendingIsNext
<1> QED BY <1>1, <1>3 DEF PendingOf, OneIf

LEMMA PendingNat == ASSUME Types, NEW x \in Ends
                    PROVE  Pending(x) \in Nat
<1>1. inbox \in Boxes /\ attached \in Cubes \cup {None}
  BY AttachedType DEF Types
<1> QED BY <1>1, PendingIs, PendingType

\* What each step of the two tasks does to it.
LEMMA PingPending ==
  ASSUME Types, Types', NEW e \in Ends, NEW x \in Ends,
         \/ PingReset(e) \/ Timeout(e) \/ PingDecide(e) \/ PingFound(e) \/ PingLost(e)
         \/ PingReport(e)
  PROVE  Pending(x)' = Pending(x)
<1>1. inbox' = inbox /\ attached' = attached /\ notified' = notified /\ handler' = handler
  BY DEF PingReset, Timeout, PingDecide, PingFound, PingLost, PingReport, PingSnapshot, PingPost,
         userVars, ackVars
<1> QED BY <1>1, PendingSame

LEMMA PingSendPending ==
  ASSUME Types, Types', NEW e \in Ends, NEW x \in Ends, PingSend(e)
  PROVE  Pending(x)' = Pending(x) + OneIf(x = e /\ Other(e) # None)
<1>1. attached \in Cubes \cup {None} /\ inbox \in Boxes /\ inbox' \in Boxes
  BY AttachedType DEF Types
<1>2. /\ inbox' = SentTo(inbox, Across(attached, e), e, "ping")
      /\ handler' = handler /\ notified' = notified /\ attached' = attached
  BY SentIsSentTo DEF PingSend, userVars, ackVars
<1>3. PendingOf(SentTo(inbox, Across(attached, e), e, "ping"), handler, notified, attached, x)
        = PendingOf(inbox, handler, notified, attached, x) + OneIf(x = e /\ Across(attached, e) # None)
  BY <1>1, PendingSent
<1>4. Pending(x) = PendingOf(inbox, handler, notified, attached, x)
  BY <1>1, PendingIs
<1>5. Pending(x)' = PendingOf(inbox', handler', notified', attached', x)
  BY <1>1, <1>2, PendingIsNext
<1>6. Other(e) = Across(attached, e)
  BY OtherIsAcross
<1> QED BY <1>2, <1>3, <1>4, <1>5, <1>6

LEMMA NotifyTakePending ==
  ASSUME Types, Types', NEW e \in Ends, NEW x \in Ends, NotifyTake(e)
  PROVE  Pending(x) = Pending(x)' + OneIf(x = e)
<1>1. attached \in Cubes \cup {None} /\ inbox \in Boxes
  BY AttachedType DEF Types
<1>2. /\ inbox' = inbox /\ handler' = handler /\ attached' = attached
      /\ notified[e] /\ notified' = [notified EXCEPT ![e] = FALSE]
  BY DEF NotifyTake, userVars
<1>3. Pending(x) = PendingOf(inbox, handler, notified, attached, x)
  BY <1>1, PendingIs
<1>4. Pending(x)' = PendingOf(inbox, handler, notified', attached, x)
  BY <1>1, <1>2, PendingIsNext
<1>5. PendingOf(inbox, handler, notified, attached, x) \in Nat
      /\ PendingOf(inbox, handler, notified', attached, x) \in Nat
  BY <1>1, PendingType
<1>6. /\ Num(inbox, x, "ack") \in Nat
      /\ Across(attached, x) # None => Num(inbox, Across(attached, x), "ping") \in Nat
  BY <1>1, NumIs, AcrossType
<1>7. CASE x = e
  <2>1. notified[x] /\ ~notified'[x]
    BY <1>2, <1>7 DEF Types
  <2> QED BY <1>3, <1>4, <1>6, <1>7, <2>1 DEF PendingOf, OneIf
<1>8. CASE x # e
  <2>1. notified'[x] = notified[x]
    BY <1>2, <1>8 DEF Types
  <2> QED BY <1>3, <1>4, <1>5, <1>8, <2>1 DEF PendingOf, OneIf
<1> QED BY <1>7, <1>8

LEMMA HandlePending ==
  ASSUME Types, Types', NEW e \in Ends, NEW x \in Ends,
         HandlePing(e) \/ Adopt(e) \/ HandlerSnapshot(e) \/ HandlerPost(e) \/ HandleAck(e)
  PROVE  Pending(x)' = Pending(x)
<1> USE DEF userVars, ackVars
<1>0. attached \in Cubes \cup {None} /\ inbox \in Boxes /\ inbox' \in Boxes /\ handler \in Handlers
  BY AttachedType DEF Types
<1>1. CASE HandlePing(e)
  <2>1. /\ inbox[e] # <<>> /\ Head(inbox[e]).kind = "ping"
        /\ inbox' = SentTo([inbox EXCEPT ![e] = Tail(@)], Across(attached, e), e, "ack")
        /\ notified' = notified /\ attached' = attached
    BY <1>1, SentIsSentTo DEF HandlePing, Heads
  <2>2. handler'[x].at = "notify" <=> handler[x].at = "notify"
    BY <1>0, <1>1 DEF HandlePing, Handlers, Idle
  <2>3. PendingOf(inbox', handler, notified, attached, x)
          = PendingOf(inbox, handler, notified, attached, x)
    BY <1>0, <2>1, PendingAnswered
  <2>4. Pending(x) = PendingOf(inbox, handler, notified, attached, x)
    BY <1>0, PendingIs
  <2>5. Pending(x)' = PendingOf(inbox', handler', notified', attached', x)
    BY <1>0, <2>1, PendingIsNext
  <2> QED BY <2>1, <2>2, <2>3, <2>4, <2>5 DEF PendingOf, OneIf
<1>2. CASE HandleAck(e)
  <2>1. /\ inbox[e] # <<>> /\ Head(inbox[e]).kind = "ack"
        /\ inbox' = [inbox EXCEPT ![e] = Tail(@)]
        /\ notified' = notified /\ attached' = attached
    BY <1>2 DEF HandleAck, Heads
  <2>2. /\ handler[e].at # "notify" /\ handler'[e].at = "notify"
        /\ x # e => handler'[x].at = handler[x].at
    BY <1>0, <1>2 DEF HandleAck, Handlers, Idle
  <2> DEFINE t == [inbox EXCEPT ![e] = Tail(@)]
             a == Across(attached, x)
  <2>3. /\ Num(inbox, x, "ack") = Num(t, x, "ack") + OneIf(x = e) /\ Num(t, x, "ack") \in Nat
        /\ a # None => Num(inbox, a, "ping") = Num(t, a, "ping") /\ Num(t, a, "ping") \in Nat
    BY <1>0, <2>1, AnswerHeard
  <2>4. Pending(x) = PendingOf(inbox, handler, notified, attached, x)
    BY <1>0, PendingIs
  <2>5. Pending(x)' = PendingOf(inbox', handler', notified', attached', x)
    BY <1>0, <2>1, PendingIsNext
  <2>6. Pending(x)' = PendingOf(t, handler', notified, attached, x)
    BY <2>1, <2>5
  <2> HIDE DEF t, a
  <2> QED BY <2>2, <2>3, <2>4, <2>6 DEF PendingOf, OneIf, a
<1>3. CASE Adopt(e) \/ HandlerSnapshot(e) \/ HandlerPost(e)
  <2>1. inbox' = inbox /\ attached' = attached /\ notified' = notified
    BY <1>3 DEF Adopt, HandlerSnapshot, HandlerPost
  <2>2. handler'[x].at = "notify" <=> handler[x].at = "notify"
    BY <1>0, <1>3 DEF Adopt, HandlerSnapshot, HandlerPost, Handlers, Idle
  <2> QED BY <2>1, <2>2, PendingSame
<1> QED BY <1>1, <1>2, <1>3

\* A notification may find another pending; then one of them is lost.
LEMMA NotifyPending ==
  ASSUME Types, Types', NEW e \in Ends, NEW x \in Ends, Notify(e)
  PROVE  /\ Pending(x)' <= Pending(x)
         /\ x # e => Pending(x)' = Pending(x)
         /\ Pending(e)' >= 1
<1>1. attached \in Cubes \cup {None} /\ inbox \in Boxes /\ inbox' \in Boxes /\ handler \in Handlers
  BY AttachedType DEF Types
<1>2. inbox' = inbox /\ attached' = attached
  BY DEF Notify, userVars
<1>3. /\ handler[e].at = "notify" /\ handler'[e].at # "notify" /\ notified'[e]
      /\ x # e => handler'[x].at = handler[x].at /\ notified'[x] = notified[x]
  BY <1>1 DEF Notify, Types, Handlers, Idle
<1>4. \A y \in Ends : Pending(y) = PendingOf(inbox, handler, notified, attached, y)
  BY <1>1, PendingIs
<1>5. \A y \in Ends : Pending(y)' = PendingOf(inbox, handler', notified', attached, y)
  BY <1>1, <1>2, PendingIsNext
<1>6. \A y \in Ends : /\ Num(inbox, y, "ack") \in Nat
                      /\ Across(attached, y) # None => Num(inbox, Across(attached, y), "ping") \in Nat
  BY <1>1, NumIs, AcrossType
<1>7. Pending(e)' >= 1 /\ Pending(e)' <= Pending(e)
  BY <1>3, <1>4, <1>5, <1>6 DEF PendingOf, OneIf
<1>8. x # e => Pending(x)' = Pending(x)
  BY <1>3, <1>4, <1>5 DEF PendingOf, OneIf
<1>9. Pending(x) \in Nat
  BY PendingNat
<1> QED BY <1>7, <1>8, <1>9

\* The user and the wire only ever take something away.
LEMMA LoseFramePending ==
  ASSUME Types, Types', NEW e \in Ends, NEW x \in Ends, LoseFrame(e)
  PROVE  Pending(x)' <= Pending(x)
<1>1. attached \in Cubes \cup {None} /\ inbox \in Boxes /\ inbox' \in Boxes
  BY AttachedType DEF Types
<1>2. attached' = attached /\ handler' = handler /\ notified' = notified
  BY DEF LoseFrame, userVars, nodeVars, ackVars
<1>3. PICK i \in DOMAIN inbox[e] : inbox' = [inbox EXCEPT ![e] = RemoveAt(@, i)]
  BY DEF LoseFrame
<1>4. inbox[e] \in Seq(AnyFrame) /\ i \in 1 .. Len(inbox[e])
  BY <1>1, BoxQueues
<1>5. \A y \in Ends, k \in Kinds : Num(inbox', y, k) <= Num(inbox, y, k)
  <2> TAKE y \in Ends, k \in Kinds
  <2>1. Num(inbox, y, k) \in Nat
    BY <1>1, NumIs
  <2>2. CASE y = e
    <3>1. inbox'[y] = RemoveAt(inbox[e], i)
      BY <1>1, <1>3, <2>2 DEF Boxes
    <3>2. CountIn(RemoveAt(inbox[e], i), OfKind(k)) <= CountIn(inbox[e], OfKind(k))
      BY <1>4, CountRemoveAt
    <3> QED BY <2>2, <3>1, <3>2 DEF Num
  <2>3. CASE y # e
    <3>1. inbox'[y] = inbox[y]
      BY <1>1, <1>3, <2>3 DEF Boxes
    <3> QED BY <2>1, <3>1 DEF Num
  <2> QED BY <2>2, <2>3
<1>6. Across(attached, x) \in Ends \cup {None}
  BY <1>1, AcrossType
<1>7. /\ Num(inbox', x, "ack") <= Num(inbox, x, "ack")
      /\ Num(inbox', x, "ack") \in Nat /\ Num(inbox, x, "ack") \in Nat
  BY <1>1, <1>5, NumIs DEF Kinds
<1>8. Across(attached, x) # None =>
        /\ Num(inbox', Across(attached, x), "ping") <= Num(inbox, Across(attached, x), "ping")
        /\ Num(inbox', Across(attached, x), "ping") \in Nat
        /\ Num(inbox, Across(attached, x), "ping") \in Nat
  BY <1>1, <1>5, <1>6, NumIs DEF Kinds
<1>9. Pending(x) = PendingOf(inbox, handler, notified, attached, x)
  BY <1>1, PendingIs
<1>10. Pending(x)' = PendingOf(inbox', handler, notified, attached, x)
  BY <1>1, <1>2, PendingIsNext
<1> QED BY <1>7, <1>8, <1>9, <1>10 DEF PendingOf, OneIf

LEMMA DetachPending ==
  ASSUME Types, Types', NEW x \in Ends, Detach
  PROVE  /\ Pending(x)' <= Pending(x)
         /\ x = attached /\ attached \notin kit.own => Pending(x)' = 0
<1>1. attached \in Cubes \cup {None} /\ inbox \in Boxes /\ inbox' \in Boxes
  BY AttachedType DEF Types
<1>2. attached' = None /\ Across(None, x) = None
  BY HandshakeAssumption DEF Detach, Across, Ends
<1>3. /\ inbox'[x] = inbox[x] \/ inbox'[x] = <<>>
      /\ x = attached /\ attached \notin kit.own => inbox'[x] = <<>>
  BY <1>1 DEF Detach, Boxes
<1>4. Num(inbox, x, "ack") \in Nat
  BY <1>1, NumIs
<1>5. /\ Num(inbox', x, "ack") = Num(inbox, x, "ack") \/ Num(inbox', x, "ack") = 0
      /\ x = attached /\ attached \notin kit.own => Num(inbox', x, "ack") = 0
  BY <1>3, CountEmpty DEF Num
<1>6. /\ handler'[x].at = "notify" => handler[x].at = "notify"
      /\ notified'[x] => notified[x]
      /\ x = attached /\ attached \notin kit.own => handler'[x].at # "notify" /\ ~notified'[x]
  BY DEF Detach, Types, Handlers, Idle
<1>7. Across(attached, x) # None => Num(inbox, Across(attached, x), "ping") \in Nat
  BY <1>1, AcrossType, NumIs
<1>8. Pending(x) = PendingOf(inbox, handler, notified, attached, x)
  BY <1>1, PendingIs
<1>9. Pending(x)' = PendingOf(inbox', handler', notified', None, x)
  BY <1>1, <1>2, PendingIsNext
<1> QED BY <1>2, <1>4, <1>5, <1>6, <1>7, <1>8, <1>9 DEF PendingOf, OneIf

LEMMA AttachPending ==
  ASSUME Types, Types', NEW x \in Ends, NEW c \in Cubes, Attach(c)
  PROVE  Pending(x)' <= Pending(x)
<1>1. attached \in Cubes \cup {None} /\ inbox \in Boxes /\ attached' \in Cubes \cup {None}
  BY AttachedType DEF Types, Attach
<1>2. /\ inbox' = inbox /\ handler' = handler /\ notified' = notified /\ attached' = c
      /\ inbox[Upper] = <<>> /\ inbox[c] = <<>>
  BY DEF Attach, ackVars
<1>3. Num(inbox, Upper, "ping") = 0 /\ Num(inbox, c, "ping") = 0
  BY <1>2, CountEmpty DEF Num
<1>4. Across(c, x) \in {c, Upper, None}
  BY DEF Across
<1>5. /\ Num(inbox, x, "ack") \in Nat
      /\ Across(attached, x) # None => Num(inbox, Across(attached, x), "ping") \in Nat
  BY <1>1, AcrossType, NumIs
<1>6. Across(c, x) # None => Num(inbox, Across(c, x), "ping") = 0
  BY <1>3, <1>4
<1>7. Pending(x) = PendingOf(inbox, handler, notified, attached, x)
  BY <1>1, PendingIs
<1>8. Pending(x)' = PendingOf(inbox, handler, notified, c, x)
  BY <1>1, <1>2, PendingIsNext
<1> QED BY <1>5, <1>6, <1>7, <1>8 DEF PendingOf, OneIf
-----------------------------------------------------------------------------
(* An answer is never paired with the wrong ping *)

\* Late answers are only ever counted up.
LEMMA LateGrows == ASSUME Types, [Next]_vars, late' = 0
                   PROVE  late = 0
<1>1. late' = late \/ late' = late + 1
  BY DEF Next, Ping, PingWait, PingReport, Handle, PingReset, PingSend, NotifyTake, Timeout,
         PingDecide, PingFound, PingLost, PingSnapshot, PingPost, HandlePing, Adopt,
         HandlerSnapshot, HandlerPost, HandleAck, Notify, LoseFrame, Attach, Detach, budgets, vars
<1>2. late \in Nat
  BY HandshakeAssumption DEF Types
<1> QED BY <1>1, <1>2

\* The number of answers e may have outstanding at pc p.
Due(p) == IF p = "wait" THEN 1 ELSE 0

LEMMA NextOneOutstanding ==
  ASSUME Types, Types', OneOutstanding, [Next]_vars
  PROVE  OneOutstanding'
<1> SUFFICES ASSUME late' = 0, NEW x \in Ends
             PROVE  Pending(x)' <= Due(ping_pc'[x])
  BY DEF OneOutstanding, Due
<1>0. /\ Pending(x) \in Nat /\ Pending(x)' \in Nat
      /\ Pending(x) <= Due(ping_pc[x]) /\ late = 0
  <2>1. late = 0
    BY LateGrows
  <2>2. Pending(x)' \in Nat
    <3>1. inbox' \in Boxes /\ attached' \in Cubes \cup {None}
      BY HandshakeAssumption DEF Types
    <3>2. PendingOf(inbox', handler', notified', attached', x) \in Nat
      BY <3>1, PendingType
    <3> QED BY <3>1, <3>2, PendingIsNext
  <2> QED BY <2>1, <2>2, PendingNat DEF OneOutstanding, Due
<1>1. ASSUME NEW e \in Ends, PingSend(e) PROVE Pending(x)' <= Due(ping_pc'[x])
  <2>1. /\ ping_pc[e] = "send" /\ ping_pc'[e] = "wait"
        /\ x # e => ping_pc'[x] = ping_pc[x]
    BY <1>1 DEF PingSend, Types, PingPcs
  <2>2. Pending(x)' = Pending(x) + OneIf(x = e /\ Other(e) # None)
    BY <1>1, PingSendPending
  <2> QED BY <1>0, <2>1, <2>2 DEF OneIf, Due
<1>2. ASSUME NEW e \in Ends, NotifyTake(e) PROVE Pending(x)' <= Due(ping_pc'[x])
  <2>1. /\ ping_pc[e] = "wait"
        /\ x # e => ping_pc'[x] = ping_pc[x]
    BY <1>2 DEF NotifyTake, Types, PingPcs
  <2>2. Pending(x) = Pending(x)' + OneIf(x = e)
    BY <1>2, NotifyTakePending
  <2> QED BY <1>0, <2>1, <2>2 DEF OneIf, Due
<1>3. ASSUME NEW e \in Ends, Timeout(e) PROVE Pending(x)' <= Due(ping_pc'[x])
  <2>1. ~notified[e] /\ (x # e => ping_pc'[x] = ping_pc[x])
    BY <1>3 DEF Timeout, Types, PingPcs
  <2>2. ~AnswerComing(e)
    BY <1>0, <1>3 DEF Timeout
  <2>3. Pending(e) = 0
    BY <2>1, <2>2, NothingPending
  <2>4. Pending(x)' = Pending(x)
    BY <1>3, PingPending
  <2> QED BY <1>0, <2>1, <2>3, <2>4 DEF Due
<1>4. ASSUME NEW e \in Ends,
             PingReset(e) \/ PingDecide(e) \/ PingFound(e) \/ PingLost(e) \/ PingReport(e)
      PROVE  Pending(x)' <= Due(ping_pc'[x])
  <2>1. Due(ping_pc'[x]) = Due(ping_pc[x])
    BY <1>4 DEF PingReset, PingDecide, PingFound, PingLost, PingReport, PingSnapshot, PingPost,
                Types, PingPcs, Due
  <2>2. Pending(x)' = Pending(x)
    BY <1>4, PingPending
  <2> QED BY <1>0, <2>1, <2>2
<1>5. ASSUME NEW e \in Ends, Handle(e) PROVE Pending(x)' <= Due(ping_pc'[x])
  <2>1. ping_pc' = ping_pc
    BY <1>5 DEF Handle, HandlePing, Adopt, HandlerSnapshot, HandlerPost, HandleAck, Notify
  <2>2. Pending(x)' <= Pending(x)
    BY <1>0, <1>5, HandlePending, NotifyPending DEF Handle
  <2> QED BY <1>0, <2>1, <2>2 DEF Due
<1>6. ASSUME NEW e \in Ends, LoseFrame(e) PROVE Pending(x)' <= Due(ping_pc'[x])
  <2>1. ping_pc' = ping_pc
    BY <1>6 DEF LoseFrame, nodeVars
  <2>2. Pending(x)' <= Pending(x)
    BY <1>6, LoseFramePending
  <2> QED BY <1>0, <2>1, <2>2 DEF Due
<1>7. ASSUME Detach PROVE Pending(x)' <= Due(ping_pc'[x])
  <2>1. \/ ping_pc'[x] = ping_pc[x]
        \/ x = attached /\ attached \notin kit.own
    BY <1>7 DEF Detach, Types, PingPcs
  <2>2. /\ Pending(x)' <= Pending(x)
        /\ x = attached /\ attached \notin kit.own => Pending(x)' = 0
    BY <1>7, DetachPending
  <2> QED BY <1>0, <2>1, <2>2 DEF Due
<1>8. ASSUME NEW c \in Cubes, Attach(c) PROVE Pending(x)' <= Due(ping_pc'[x])
  <2>1. Due(ping_pc'[x]) = Due(ping_pc[x])
    BY <1>8 DEF Attach, Types, PingPcs, Due
  <2>2. Pending(x)' <= Pending(x)
    BY <1>8, AttachPending
  <2> QED BY <1>0, <2>1, <2>2 DEF Due
<1>9. CASE UNCHANGED vars
  <2>1. Pending(x)' = Pending(x) /\ ping_pc' = ping_pc
    BY <1>9, PendingSame DEF vars, nodeVars, ackVars, userVars
  <2> QED BY <1>0, <2>1
<1> QED BY <1>1, <1>2, <1>3, <1>4, <1>5, <1>6, <1>7, <1>8, <1>9 DEF Next, Ping, PingWait

LEMMA NextTold ==
  ASSUME Types, Types', OneOutstanding, Told, [Next]_vars
  PROVE  Told'
<1> SUFFICES ASSUME late' = 0, NEW x \in Ends, handler'[x].at = "notify" \/ notified'[x]
             PROVE  received'[x]
  BY DEF Told
<1>0. late = 0 /\ (handler[x].at = "notify" \/ notified[x] => received[x])
  BY LateGrows DEF Told
<1>1. ASSUME NEW e \in Ends, PingReset(e) PROVE received'[x]
  <2>1. handler' = handler /\ notified' = notified /\ ping_pc[e] = "reset"
    BY <1>1 DEF PingReset
  <2>2. CASE x = e
    <3>1. Pending(e) <= 0
      BY <1>0, <2>1 DEF OneOutstanding
    <3>2. inbox \in Boxes /\ attached \in Cubes \cup {None}
      BY AttachedType DEF Types
    <3>3. Pending(e) = PendingOf(inbox, handler, notified, attached, e)
      BY <3>2, PendingIs
    <3>4. /\ Num(inbox, e, "ack") \in Nat
          /\ Across(attached, e) # None => Num(inbox, Across(attached, e), "ping") \in Nat
      BY <3>2, AcrossType, NumIs
    <3>5. handler[e].at # "notify" /\ ~notified[e]
      BY <3>1, <3>3, <3>4 DEF PendingOf, OneIf
    <3> QED BY <2>1, <2>2, <3>5
  <2>3. CASE x # e
    BY <1>0, <1>1, <2>1, <2>3 DEF PingReset, Types
  <2> QED BY <2>2, <2>3
<1>2. ASSUME NEW e \in Ends, HandleAck(e) PROVE received'[x]
  BY <1>0, <1>2 DEF HandleAck, Types, Handlers
<1>3. ASSUME NEW e \in Ends, Notify(e) PROVE received'[x]
  BY <1>0, <1>3 DEF Notify, Types, Handlers
<1>4. ASSUME NEW e \in Ends, NotifyTake(e) PROVE received'[x]
  BY <1>0, <1>4 DEF NotifyTake, Types
<1>5. ASSUME NEW e \in Ends,
             \/ PingSend(e) \/ Timeout(e) \/ PingDecide(e) \/ PingFound(e) \/ PingLost(e)
             \/ PingReport(e) \/ LoseFrame(e)
      PROVE  received'[x]
  <2>1. handler' = handler /\ notified' = notified /\ received' = received
    BY <1>5 DEF PingSend, Timeout, PingDecide, PingFound, PingLost, PingReport, PingSnapshot,
                PingPost, LoseFrame, ackVars, nodeVars
  <2> QED BY <1>0, <2>1
<1>6. ASSUME NEW e \in Ends,
             HandlePing(e) \/ Adopt(e) \/ HandlerSnapshot(e) \/ HandlerPost(e)
      PROVE  received'[x]
  <2>1. notified' = notified /\ received' = received
    BY <1>6 DEF HandlePing, Adopt, HandlerSnapshot, HandlerPost, ackVars
  <2>2. handler'[x].at = "notify" => handler[x].at = "notify"
    BY <1>6 DEF HandlePing, Adopt, HandlerSnapshot, HandlerPost, Types, Handlers, Idle
  <2> QED BY <1>0, <2>1, <2>2
<1>7. ASSUME Detach PROVE received'[x]
  BY <1>0, <1>7 DEF Detach, Types, Handlers, Idle
<1>8. ASSUME NEW c \in Cubes, Attach(c) PROVE received'[x]
  BY <1>0, <1>8 DEF Attach, ackVars
<1>9. CASE UNCHANGED vars
  BY <1>0, <1>9 DEF vars, nodeVars, ackVars
<1> QED BY <1>1, <1>2, <1>3, <1>4, <1>5, <1>6, <1>7, <1>8, <1>9 DEF Next, Ping, PingWait, Handle

\* What Undisturbed says of one end.
Answered(e) == ~disturbed[e] =>
    /\ Other(e) # None
    /\ ping_pc[e] = "wait" => Pending(e) >= 1
    /\ ping_pc[e] = "decide" => received[e]
    /\ ping_pc[e] # "lost"

LEMMA NextUndisturbed ==
  ASSUME Types, Types', Told, Undisturbed, [Next]_vars
  PROVE  Undisturbed'
<1> SUFFICES ASSUME late' = 0, NEW x \in Ends
             PROVE  Answered(x)'
  BY DEF Undisturbed, Answered
<1>0. late = 0 /\ Answered(x)
  BY LateGrows DEF Undisturbed, Answered
<1>1. ASSUME NEW e \in Ends, PingSend(e) PROVE Answered(x)'
  <2>1. Pending(x)' = Pending(x) + OneIf(x = e /\ Other(e) # None)
    BY <1>1, PingSendPending
  <2>2. Other(x)' = Other(x)
    BY <1>1 DEF PingSend, userVars, Other
  <2>3. Pending(x) \in Nat
    BY PendingNat
  <2>4. CASE x = e
    <3>1. ping_pc'[x] = "wait" /\ (~disturbed'[x] => Other(x) # None)
      BY <1>1, <2>4 DEF PingSend, Types, PingPcs
    <3>2. Other(x) # None => Pending(x)' >= 1
      BY <2>1, <2>3, <2>4 DEF OneIf
    <3> QED BY <2>2, <3>1, <3>2 DEF Answered
  <2>5. CASE x # e
    <3>1. /\ ping_pc'[x] = ping_pc[x] /\ disturbed'[x] = disturbed[x]
          /\ received' = received /\ Pending(x)' = Pending(x)
      BY <1>1, <2>1, <2>3, <2>5 DEF PingSend, Types, PingPcs, ackVars, OneIf
    <3> QED BY <1>0, <2>2, <3>1 DEF Answered
  <2> QED BY <2>4, <2>5
<1>2. ASSUME NEW e \in Ends, NotifyTake(e) PROVE Answered(x)'
  <2>1. Other(x)' = Other(x) /\ disturbed' = disturbed /\ received' = received
    BY <1>2 DEF NotifyTake, userVars, Other
  <2>2. Pending(x) = Pending(x)' + OneIf(x = e)
    BY <1>2, NotifyTakePending
  <2>3. CASE x = e
    <3>1. ping_pc'[x] = "decide" /\ received[x]
      BY <1>0, <1>2, <2>3 DEF NotifyTake, Types, PingPcs, Told
    <3> QED BY <1>0, <2>1, <3>1 DEF Answered
  <2>4. CASE x # e
    <3>1. ping_pc'[x] = ping_pc[x]
      BY <1>2, <2>4 DEF NotifyTake, Types, PingPcs
    <3>2. ping_pc[x] = "wait" /\ ~disturbed[x] => Pending(x)' >= 1
      <4>1. inbox' \in Boxes /\ attached' \in Cubes \cup {None}
        BY HandshakeAssumption DEF Types
      <4>2. PendingOf(inbox', handler', notified', attached', x) \in Nat
        BY <4>1, PendingType
      <4>3. Pending(x)' \in Nat
        BY <4>1, <4>2, PendingIsNext
      <4> QED BY <1>0, <2>2, <2>4, <4>3 DEF Answered, OneIf
    <3> QED BY <1>0, <2>1, <3>1, <3>2 DEF Answered
  <2> QED BY <2>3, <2>4
<1>3. ASSUME NEW e \in Ends, Timeout(e) PROVE Answered(x)'
  <2>1. /\ ping_pc[e] = "wait" /\ ~notified[e] /\ ping_pc'[e] = "decide"
        /\ x # e => ping_pc'[x] = ping_pc[x]
    BY <1>3 DEF Timeout, Types, PingPcs
  <2>2. Other(x)' = Other(x) /\ disturbed' = disturbed /\ received' = received
    BY <1>3 DEF Timeout, userVars, Other, ackVars
  <2>3. ~AnswerComing(e)
    BY <1>0, <1>3 DEF Timeout
  <2>4. Pending(e) = 0
    BY <2>1, <2>3, NothingPending
  <2>5. Pending(x)' = Pending(x)
    BY <1>3, PingPending
  <2> QED BY <1>0, <2>1, <2>2, <2>4, <2>5 DEF Answered
<1>4. ASSUME NEW e \in Ends,
             PingReset(e) \/ PingDecide(e) \/ PingFound(e) \/ PingLost(e) \/ PingReport(e)
      PROVE  Answered(x)'
  <2>1. Other(x)' = Other(x) /\ disturbed' = disturbed
    BY <1>4 DEF PingReset, PingDecide, PingFound, PingLost, PingReport, PingSnapshot, PingPost,
                userVars, Other
  <2>2. Pending(x)' = Pending(x)
    BY <1>4, PingPending
  <2>3. \/ ping_pc'[x] = ping_pc[x] /\ received'[x] = received[x]
        \/ ping_pc'[x] \in {"send", "reset", "found", "snap", "post"}
        \/ ping_pc[x] = "decide" /\ ping_pc'[x] = "lost" /\ ~received[x]
    BY <1>4 DEF PingReset, PingDecide, PingFound, PingLost, PingReport, PingSnapshot, PingPost,
                ackVars, Types, PingPcs
  <2> QED BY <1>0, <2>1, <2>2, <2>3 DEF Answered
<1>5. ASSUME NEW e \in Ends, Handle(e) PROVE Answered(x)'
  <2>1. /\ Other(x)' = Other(x) /\ disturbed' = disturbed /\ ping_pc' = ping_pc
        /\ received[x] => received'[x]
    BY <1>5 DEF Handle, HandlePing, Adopt, HandlerSnapshot, HandlerPost, HandleAck, Notify,
                userVars, ackVars, Other, Types
  <2>2. Pending(x)' = Pending(x) \/ Pending(x)' >= 1
    BY <1>5, HandlePending, NotifyPending DEF Handle
  <2> QED BY <1>0, <2>1, <2>2 DEF Answered
<1>6. ASSUME \/ Detach \/ (\E c \in Cubes : Attach(c)) \/ (\E e \in Ends : LoseFrame(e))
      PROVE  Answered(x)'
  <2>1. disturbed'[x] = TRUE
    BY <1>6 DEF Detach, Attach, LoseFrame
  <2> QED BY <2>1 DEF Answered
<1>7. CASE UNCHANGED vars
  <2>1. Pending(x)' = Pending(x) /\ Other(x)' = Other(x)
    BY <1>7, PendingSame DEF vars, nodeVars, ackVars, userVars, Other
  <2> QED BY <1>0, <1>7, <2>1 DEF Answered, vars, nodeVars, ackVars
<1> QED BY <1>1, <1>2, <1>3, <1>4, <1>5, <1>6, <1>7 DEF Next, Ping, PingWait
-----------------------------------------------------------------------------
(* The last report of an end is true *)

LEMMA PingFresh ==
  ASSUME Types, Types', NEW e \in Ends, Fresh(e), Ping(e)
  PROVE  Fresh(e)'
<1> USE DEF userVars, ackVars, nodeVars, reportVars, Reporting, Correct, Deferred
<1>1. CASE PingReset(e) \/ PingSend(e) \/ NotifyTake(e) \/ Timeout(e) \/ PingDecide(e)
  <2>1. /\ peer' = peer /\ snap' = snap /\ handler' = handler
        /\ reported' = reported /\ raced' = raced
    BY <1>1 DEF PingReset, PingSend, NotifyTake, Timeout, PingDecide
  <2>2. ping_pc[e] \notin {"snap", "post"} /\ ping_pc'[e] \notin {"snap", "post"}
    BY <1>1 DEF PingReset, PingSend, NotifyTake, Timeout, PingDecide, Types, PingPcs
  <2> QED BY <2>1, <2>2 DEF Fresh
<1>2. CASE PingFound(e) \/ (PingLost(e) /\ e = Upper)
  <2>1. /\ ping_pc'[e] = "snap" /\ raced'[e] = (handler[e].at \in {"snap", "post"})
        /\ handler' = handler
    BY <1>2 DEF PingFound, PingLost, Begin, Types, PingPcs
  <2> QED BY <2>1 DEF Fresh
<1>3. CASE PingLost(e) /\ e # Upper
  <2>1. /\ ping_pc'[e] = "reset" /\ raced' = raced /\ handler' = handler
        /\ peer'[e] = None
    BY <1>3 DEF PingLost, Types, PingPcs, Peers
  <2>2. ping_pc[e] = "lost"
    BY <1>3 DEF PingLost
  <2> QED BY <1>3, <2>1, <2>2 DEF Fresh
<1>4. CASE PingSnapshot(e)
  <2>1. /\ peer' = peer /\ handler' = handler /\ reported' = reported /\ raced' = raced
        /\ ping_pc[e] = "snap"
    BY <1>4 DEF PingSnapshot
  <2>2. CASE Deferred(e)
    <3>1. ping_pc'[e] = "reset"
      BY <1>4, <2>2 DEF PingSnapshot, Types, PingPcs
    <3> QED BY <2>1, <2>2, <3>1 DEF Fresh
  <2>3. CASE ~Deferred(e)
    <3>1. ping_pc'[e] = "post" /\ snap'[e]["ping"] = peer[e]
      BY <1>4, <2>3 DEF PingSnapshot, Snapshot, Types, PingPcs, Snaps
    <3> QED BY <2>1, <3>1 DEF Fresh
  <2> QED BY <2>2, <2>3
<1>5. CASE PingPost(e)
  <2>1. /\ peer' = peer /\ handler' = handler /\ raced' = raced /\ ping_pc[e] = "post"
        /\ ping_pc'[e] = "reset" /\ reported'[e] = snap[e]["ping"]
    BY <1>5 DEF PingPost, Post, Types, PingPcs
  <2> QED BY <2>1 DEF Fresh
<1> QED BY <1>1, <1>2, <1>3, <1>4, <1>5 DEF Ping, PingWait, PingReport

LEMMA HandleFresh ==
  ASSUME Types, Types', NEW e \in Ends, Fresh(e), Handle(e)
  PROVE  Fresh(e)'
<1> USE DEF userVars, ackVars, nodeVars, reportVars, Reporting, Correct, Deferred
<1>0. handler \in Handlers
  BY DEF Types
<1>1. CASE HandlePing(e) \/ HandleAck(e) \/ Notify(e)
  <2>1. /\ peer' = peer /\ snap' = snap /\ ping_pc' = ping_pc
        /\ reported' = reported /\ raced' = raced
    BY <1>1 DEF HandlePing, HandleAck, Notify
  <2>2. handler[e].at \notin {"snap", "post"} /\ handler'[e].at \notin {"snap", "post"}
    BY <1>0, <1>1 DEF HandlePing, HandleAck, Notify, Handlers, Idle
  <2> QED BY <2>1, <2>2 DEF Fresh
<1>2. CASE Adopt(e)
  <2>1. ping_pc' = ping_pc /\ handler[e].at = "adopt" /\ peer'[e] = handler[e].from
    BY <1>2 DEF Adopt, Types, Peers
  <2>2. CASE peer[e] = handler[e].from
    <3>1. /\ handler'[e].at = "idle" /\ raced' = raced /\ snap' = snap /\ reported' = reported
      BY <1>0, <1>2, <2>2 DEF Adopt, Handlers, Idle
    <3> QED BY <2>1, <2>2, <3>1 DEF Fresh
  <2>3. CASE peer[e] # handler[e].from
    <3>1. handler'[e].at = "snap" /\ raced'[e] = (ping_pc[e] \in {"snap", "post"})
      BY <1>0, <1>2, <2>3 DEF Adopt, Begin, Types, Handlers
    <3> QED BY <2>1, <3>1 DEF Fresh
  <2> QED BY <2>2, <2>3
<1>3. CASE HandlerSnapshot(e)
  <2>1. /\ peer' = peer /\ ping_pc' = ping_pc /\ reported' = reported /\ raced' = raced
        /\ handler[e].at = "snap"
    BY <1>3 DEF HandlerSnapshot
  <2>2. CASE Deferred(e)
    <3>1. handler'[e].at = "idle" /\ snap' = snap
      BY <1>0, <1>3, <2>2 DEF HandlerSnapshot, Handlers, Idle
    <3> QED BY <2>1, <2>2, <3>1 DEF Fresh
  <2>3. CASE ~Deferred(e)
    <3>1. handler'[e].at = "post" /\ snap'[e]["handler"] = peer[e]
      BY <1>0, <1>3, <2>3 DEF HandlerSnapshot, Snapshot, Types, Handlers, Snaps
    <3> QED BY <2>1, <3>1 DEF Fresh
  <2> QED BY <2>2, <2>3
<1>4. CASE HandlerPost(e)
  <2>1. /\ peer' = peer /\ ping_pc' = ping_pc /\ raced' = raced /\ handler[e].at = "post"
        /\ handler'[e].at = "idle" /\ reported'[e] = snap[e]["handler"]
    BY <1>0, <1>4 DEF HandlerPost, Post, Types, Handlers, Idle
  <2> QED BY <2>1 DEF Fresh
<1> QED BY <1>1, <1>2, <1>3, <1>4 DEF Handle

\* Nobody else touches what an end reports, but an unplugged cube may lose it all.
LEMMA OwnFresh ==
  ASSUME NEW e \in Ends, Fresh(e), ping_pc'[e] = ping_pc[e], handler'[e] = handler[e],
         snap'[e] = snap[e], peer'[e] = peer[e], reported'[e] = reported[e], raced'[e] = raced[e]
  PROVE  Fresh(e)'
  BY DEF Fresh, Reporting, Correct, Deferred

LEMMA OthersOwn ==
  ASSUME Types, NEW x \in Ends, NEW e \in Ends, e # x, Ping(x) \/ Handle(x)
  PROVE  /\ ping_pc'[e] = ping_pc[e] /\ handler'[e] = handler[e] /\ snap'[e] = snap[e]
         /\ peer'[e] = peer[e] /\ reported'[e] = reported[e] /\ raced'[e] = raced[e]
<1> USE DEF userVars, ackVars, nodeVars, reportVars, Begin, Snapshot, Post, Types, PingPcs,
            Handlers, Snaps, Peers
<1>1. CASE PingReset(x) \/ PingSend(x) \/ NotifyTake(x) \/ Timeout(x) \/ PingDecide(x)
  BY <1>1 DEF PingReset, PingSend, NotifyTake, Timeout, PingDecide
<1>2. CASE PingFound(x) \/ PingLost(x)
  BY <1>2 DEF PingFound, PingLost
<1>3. CASE PingSnapshot(x) \/ PingPost(x)
  BY <1>3 DEF PingSnapshot, PingPost
<1>4. CASE HandlePing(x) \/ HandleAck(x) \/ Notify(x)
  BY <1>4 DEF HandlePing, HandleAck, Notify
<1>5. CASE Adopt(x)
  BY <1>5 DEF Adopt
<1>6. CASE HandlerSnapshot(x) \/ HandlerPost(x)
  BY <1>6 DEF HandlerSnapshot, HandlerPost
<1> QED BY <1>1, <1>2, <1>3, <1>4, <1>5, <1>6 DEF Ping, PingWait, PingReport, Handle

LEMMA NextFreshReports ==
  ASSUME Types, Types', FreshReports, [Next]_vars
  PROVE  FreshReports'
<1> SUFFICES ASSUME NEW e \in Ends PROVE Fresh(e)'
  BY DEF FreshReports
<1>0. Fresh(e)
  BY DEF FreshReports
<1>1. ASSUME NEW x \in Ends, Ping(x) \/ Handle(x) PROVE Fresh(e)'
  <2>1. CASE x = e
    BY <1>0, <1>1, <2>1, PingFresh, HandleFresh
  <2>2. CASE x # e
    BY <1>0, <1>1, <2>2, OthersOwn, OwnFresh
  <2> QED BY <2>1, <2>2
<1>2. ASSUME NEW x \in Ends, LoseFrame(x) PROVE Fresh(e)'
  BY <1>0, <1>2, OwnFresh DEF LoseFrame, nodeVars, reportVars
<1>3. CASE Detach
  <2>1. CASE e = attached /\ attached \notin kit.own
    <3>1. ping_pc'[e] = "off" /\ handler'[e] = Idle /\ peer'[e] = None /\ raced' = raced
      BY <1>3, <2>1 DEF Detach, Types, PingPcs, Handlers, Peers, reportVars
    <3>2. e # Upper
      BY <2>1, AttachedType, Names
    <3> QED BY <3>1, <3>2 DEF Fresh, Reporting, Deferred, Correct, Idle
  <2>2. CASE ~(e = attached /\ attached \notin kit.own)
    <3>1. /\ ping_pc'[e] = ping_pc[e] /\ handler'[e] = handler[e] /\ snap'[e] = snap[e]
          /\ peer'[e] = peer[e] /\ reported'[e] = reported[e] /\ raced'[e] = raced[e]
      BY <1>3, <2>2 DEF Detach, Types, PingPcs, Handlers, Peers, Snaps, reportVars
    <3> QED BY <1>0, <3>1, OwnFresh
  <2> QED BY <2>1, <2>2
<1>4. ASSUME NEW c \in Cubes, Attach(c) PROVE Fresh(e)'
  <2>1. /\ peer' = peer /\ handler' = handler /\ snap' = snap
        /\ reported' = reported /\ raced' = raced
    BY <1>4 DEF Attach, reportVars
  <2>2. \/ ping_pc'[e] = ping_pc[e]
        \/ ping_pc[e] = "off" /\ ping_pc'[e] = "reset"
    BY <1>4 DEF Attach, Types, PingPcs
  <2> QED BY <1>0, <2>1, <2>2 DEF Fresh, Reporting, Deferred, Correct
<1>5. CASE UNCHANGED vars
  BY <1>0, <1>5, OwnFresh DEF vars, nodeVars, reportVars
<1> QED BY <1>1, <1>2, <1>3, <1>4, <1>5 DEF Next
-----------------------------------------------------------------------------
(* The inductive invariant *)

LEMMA InitIInv == Init => IInv
<1> SUFFICES ASSUME Init PROVE IInv
  OBVIOUS
<1>1. Types
  BY InitTypes
<1>2. \A e \in Ends : Pending(e) = 0
  <2> TAKE e \in Ends
  <2>1. ~AnswerComing(e) /\ ~notified[e]
    <3>1. Other(e) \in Ends \cup {None}
      BY <1>1, AttachedType, OtherIsAcross, AcrossType
    <3> QED BY <3>1 DEF Init, AnswerComing, Has, Idle
  <2> QED BY <1>1, <2>1, NothingPending
<1>3. OneOutstanding
  BY <1>2 DEF OneOutstanding
<1>4. Told /\ Undisturbed
  BY DEF Init, Told, Undisturbed, Idle
<1>5. FreshReports
  <2> SUFFICES ASSUME NEW e \in Ends PROVE Fresh(e)
    BY DEF FreshReports
  <2>1. /\ ping_pc[e] \in {"reset", "off"} /\ handler[e].at = "idle"
        /\ peer[e] = None /\ reported[e] = None
    BY DEF Init, Idle
  <2> QED BY <2>1 DEF Fresh, Reporting
<1> QED BY <1>1, <1>3, <1>4, <1>5, TypesAre DEF IInv

LEMMA NextIInv == IInv /\ [Next]_vars => IInv'
<1> SUFFICES ASSUME IInv, [Next]_vars PROVE IInv'
  OBVIOUS
<1>1. Types
  BY TypesAre DEF IInv
<1>2. Types'
  BY <1>1, NextTypes
<1>3. TypeOK' /\ NearOK'
  <2>1. (TypeOK /\ NearOK)' <=> Types'
    BY TypesAre, PTL
  <2> QED BY <1>2, <2>1
<1>4. OneOutstanding'
  BY <1>1, <1>2, NextOneOutstanding DEF IInv
<1>5. Told'
  BY <1>1, <1>2, NextTold DEF IInv
<1>6. Undisturbed'
  BY <1>1, <1>2, NextUndisturbed DEF IInv
<1>7. FreshReports'
  BY <1>1, <1>2, NextFreshReports DEF IInv
<1> QED BY <1>3, <1>4, <1>5, <1>6, <1>7 DEF IInv

\* IInv is an invariant: whatever the user and the wire do to the link, and
\* however its tasks interleave.
THEOREM Invariance == Spec => []IInv
  BY InitIInv, NextIInv, PTL DEF Spec

\* The ids of handle_handshake.cpp only ever name an end that can be on the
\* other side: a cube is never its own neighbour, nor another cube's.
THEOREM TypeCorrect == Spec => []TypeOK
<1>1. IInv => TypeOK
  BY DEF IInv
<1> QED BY <1>1, Invariance, PTL

\* The notification task_ping_... waits for answers the ping it sent last, as
\* long as no answer comes after its wait.
THEOREM AnswersPaired == Spec => []OneOutstanding
<1>1. IInv => OneOutstanding
  BY DEF IInv
<1> QED BY <1>1, Invariance, PTL

\* Unless both tasks of an end reported at once, the last report of an end
\* names the neighbour it has.
THEOREM ReportsTrue == Spec => []RootUpToDate
<1>1. IInv => RootUpToDate
  BY DEF IInv, FreshReports, Fresh, RootUpToDate
<1> QED BY <1>1, Invariance, PTL

\* As long as no answer came after its wait, no neighbour is given up unless
\* the link was touched, or a frame lost, since the ping left unanswered.
DropsInTimeAreDue == [][late = 0 => \A e \in Ends : PingLost(e) => disturbed[e]]_vars

THEOREM DropsInTime == Spec => DropsInTimeAreDue
<1>1. IInv => (late = 0 => \A e \in Ends : PingLost(e) => disturbed[e])
  <2> SUFFICES ASSUME IInv, late = 0, NEW e \in Ends, PingLost(e) PROVE disturbed[e]
    OBVIOUS
  <2>1. disturbed[e] \in BOOLEAN
    BY DEF IInv, TypeOK
  <2> QED BY <2>1 DEF IInv, Undisturbed, PingLost
<1> QED BY <1>1, Invariance, PTL DEF DropsInTimeAreDue

\* If none ever does, that is so of every neighbour given up.
THEOREM DropsDue == ASSUME MaxLate = 0
                    PROVE  Spec => DropsAreDue
<1>1. IInv => late = 0
  BY DEF IInv, TypeOK
<1> QED BY <1>1, Invariance, DropsInTime, PTL DEF DropsAreDue, DropsInTimeAreDue
=============================================================================
