-------------------------- MODULE ServoTask_proofs --------------------------
(***************************************************************************)
(* Proofs about ServoTask, for any range, limits, queue length and number  *)
(* of commands: types and the bounds of position, speed and acceleration,  *)
(* that no command is acknowledged twice, that the FSM does not go back to *)
(* an older command, and that no tick makes the servo jump.                *)
(***************************************************************************)
EXTENDS ServoTask, SequenceTheorems, TLAPS

Motions == [pos : Positions, vel : Nat, acc : Int, phase : Phases, done : BOOLEAN, fresh : BOOLEAN]

\* A motion within the limits of some command, which need not be the one
\* carried out: one that preempts takes over speed and acceleration.
Within(m) == /\ m \in Motions
             /\ \E p \in Limits : m.vel <= p.speed
             /\ \E p \in Limits : m.acc <= p.acc
             /\ \E p \in Limits : -p.acc <= m.acc

One(b) == IF b THEN 1 ELSE 0

Accepted == sent - One(api.at # "idle")

\* Where the number of a command can be: at one place in the queue, carried
\* out, or acknowledged, but not in two of these.
Acked == {acks[i] : i \in 1 .. Len(acks)}
Apart(q) == /\ \A i, j \in 1 .. Len(q) : q[i].no = q[j].no => i = j
            /\ \A i \in 1 .. Len(q) : q[i].no \notin Acked
Away(q, c) == c.no \notin Acked /\ \A i \in 1 .. Len(q) : q[i].no # c.no
Once == /\ Apart(queue)
        /\ at # "receive" => Away(queue, cmd)
        /\ \A n \in Acked : n <= Accepted
        /\ AckedOnce

\* A command sent is newer than those before it in the queue, than the one
\* carried out, and than any way back that waits, before it or behind it.
Ordered ==
    /\ \A i, j \in 1 .. Len(queue) : /\ ~queue[j].back
                                     /\ i < j \/ queue[i].back
                                     => queue[i].no < queue[j].no
    /\ \A i \in 1 .. Len(queue) : ~queue[i].back => cmd.no < queue[i].no
    /\ \A i \in 1 .. Len(queue) : queue[i].no <= Accepted
    /\ cmd.no <= Accepted
    /\ api.at # "idle" => api.cmd.no = sent /\ ~api.cmd.back

IInv == TypeOK /\ Once /\ Ordered
-----------------------------------------------------------------------------
(* The S-curve keeps to the limits *)

LEMMA LimitsType == \A p \in Limits : /\ p.speed \in Nat \ {0}
                                      /\ p.acc \in Nat \ {0}
                                      /\ p.jerk \in Nat \ {0}
  BY ServoTaskAssumption

LEMMA PhasesAre == Phases = {"accel_jup", "accel_const", "accel_jdn", "cruise",
                             "decel_jup", "decel_const", "decel_jdn"}
  BY DEF Phases, Gaining

LEMMA TimesNat == \A x, y \in Nat : x * y \in Nat
  OBVIOUS

\* What a phase may do to a motion: keep the position and change speed and
\* acceleration within the limits.
Keeps(m, n) == Within(n) /\ n.pos = m.pos

\* One field of a motion set, what it is then.
LEMMA SetPos == ASSUME NEW m \in Motions, NEW e \in Positions
  PROVE  LET n == [m EXCEPT !.pos = e] IN
         n \in Motions /\ n.pos = e /\ n.vel = m.vel /\ n.acc = m.acc
  BY DEF Motions

LEMMA SetVel == ASSUME NEW m \in Motions, NEW e \in Nat
  PROVE  LET n == [m EXCEPT !.vel = e] IN
         n \in Motions /\ n.pos = m.pos /\ n.vel = e /\ n.acc = m.acc
  BY DEF Motions

LEMMA SetAcc == ASSUME NEW m \in Motions, NEW e \in Int
  PROVE  LET n == [m EXCEPT !.acc = e] IN
         n \in Motions /\ n.pos = m.pos /\ n.vel = m.vel /\ n.acc = e
  BY DEF Motions

LEMMA SetPhase == ASSUME NEW m \in Motions, NEW e \in Phases
  PROVE  LET n == [m EXCEPT !.phase = e] IN
         n \in Motions /\ n.pos = m.pos /\ n.vel = m.vel /\ n.acc = m.acc
  BY DEF Motions

LEMMA SetDone == ASSUME NEW m \in Motions
  PROVE  LET n == [m EXCEPT !.done = TRUE] IN
         n \in Motions /\ n.pos = m.pos /\ n.vel = m.vel /\ n.acc = m.acc
  BY DEF Motions

\* Several fields set, one after the other.
LEMMA EaseOffType ==
  ASSUME NEW m \in Motions, NEW p \in Limits
  PROVE  LET n == [m EXCEPT !.acc = 0, !.vel = p.speed, !.phase = "cruise"] IN
         n \in Motions /\ n.pos = m.pos /\ n.vel = p.speed /\ n.acc = 0
<1> DEFINE x == [m EXCEPT !.acc = 0]
           y == [x EXCEPT !.vel = p.speed]
           z == [y EXCEPT !.phase = "cruise"]
<1>1. [m EXCEPT !.acc = 0, !.vel = p.speed, !.phase = "cruise"] = z
  OBVIOUS
<1>2. 0 \in Int /\ p.speed \in Nat /\ "cruise" \in Phases
  BY LimitsType, PhasesAre
<1>3. x \in Motions /\ x.pos = m.pos /\ x.vel = m.vel /\ x.acc = 0
  BY <1>2, SetAcc
<1> HIDE DEF x
<1>4. y \in Motions /\ y.pos = m.pos /\ y.vel = p.speed /\ y.acc = 0
  BY <1>2, <1>3, SetVel
<1> HIDE DEF y
<1>5. z \in Motions /\ z.pos = m.pos /\ z.vel = p.speed /\ z.acc = 0
  BY <1>2, <1>4, SetPhase
<1> HIDE DEF z
<1> QED BY <1>1, <1>5

LEMMA ArriveType ==
  ASSUME NEW m \in Motions, NEW t \in Positions
  PROVE  LET n == [m EXCEPT !.pos = t, !.vel = 0, !.acc = 0, !.done = TRUE] IN
         n \in Motions /\ n.pos = t /\ n.vel = 0 /\ n.acc = 0
<1> DEFINE x == [m EXCEPT !.pos = t]
           y == [x EXCEPT !.vel = 0]
           z == [y EXCEPT !.acc = 0]
           w == [z EXCEPT !.done = TRUE]
<1>1. [m EXCEPT !.pos = t, !.vel = 0, !.acc = 0, !.done = TRUE] = w
  OBVIOUS
<1>2. 0 \in Int /\ 0 \in Nat
  OBVIOUS
<1>3. x \in Motions /\ x.pos = t /\ x.vel = m.vel /\ x.acc = m.acc
  BY <1>2, SetPos
<1> HIDE DEF x
<1>4. y \in Motions /\ y.pos = t /\ y.vel = 0 /\ y.acc = m.acc
  BY <1>2, <1>3, SetVel
<1> HIDE DEF y
<1>5. z \in Motions /\ z.pos = t /\ z.vel = 0 /\ z.acc = 0
  BY <1>2, <1>4, SetAcc
<1> HIDE DEF z
<1>6. w \in Motions /\ w.pos = t /\ w.vel = 0 /\ w.acc = 0
  BY <1>2, <1>5, SetDone
<1> HIDE DEF w
<1> QED BY <1>1, <1>6

LEMMA StopType ==
  ASSUME NEW m \in Motions
  PROVE  LET n == [m EXCEPT !.acc = 0, !.vel = 0, !.done = TRUE] IN
         n \in Motions /\ n.pos = m.pos /\ n.vel = 0 /\ n.acc = 0
<1> DEFINE x == [m EXCEPT !.acc = 0]
           y == [x EXCEPT !.vel = 0]
           z == [y EXCEPT !.done = TRUE]
<1>1. [m EXCEPT !.acc = 0, !.vel = 0, !.done = TRUE] = z
  OBVIOUS
<1>2. 0 \in Int /\ 0 \in Nat
  OBVIOUS
<1>3. x \in Motions /\ x.pos = m.pos /\ x.vel = m.vel /\ x.acc = 0
  BY <1>2, SetAcc
<1> HIDE DEF x
<1>4. y \in Motions /\ y.pos = m.pos /\ y.vel = 0 /\ y.acc = 0
  BY <1>2, <1>3, SetVel
<1> HIDE DEF y
<1>5. z \in Motions /\ z.pos = m.pos /\ z.vel = 0 /\ z.acc = 0
  BY <1>2, <1>4, SetDone
<1> HIDE DEF z
<1> QED BY <1>1, <1>5

\* A motion whose new acceleration and speed are old ones or within a limit.
LEMMA StillWithin == ASSUME NEW m, Within(m), NEW p \in Limits, NEW n \in Motions,
                            n.pos = m.pos,
                            n.vel \in {m.vel, p.speed, 0},
                            m.acc <= n.acc \/ -p.acc <= n.acc,
                            n.acc <= m.acc \/ n.acc <= p.acc
                     PROVE  Keeps(m, n)
<1>1. m.acc \in Int /\ n.acc \in Int /\ m.vel \in Nat
  BY DEF Within, Motions
<1>2. \E q \in Limits : n.acc <= q.acc
  <2>1. PICK q \in Limits : m.acc <= q.acc
    BY DEF Within
  <2> QED BY <1>1, <2>1, LimitsType
<1>3. \E q \in Limits : -q.acc <= n.acc
  <2>1. PICK q \in Limits : -q.acc <= m.acc
    BY DEF Within
  <2>2. q.acc \in Nat /\ p.acc \in Nat
    BY LimitsType
  <2> QED BY <1>1, <2>1, <2>2
<1>4. \E q \in Limits : n.vel <= q.speed
  BY <1>1, LimitsType DEF Within
<1> QED BY <1>2, <1>3, <1>4 DEF Keeps, Within

LEMMA SpeedUp == ASSUME NEW m, Within(m), NEW p \in Limits, NEW dt \in Nat
                 PROVE  /\ Keeps(m, Accelerate(m, p, dt))
                        /\ Keeps(m, KeepAccelerating(m, p))
                        /\ Keeps(m, EaseOff(m, p, dt))
<1> DEFINE d == p.jerk * dt
<1>1. d \in Nat
  BY TimesNat, LimitsType
<1>2. p.acc \in Nat \ {0} /\ p.speed \in Nat \ {0}
  BY LimitsType
<1> HIDE DEF d
<1>3. Keeps(m, Accelerate(m, p, dt))
  <2> DEFINE acc == Smaller(m.acc + d, p.acc)
             ph == CASE WouldReachSpeed(m.vel, acc, p) -> "accel_jdn"
                     [] ~WouldReachSpeed(m.vel, acc, p) /\ acc = p.acc -> "accel_const"
                     [] OTHER -> m.phase
  <2>1. acc \in Int /\ acc <= p.acc /\ (m.acc <= acc \/ acc = p.acc)
    BY <1>1, <1>2 DEF Within, Motions, Smaller
  <2>2. ph \in Phases
    BY PhasesAre DEF Within, Motions
  <2>3. Accelerate(m, p, dt) = [m EXCEPT !.acc = acc, !.phase = ph]
    BY DEF Accelerate, d
  <2>4. -p.acc <= p.acc /\ m.acc \in Int
    BY <1>2 DEF Within, Motions
  <2>5. m.acc <= acc \/ -p.acc <= acc
    BY <2>1, <2>4
  <2> HIDE DEF acc, ph
  <2> DEFINE n == [m EXCEPT !.acc = acc, !.phase = ph]
  <2>6. n \in Motions /\ n.pos = m.pos /\ n.vel = m.vel /\ n.acc = acc
    BY <2>1, <2>2 DEF Within, Motions
  <2> HIDE DEF n
  <2>7. Keeps(m, n)
    BY <2>1, <2>5, <2>6, StillWithin
  <2> QED BY <2>3, <2>7 DEF n
<1>4. Keeps(m, KeepAccelerating(m, p))
  BY PhasesAre DEF KeepAccelerating, Keeps, Within, Motions
<1>5. Keeps(m, EaseOff(m, p, dt))
  <2>1. CASE m.acc <= d
    <3>1. EaseOff(m, p, dt) = [m EXCEPT !.acc = 0, !.vel = p.speed, !.phase = "cruise"]
      BY <2>1 DEF EaseOff, d
    <3>2. -p.acc <= 0 /\ 0 <= p.acc
      BY <1>2
    <3>5. m \in Motions
      BY DEF Within
    <3> DEFINE n == [m EXCEPT !.acc = 0, !.vel = p.speed, !.phase = "cruise"]
    <3>3. n \in Motions /\ n.pos = m.pos /\ n.vel = p.speed /\ n.acc = 0
      BY <3>5, EaseOffType, Zenon
    <3> HIDE DEF n
    <3>4. Keeps(m, n)
      BY <3>2, <3>3, StillWithin
    <3> QED BY <3>1, <3>4 DEF n
  <2>2. CASE ~(m.acc <= d)
    <3>1. EaseOff(m, p, dt) = [m EXCEPT !.acc = m.acc - d]
      BY <2>2 DEF EaseOff, d
    <3>2. m.acc - d \in Int /\ -p.acc <= m.acc - d /\ m.acc - d <= m.acc
      BY <1>1, <1>2, <2>2 DEF Within, Motions
    <3> DEFINE n == [m EXCEPT !.acc = m.acc - d]
    <3>3. n \in Motions /\ n.pos = m.pos /\ n.vel = m.vel /\ n.acc = m.acc - d
      BY <3>2 DEF Within, Motions
    <3> HIDE DEF n
    <3>4. Keeps(m, n)
      BY <3>2, <3>3, StillWithin
    <3> QED BY <3>1, <3>4 DEF n
  <2> QED BY <2>1, <2>2
<1> QED BY <1>3, <1>4, <1>5

LEMMA SlowDown == ASSUME NEW m, Within(m), NEW p \in Limits, NEW dt \in Nat
                  PROVE  /\ Keeps(m, Brake(m, p, dt))
                         /\ Keeps(m, KeepBraking(m, p))
                         /\ Keeps(m, Release(m, p, dt))
<1> DEFINE d == p.jerk * dt
<1>1. d \in Nat
  BY TimesNat, LimitsType
<1>2. p.acc \in Nat \ {0} /\ p.speed \in Nat \ {0}
  BY LimitsType
<1> HIDE DEF d
<1>3. Keeps(m, Brake(m, p, dt))
  <2> DEFINE acc == Larger(m.acc - d, -p.acc)
             ph == CASE WouldStop(m.vel, acc, p) -> "decel_jdn"
                     [] ~WouldStop(m.vel, acc, p) /\ acc = -p.acc -> "decel_const"
                     [] OTHER -> m.phase
  <2>1. acc \in Int /\ -p.acc <= acc /\ (acc <= m.acc \/ acc = -p.acc)
    BY <1>1, <1>2 DEF Within, Motions, Larger
  <2>2. ph \in Phases
    BY PhasesAre DEF Within, Motions
  <2>3. Brake(m, p, dt) = [m EXCEPT !.acc = acc, !.phase = ph]
    BY DEF Brake, d
  <2>4. -p.acc <= p.acc /\ m.acc \in Int
    BY <1>2 DEF Within, Motions
  <2>5. acc <= m.acc \/ acc <= p.acc
    BY <2>1, <2>4
  <2> HIDE DEF acc, ph
  <2> DEFINE n == [m EXCEPT !.acc = acc, !.phase = ph]
  <2>6. n \in Motions /\ n.pos = m.pos /\ n.vel = m.vel /\ n.acc = acc
    BY <2>1, <2>2 DEF Within, Motions
  <2> HIDE DEF n
  <2>7. Keeps(m, n)
    BY <2>1, <2>5, <2>6, StillWithin
  <2> QED BY <2>3, <2>7 DEF n
<1>4. Keeps(m, KeepBraking(m, p))
  BY PhasesAre DEF KeepBraking, Keeps, Within, Motions
<1>5. Keeps(m, Release(m, p, dt))
  <2>1. CASE m.acc + d >= 0
    <3>1. Release(m, p, dt) = [m EXCEPT !.acc = 0, !.vel = 0, !.done = TRUE]
      BY <2>1 DEF Release, d
    <3>2. -p.acc <= 0 /\ 0 <= p.acc
      BY <1>2
    <3> DEFINE n == [m EXCEPT !.acc = 0, !.vel = 0, !.done = TRUE]
    <3>3. n \in Motions /\ n.pos = m.pos /\ n.vel = 0 /\ n.acc = 0
      BY StopType, Zenon DEF Within
    <3> HIDE DEF n
    <3>4. Keeps(m, n)
      BY <3>2, <3>3, StillWithin
    <3> QED BY <3>1, <3>4 DEF n
  <2>2. CASE ~(m.acc + d >= 0)
    <3>1. Release(m, p, dt) = [m EXCEPT !.acc = m.acc + d]
      BY <2>2 DEF Release, d
    <3>2. m.acc + d \in Int /\ m.acc + d <= p.acc /\ m.acc <= m.acc + d
      BY <1>1, <1>2, <2>2 DEF Within, Motions
    <3> DEFINE n == [m EXCEPT !.acc = m.acc + d]
    <3>3. n \in Motions /\ n.pos = m.pos /\ n.vel = m.vel /\ n.acc = m.acc + d
      BY <3>2 DEF Within, Motions
    <3> HIDE DEF n
    <3>4. Keeps(m, n)
      BY <3>2, <3>3, StillWithin
    <3> QED BY <3>1, <3>4 DEF n
  <2> QED BY <2>1, <2>2
<1> QED BY <1>3, <1>4, <1>5

LEMMA SwitchKeeps == ASSUME NEW m, Within(m), NEW t, NEW p \in Limits, NEW dt \in Nat
                     PROVE  Keeps(m, Switch(m, t, p, dt))
<1>1. CASE m.phase \in Gaining /\ MustStop(m, t, p)
  BY <1>1, PhasesAre DEF Switch, Keeps, Within, Motions
<1>2. CASE ~(m.phase \in Gaining /\ MustStop(m, t, p))
  <2>1. m.phase \in {"accel_jup", "accel_const", "accel_jdn", "cruise",
                     "decel_jup", "decel_const", "decel_jdn"}
    BY PhasesAre DEF Within, Motions
  <2>2. Keeps(m, m)
    BY DEF Keeps
  <2> QED BY <1>2, <2>1, <2>2, SpeedUp, SlowDown DEF Switch
<1> QED BY <1>1, <1>2

\* The new speed is within the limit.
LEMMA NewSpeed == ASSUME NEW m, Within(m), NEW p \in Limits, NEW dt \in Nat
                  PROVE  LET vel == Smaller(Larger(m.vel + m.acc * dt, 0), p.speed)
                         IN  vel \in Nat /\ vel <= p.speed
<1> DEFINE d == m.acc * dt
<1>1. d \in Int /\ m.vel \in Nat /\ p.speed \in Nat
  <2>1. m.acc \in Int /\ m.vel \in Nat
    BY DEF Within, Motions
  <2> QED BY <2>1, LimitsType
<1> HIDE DEF d
<1>2. Smaller(Larger(m.vel + d, 0), p.speed) \in 0 .. p.speed
  BY <1>1 DEF Smaller, Larger
<1> QED BY <1>1, <1>2 DEF d

\* The new position is between the old one and the target.
LEMMA AdvanceKeeps == ASSUME NEW m, Within(m), NEW t \in Positions, NEW p \in Limits, NEW dt \in Nat
                      PROVE  Within(Advance(m, t, p, dt))
<1> DEFINE vel == Smaller(Larger(m.vel + m.acc * dt, 0), p.speed)
           s == vel * dt
           up == t > m.pos
           pos == IF up THEN m.pos + s ELSE m.pos - s
<1>2. vel \in Nat /\ vel <= p.speed
  BY NewSpeed
<1>3. s \in Nat
  BY <1>2, TimesNat
<1>4. Advance(m, t, p, dt) = IF (up /\ pos >= t) \/ (~up /\ pos <= t)
                             THEN [m EXCEPT !.pos = t, !.vel = 0, !.acc = 0, !.done = TRUE]
                             ELSE [m EXCEPT !.pos = pos, !.vel = vel]
  BY DEF Advance
<1> HIDE DEF vel, s
<1>5. CASE (up /\ pos >= t) \/ (~up /\ pos <= t)
  <2>1. Advance(m, t, p, dt) = [m EXCEPT !.pos = t, !.vel = 0, !.acc = 0, !.done = TRUE]
    BY <1>4, <1>5
  <2>2. /\ Advance(m, t, p, dt) \in Motions
        /\ Advance(m, t, p, dt).vel = 0
        /\ Advance(m, t, p, dt).acc = 0
    <3>1. m \in Motions
      BY DEF Within
    <3> DEFINE n == [m EXCEPT !.pos = t, !.vel = 0, !.acc = 0, !.done = TRUE]
    <3>2. n \in Motions /\ n.vel = 0 /\ n.acc = 0
      BY <3>1, ArriveType, Zenon
    <3> QED BY <2>1, <3>2
  <2>3. 0 <= p.speed /\ 0 <= p.acc /\ -p.acc <= 0
    BY LimitsType
  <2> QED BY <2>2, <2>3 DEF Within
<1>6. CASE ~((up /\ pos >= t) \/ (~up /\ pos <= t))
  <2>1. pos \in Positions
    BY <1>3, <1>6, ServoTaskAssumption DEF Within, Motions, Positions
  <2> HIDE DEF pos
  <2> QED BY <1>2, <1>4, <1>6, <2>1 DEF Within, Motions
<1> QED BY <1>5, <1>6
-----------------------------------------------------------------------------
(* Types *)

LEMMA AppendType == ASSUME NEW S, NEW s \in Seq(S), NEW e \in S
                    PROVE  /\ Append(s, e) \in Seq(S)
                           /\ Len(Append(s, e)) = Len(s) + 1
                           /\ \A i \in 1 .. Len(s) : Append(s, e)[i] = s[i]
                           /\ Append(s, e)[Len(s) + 1] = e
  OBVIOUS

LEMMA TailType == ASSUME NEW S, NEW s \in Seq(S), s # <<>>
                  PROVE  /\ Tail(s) \in Seq(S)
                         /\ Len(s) \in Nat \ {0} /\ Len(Tail(s)) = Len(s) - 1
                         /\ \A i \in 1 .. Len(Tail(s)) : Tail(s)[i] = s[i + 1]
                         /\ Head(s) = s[1] /\ Head(s) \in S
  BY HeadTailProperties, EmptySeq

LEMMA AtRestWithin == ASSUME NEW p \in Positions
                      PROVE  Within(AtRest(p))
<1>1. AtRest(p) \in Motions
  BY PhasesAre DEF AtRest, Motions
<1>2. AtRest(p).vel = 0 /\ AtRest(p).acc = 0
  BY DEF AtRest
<1>3. ReturnProfile \in Limits
  BY DEF Limits
<1>4. 0 <= ReturnProfile.speed /\ 0 <= ReturnProfile.acc /\ -ReturnProfile.acc <= 0
  BY <1>3, LimitsType
<1> QED BY <1>1, <1>2, <1>3, <1>4 DEF Within

\* TypeOK, with the motion in one conjunct.
LEMMA TypeOKWithin ==
  TypeOK <=> /\ queue \in Seq(Commands) /\ Len(queue) <= QueueLen
             /\ api \in [at : {"idle", "drop", "retry"}, cmd : Commands]
             /\ sent \in 0 .. MaxCommands
             /\ latest \in Commands /\ late \in BOOLEAN
             /\ at \in {"receive", "plan", "poll", "tick", "final", "pause", "ack"}
             /\ cmd \in Commands
             /\ target \in Positions /\ servo \in Positions
             /\ backlash_compensation \in BOOLEAN
             /\ Within(motion)
             /\ acks \in Seq(0 .. MaxCommands)
  BY DEF TypeOK, Within, Motions

LEMMA CommandType == ASSUME NEW c \in Commands
                     PROVE  /\ c.no \in 0 .. MaxCommands /\ c.no \in Nat /\ c.no \in Int
                            /\ c.target \in Positions
                            /\ c.lim \in Limits
                            /\ c.back \in BOOLEAN
                            /\ [c EXCEPT !.lim = ReturnProfile, !.back = TRUE] \in Commands
<1>1. c.target \in Targets \cup {Start}
  BY DEF Commands
<1>2. ReturnProfile \in Limits
  BY DEF Limits
<1>3. c.no \in Nat
  BY ServoTaskAssumption DEF Commands
<1>4. [c EXCEPT !.lim = ReturnProfile, !.back = TRUE] \in Commands
  BY <1>2 DEF Commands
<1> QED BY <1>1, <1>3, <1>4, ServoTaskAssumption DEF Commands

LEMMA InitIInv == Init => IInv
<1> SUFFICES ASSUME Init PROVE IInv
  OBVIOUS
<1> USE ServoTaskAssumption DEF Init
<1>1. queue \in Seq(Commands) /\ Len(queue) = 0
  BY EmptySeq
<1>2. First \in Commands /\ First.no = 0
  BY DEF First, Commands, Limits
<1>3. Within(motion) /\ Start \in Positions
  BY AtRestWithin
<1>4. TypeOK
  <2>1. api \in [at : {"idle", "drop", "retry"}, cmd : Commands]
    BY <1>2
  <2>2. sent \in 0 .. MaxCommands /\ acks \in Seq(0 .. MaxCommands) /\ Len(queue) <= QueueLen
    BY <1>1
  <2>3. /\ latest \in Commands /\ late \in BOOLEAN /\ at = "receive" /\ cmd \in Commands
        /\ target \in Positions /\ servo \in Positions
        /\ backlash_compensation \in BOOLEAN
    BY <1>2, <1>3
  <2> QED BY <1>1, <1>3, <2>1, <2>2, <2>3, TypeOKWithin
<1>5. Once
  <2>1. acks = <<>> /\ Len(acks) = 0 /\ 1 .. Len(acks) = {} /\ 1 .. Len(queue) = {}
    BY <1>1
  <2>2. Acked = {} /\ AckedOnce
    BY <2>1 DEF Acked, AckedOnce
  <2> QED BY <2>1, <2>2 DEF Once, Apart
<1>6. Ordered
  BY <1>1, <1>2 DEF Ordered, Accepted, One
<1> QED BY <1>4, <1>5, <1>6 DEF IInv
-----------------------------------------------------------------------------
(* Every step keeps the types                                               *)

\* The commands that move_servo_speed makes.
NewCommand(t, p) == [no |-> sent + 1, target |-> t, lim |-> p, back |-> FALSE]

LEMMA NewCommandType == ASSUME TypeOK, sent < MaxCommands, NEW t \in Targets, NEW p \in Profiles
                        PROVE  /\ NewCommand(t, p) \in Commands
                               /\ NewCommand(t, p).no = sent + 1
                               /\ ~NewCommand(t, p).back
  BY ServoTaskAssumption DEF TypeOK, NewCommand, Commands, Limits

LEMMA Appended == ASSUME TypeOK, ~Full, NEW c \in Commands
                  PROVE  Append(queue, c) \in Seq(Commands) /\ Len(Append(queue, c)) <= QueueLen
<1>1. queue \in Seq(Commands) /\ Len(queue) <= QueueLen
  BY DEF TypeOK
<1>2. QueueLen \in Nat /\ Len(queue) # QueueLen
  BY ServoTaskAssumption DEF Full
<1>3. Len(queue) \in Nat
  BY <1>1
<1>4. Len(queue) < QueueLen
  BY <1>1, <1>2, <1>3
<1> QED BY <1>1, <1>2, <1>3, <1>4, AppendType

LEMMA Taken == ASSUME TypeOK, queue # <<>>
               PROVE  /\ Tail(queue) \in Seq(Commands) /\ Len(Tail(queue)) <= QueueLen
                      /\ Head(queue) \in Commands
<1>1. queue \in Seq(Commands) /\ Len(queue) \in Nat /\ Len(queue) <= QueueLen
  BY DEF TypeOK
<1> QED BY <1>1, TailType, ServoTaskAssumption

LEMMA MoveTypeOK == TypeOK /\ Move => TypeOK'
<1> SUFFICES ASSUME TypeOK, Move PROVE TypeOK'
  OBVIOUS
<1>1. PICK t \in Targets, p \in Profiles :
        IF Full THEN /\ api' = [at |-> "drop", cmd |-> NewCommand(t, p)]
                     /\ UNCHANGED <<queue, latest, late>>
                ELSE Accept(NewCommand(t, p)) /\ UNCHANGED api
  BY DEF Move, NewCommand
<1>2. NewCommand(t, p) \in Commands
  BY NewCommandType DEF Move
<1> HIDE DEF NewCommand
<1>3. sent' \in 0 .. MaxCommands
  BY ServoTaskAssumption DEF Move, TypeOK
<1>4. CASE Full
  BY <1>1, <1>2, <1>3, <1>4 DEF Move, TypeOK, fsmVars
<1>5. CASE ~Full
  <2>1. queue' \in Seq(Commands) /\ Len(queue') <= QueueLen
    BY <1>1, <1>2, <1>5, Appended DEF Accept
  <2>2. late' \in BOOLEAN /\ latest' \in Commands
    BY <1>1, <1>2, <1>5 DEF Accept, BehindLastLook, TypeOK
  <2> QED BY <1>1, <1>3, <1>5, <2>1, <2>2 DEF Move, TypeOK, fsmVars
<1> QED BY <1>4, <1>5

LEMMA ApiTypeOK == TypeOK /\ Api => TypeOK'
<1> SUFFICES ASSUME TypeOK, Api PROVE TypeOK'
  OBVIOUS
<1>1. CASE DropOldest
  <2>1. queue' \in Seq(Commands) /\ Len(queue') <= QueueLen
    BY <1>1, Taken DEF DropOldest, TypeOK
  <2> QED BY <1>1, <2>1 DEF DropOldest, TypeOK, fsmVars
<1>2. CASE Retry
  <2>1. api.cmd \in Commands
    BY DEF TypeOK
  <2>2. queue' \in Seq(Commands) /\ Len(queue') <= QueueLen
    BY <1>2, <2>1, Appended DEF Retry, Accept, TypeOK
  <2>3. late' \in BOOLEAN /\ latest' \in Commands
    BY <1>2, <2>1 DEF Retry, Accept, BehindLastLook, TypeOK
  <2>4. api' \in [at : {"idle", "drop", "retry"}, cmd : Commands]
    BY <1>2 DEF Retry, TypeOK
  <2> QED BY <1>2, <2>2, <2>3, <2>4 DEF Retry, TypeOK, fsmVars
<1> QED BY <1>1, <1>2 DEF Api

LEMMA FsmTypeOK == TypeOK /\ Fsm => TypeOK'
<1> SUFFICES ASSUME TypeOK, Fsm PROVE TypeOK'
  OBVIOUS
<1>1. CASE Receive
  BY <1>1, Taken DEF Receive, Take, TypeOK, apiVars
<1>2. CASE Plan
  <2>1. cmd.target \in Positions
    BY CommandType DEF TypeOK
  <2>2. target' \in Positions
    BY <1>2, <2>1, ServoTaskAssumption DEF Plan, Larger, Positions
  <2>3. Within(motion')
    BY <1>2, TypeOKWithin, PhasesAre DEF Plan, Within, Motions
  <2>4. backlash_compensation' \in BOOLEAN /\ at' \in {"poll", "final"}
    BY <1>2 DEF Plan, GoesDown
  <2>5. /\ Within(motion)' <=> Within(motion')
        /\ UNCHANGED <<queue, api, sent, latest, late, cmd, servo, acks>>
    BY <1>2 DEF Plan, apiVars, Within, Motions
  <2> QED BY <2>2, <2>3, <2>4, <2>5 DEF TypeOK, Within, Motions
<1>3. CASE Preempt
  BY <1>3, Taken DEF Preempt, Take, TypeOK, apiVars
<1>4. CASE NoPreempt
  BY <1>4 DEF NoPreempt, TypeOK, apiVars
<1>5. CASE Tick
  <2>1. PICK dt \in Nat : motion' = [Advance(Switch(motion, target, cmd.lim, dt), target, cmd.lim, dt)
                                     EXCEPT !.fresh = FALSE]
    BY <1>5, ServoTaskAssumption DEF Tick
  <2>2. Within(motion) /\ target \in Positions /\ cmd.lim \in Limits
    BY TypeOKWithin, CommandType
  <2>3. Within(Switch(motion, target, cmd.lim, dt))
    BY <2>2, SwitchKeeps DEF Keeps
  <2>4. Within(Advance(Switch(motion, target, cmd.lim, dt), target, cmd.lim, dt))
    BY <2>2, <2>3, AdvanceKeeps
  <2>5. Within(motion')
    BY <2>1, <2>4 DEF Within, Motions
  <2>6. servo' \in Positions
    BY <1>5, <2>2, <2>5 DEF Tick, Within, Motions
  <2>7. at' \in {"final", "poll"} /\ UNCHANGED <<queue, api, sent, latest, late, cmd, target,
                                               backlash_compensation, acks>>
    BY <1>5 DEF Tick, apiVars
  <2> QED BY <2>5, <2>6, <2>7 DEF TypeOK, Within, Motions
<1>6. CASE Final
  <2>1. cmd.target \in Positions
    BY CommandType DEF TypeOK
  <2>2. Within(motion')
    BY <1>6, <2>1, AtRestWithin DEF Final
  <2>3. at' \in {"pause", "ack"}
    BY <1>6 DEF Final
  <2> QED BY <1>6, <2>1, <2>2, <2>3 DEF Final, TypeOK, apiVars, Within, Motions
<1>7. CASE PostReturn
  <2>1. WayBack \in Commands
    BY CommandType DEF WayBack, TypeOK
  <2>2. queue' \in Seq(Commands) /\ Len(queue') <= QueueLen
    BY <1>7, <2>1, Appended DEF PostReturn, TypeOK
  <2> QED BY <1>7, <2>2 DEF PostReturn, TypeOK, apiVars
<1>8. CASE SendAck
  <2>1. acks' \in Seq(0 .. MaxCommands)
    BY <1>8, CommandType, AppendType DEF SendAck, TypeOK
  <2> QED BY <1>8, <2>1 DEF SendAck, TypeOK, apiVars
<1> QED BY <1>1, <1>2, <1>3, <1>4, <1>5, <1>6, <1>7, <1>8 DEF Fsm
-----------------------------------------------------------------------------
(* The order of commands *)

\* What Ordered says of the numbers in the queue, for a queue q behind command c.
Follows(q, c, n) ==
    /\ \A i, j \in 1 .. Len(q) : ~q[j].back /\ (i < j \/ q[i].back) => q[i].no < q[j].no
    /\ \A i \in 1 .. Len(q) : ~q[i].back => c.no < q[i].no
    /\ \A i \in 1 .. Len(q) : q[i].no <= n
    /\ c.no <= n

LEMMA OrderedFollows ==
  Ordered <=> Follows(queue, cmd, Accepted) /\ (api.at # "idle" => api.cmd.no = sent /\ ~api.cmd.back)
  BY DEF Ordered, Follows

LEMMA FollowsTypes == ASSUME NEW q \in Seq(Commands)
                      PROVE  /\ Len(q) \in Nat
                             /\ \A i \in 1 .. Len(q) : q[i] \in Commands /\ q[i].no \in Int
<1>1. Len(q) \in Nat /\ \A i \in 1 .. Len(q) : q[i] \in Commands
  BY ElementOfSeq
<1> QED BY <1>1, CommandType

\* A command at the end that is newer than all there are.
LEMMA FollowsNew == ASSUME NEW q \in Seq(Commands), NEW c \in Commands, NEW n \in Int,
                           NEW e \in Commands, Follows(q, c, n), n < e.no, ~e.back
                    PROVE  Follows(Append(q, e), c, e.no)
<1>1. /\ Len(Append(q, e)) = Len(q) + 1
      /\ \A i \in 1 .. Len(q) : Append(q, e)[i] = q[i]
      /\ Append(q, e)[Len(q) + 1] = e
  BY AppendType
<1>2. \A i \in 1 .. Len(Append(q, e)) : i \in 1 .. Len(q) \/ i = Len(q) + 1
  BY <1>1, FollowsTypes
<1>3. c.no \in Int /\ e.no \in Int
  BY CommandType
<1> DEFINE r == Append(q, e)
<1> HIDE DEF r
<1> QED BY SMTT(60), <1>1, <1>2, <1>3, FollowsTypes DEF Follows, r

\* The way back of the command carried out, at the end.
LEMMA FollowsBack == ASSUME NEW q \in Seq(Commands), NEW c \in Commands, NEW n \in Int,
                            NEW e \in Commands, Follows(q, c, n), e.back, e.no = c.no
                     PROVE  Follows(Append(q, e), c, n)
<1>1. /\ Len(Append(q, e)) = Len(q) + 1
      /\ \A i \in 1 .. Len(q) : Append(q, e)[i] = q[i]
      /\ Append(q, e)[Len(q) + 1] = e
  BY AppendType
<1>2. \A i \in 1 .. Len(Append(q, e)) : i \in 1 .. Len(q) \/ i = Len(q) + 1
  BY <1>1, FollowsTypes
<1>3. c.no \in Int
  BY CommandType
<1> DEFINE r == Append(q, e)
<1> HIDE DEF r
<1> QED BY SMTT(60), <1>1, <1>2, <1>3, FollowsTypes DEF Follows, r

\* Without the first one, and with that as the command carried out.
LEMMA FollowsTail == ASSUME NEW q \in Seq(Commands), NEW c \in Commands, NEW n \in Int,
                            Follows(q, c, n), q # <<>>
                     PROVE  /\ Follows(Tail(q), c, n)
                            /\ Follows(Tail(q), Head(q), n)
                            /\ ~Head(q).back => c.no < Head(q).no
<1>1. /\ Tail(q) \in Seq(Commands) /\ Len(Tail(q)) = Len(q) - 1 /\ Len(q) \in Nat \ {0}
      /\ \A i \in 1 .. Len(Tail(q)) : Tail(q)[i] = q[i + 1]
      /\ Head(q) = q[1] /\ 1 \in 1 .. Len(q)
  BY TailType
<1>2. \A i \in 1 .. Len(Tail(q)) : i + 1 \in 1 .. Len(q)
  BY <1>1
<1>3. c.no \in Int /\ \A i \in 1 .. Len(q) : q[i].no \in Int
  BY CommandType, FollowsTypes
<1> DEFINE r == Tail(q)
           h == Head(q)
<1> HIDE DEF r, h
<1> QED BY <1>1, <1>2, <1>3 DEF Follows, r, h

LEMMA NextOrdered == TypeOK /\ Ordered /\ [Next]_vars => Ordered'
<1> SUFFICES ASSUME TypeOK, Ordered, [Next]_vars PROVE Ordered'
  OBVIOUS
<1>1. /\ queue \in Seq(Commands) /\ cmd \in Commands /\ api.cmd \in Commands
      /\ sent \in Int /\ Accepted \in Int /\ Accepted <= sent
  BY DEF TypeOK, Accepted, One
<1>2. Follows(queue, cmd, Accepted) /\ (api.at # "idle" => api.cmd.no = sent /\ ~api.cmd.back)
  BY OrderedFollows
<1>3. ASSUME Follows(queue', cmd', Accepted'), api'.at # "idle" => api'.cmd.no = sent' /\ ~api'.cmd.back
      PROVE  Ordered'
  BY <1>3, OrderedFollows DEF Ordered, Follows
<1>4. ASSUME NEW n \in Int, Accepted <= n PROVE Follows(queue, cmd, n)
  <2>1. cmd.no \in Int /\ \A i \in 1 .. Len(queue) : queue[i].no \in Int
    BY <1>1, FollowsTypes, CommandType
  <2> QED BY <1>1, <1>2, <1>4, <2>1 DEF Follows
<1>5. queue # <<>> => /\ Follows(Tail(queue), cmd, Accepted)
                      /\ Follows(Tail(queue), Head(queue), Accepted)
  BY <1>1, <1>2, FollowsTail
<1>6. ASSUME UNCHANGED api, UNCHANGED sent, Follows(queue', cmd', Accepted)
      PROVE  Ordered'
  <2>1. Accepted' = Accepted
    BY <1>6 DEF Accepted
  <2> QED BY <1>2, <1>3, <1>6, <2>1
<1>7. CASE Move
  <2>1. PICK t \in Targets, p \in Profiles :
          IF Full THEN /\ api' = [at |-> "drop", cmd |-> NewCommand(t, p)]
                       /\ UNCHANGED <<queue, latest, late>>
                  ELSE Accept(NewCommand(t, p)) /\ UNCHANGED api
    BY <1>7 DEF Move, NewCommand
  <2>2. /\ NewCommand(t, p) \in Commands /\ NewCommand(t, p).no = sent + 1
        /\ ~NewCommand(t, p).back
    BY <1>7, NewCommandType DEF Move
  <2>3. sent' = sent + 1 /\ cmd' = cmd /\ api.at = "idle" /\ Accepted = sent
    BY <1>1, <1>7 DEF Move, fsmVars, Accepted, One
  <2> HIDE DEF NewCommand
  <2>4. CASE Full
    <3>1. /\ Accepted' = Accepted /\ queue' = queue
          /\ api'.cmd.no = sent' /\ ~api'.cmd.back
      BY <1>1, <2>1, <2>2, <2>3, <2>4 DEF Accepted, One
    <3> QED BY <1>2, <1>3, <2>3, <3>1
  <2>5. CASE ~Full
    <3>1. api' = api /\ queue' = Append(queue, NewCommand(t, p))
      BY <2>1, <2>5 DEF Accept
    <3>2. Accepted' = sent + 1
      BY <1>1, <2>3, <3>1 DEF Accepted, One
    <3>3. Follows(Append(queue, NewCommand(t, p)), cmd, sent + 1)
      BY <1>1, <1>2, <2>2, <2>3, FollowsNew
    <3> QED BY <1>3, <2>3, <3>1, <3>2, <3>3
  <2> QED BY <2>4, <2>5
<1>8. CASE DropOldest
  <2>1. /\ api.at = "drop" /\ api'.at = "retry" /\ api'.cmd = api.cmd
        /\ sent' = sent /\ cmd' = cmd
    BY <1>8 DEF DropOldest, fsmVars, TypeOK
  <2>2. Accepted' = Accepted
    BY <2>1 DEF Accepted, One
  <2>3. Follows(queue', cmd, Accepted)
    BY <1>2, <1>5, <1>8 DEF DropOldest
  <2> QED BY <1>2, <1>3, <2>1, <2>2, <2>3
<1>9. CASE Retry
  <2>1. api.at = "retry" /\ api'.at = "idle" /\ sent' = sent /\ cmd' = cmd
    BY <1>9 DEF Retry, fsmVars, TypeOK
  <2>2. Accepted = sent - 1 /\ Accepted' = sent
    BY <1>1, <2>1 DEF Accepted, One
  <2>3. Follows(queue', cmd, sent)
    <3>1. CASE Full
      BY <1>1, <1>4, <1>9, <3>1 DEF Retry
    <3>2. CASE ~Full
      <4>1. queue' = Append(queue, api.cmd) /\ api.cmd.no = sent /\ ~api.cmd.back
        BY <1>2, <1>9, <2>1, <3>2 DEF Retry, Accept
      <4> QED BY <1>1, <1>2, <2>2, <4>1, FollowsNew
    <3> QED BY <3>1, <3>2
  <2> QED BY <1>3, <2>1, <2>2, <2>3
<1>10. CASE Receive
  BY <1>5, <1>6, <1>10 DEF Receive, Take, apiVars
<1>11. CASE Plan
  BY <1>2, <1>6, <1>11 DEF Plan, apiVars
<1>12. CASE Preempt
  BY <1>5, <1>6, <1>12 DEF Preempt, Take, apiVars
<1>13. CASE NoPreempt
  BY <1>2, <1>6, <1>13 DEF NoPreempt, apiVars
<1>14. CASE Tick
  BY <1>2, <1>6, <1>14 DEF Tick, apiVars
<1>15. CASE Final
  BY <1>2, <1>6, <1>15 DEF Final, apiVars
<1>16. CASE PostReturn
  <2>1. WayBack \in Commands /\ WayBack.back /\ WayBack.no = cmd.no
    BY <1>1, CommandType DEF WayBack, Commands
  <2>2. Follows(queue', cmd, Accepted)
    BY <1>1, <1>2, <1>16, <2>1, FollowsBack DEF PostReturn
  <2> QED BY <1>6, <1>16, <2>2 DEF PostReturn, apiVars
<1>17. CASE SendAck
  BY <1>2, <1>6, <1>17 DEF SendAck, apiVars
<1>18. CASE UNCHANGED vars
  BY <1>2, <1>6, <1>18 DEF vars, apiVars, fsmVars
<1> QED BY <1>7, <1>8, <1>9, <1>10, <1>11, <1>12, <1>13, <1>14, <1>15, <1>16, <1>17, <1>18
        DEF Next, Api, Fsm
-----------------------------------------------------------------------------
(* Acknowledgements *)

LEMMA AckedIs == ASSUME TypeOK, acks' = acks PROVE Acked' = Acked /\ (AckedOnce' <=> AckedOnce)
  BY DEF Acked, AckedOnce

\* A command of another number at the end.
LEMMA ApartNew == ASSUME NEW q \in Seq(Commands), NEW e \in Commands, Apart(q), Away(q, e)
                  PROVE  Apart(Append(q, e))
<1>1. /\ Len(Append(q, e)) = Len(q) + 1
      /\ \A i \in 1 .. Len(q) : Append(q, e)[i] = q[i]
      /\ Append(q, e)[Len(q) + 1] = e
  BY AppendType
<1>2. \A i \in 1 .. Len(Append(q, e)) : i \in 1 .. Len(q) \/ i = Len(q) + 1
  BY <1>1, FollowsTypes
<1> DEFINE r == Append(q, e)
<1> HIDE DEF r
<1> QED BY <1>1, <1>2 DEF Apart, Away, r

\* Without the first one, which is carried out.
LEMMA ApartTail == ASSUME NEW q \in Seq(Commands), Apart(q), q # <<>>
                   PROVE  /\ Apart(Tail(q)) /\ Away(Tail(q), Head(q))
                          /\ \A c : Away(q, c) => Away(Tail(q), c)
<1>1. /\ Tail(q) \in Seq(Commands) /\ Len(Tail(q)) = Len(q) - 1 /\ Len(q) \in Nat \ {0}
      /\ \A i \in 1 .. Len(Tail(q)) : Tail(q)[i] = q[i + 1]
      /\ Head(q) = q[1] /\ 1 \in 1 .. Len(q)
  BY TailType
<1>2. \A i \in 1 .. Len(Tail(q)) : i + 1 \in 1 .. Len(q) /\ i + 1 # 1
  BY <1>1
<1>3. \A i, j \in 1 .. Len(Tail(q)) : i + 1 = j + 1 => i = j
  OBVIOUS
<1> DEFINE r == Tail(q)
           h == Head(q)
<1> HIDE DEF r, h
<1> QED BY <1>1, <1>2, <1>3 DEF Apart, Away, r, h

LEMMA NextOnce == TypeOK /\ Once /\ Ordered /\ [Next]_vars => Once'
<1> SUFFICES ASSUME TypeOK, Once, Ordered, [Next]_vars PROVE Once'
  OBVIOUS
<1>1. /\ queue \in Seq(Commands) /\ cmd \in Commands /\ api.cmd \in Commands
      /\ sent \in Int /\ Accepted \in Int /\ acks \in Seq(0 .. MaxCommands)
      /\ \A n \in Acked : n \in Int
  <2>1. acks \in Seq(0 .. MaxCommands) /\ MaxCommands \in Nat
    BY ServoTaskAssumption DEF TypeOK
  <2>2. \A n \in Acked : n \in Int
    BY <2>1 DEF Acked
  <2> QED BY <2>1, <2>2 DEF TypeOK, Accepted, One
<1>2. /\ Apart(queue) /\ AckedOnce
      /\ at # "receive" => Away(queue, cmd)
      /\ \A n \in Acked : n <= Accepted
  BY DEF Once
<1>3. /\ \A i \in 1 .. Len(queue) : queue[i].no <= Accepted /\ queue[i].no \in Int
      /\ cmd.no <= Accepted /\ cmd.no \in Int
      /\ api.at # "idle" => api.cmd.no = sent
  BY <1>1, FollowsTypes, CommandType DEF Ordered
\* What is newer than all that were accepted.
<1>4. ASSUME NEW c \in Commands, Accepted < c.no PROVE Away(queue, c) /\ c.no # cmd.no
  <2>1. c.no \in Int
    BY CommandType
  <2> QED BY <1>1, <1>2, <1>3, <1>4, <2>1 DEF Away
<1>5. ASSUME UNCHANGED acks, Accepted <= Accepted', Accepted' \in Int, Apart(queue'),
             at' # "receive" => Away(queue', cmd')
      PROVE  Once'
  <2>1. Acked' = Acked /\ AckedOnce'
    BY <1>2, <1>5, AckedIs
  <2>2. Apart(queue)' /\ (at' # "receive" => Away(queue, cmd)')
    BY <1>5, <2>1 DEF Apart, Away
  <2>3. \A n \in Acked' : n <= Accepted'
    BY <1>1, <1>2, <1>5, <2>1
  <2> QED BY <2>1, <2>2, <2>3 DEF Once
<1>6. queue # <<>> => /\ Apart(Tail(queue)) /\ Away(Tail(queue), Head(queue))
                      /\ Away(queue, cmd) => Away(Tail(queue), cmd)
  BY <1>1, <1>2, ApartTail
\* A command that is accepted.
<1>7. ASSUME NEW c \in Commands, c.no = Accepted + 1 PROVE
        /\ Apart(Append(queue, c))
        /\ Away(queue, cmd) => Away(Append(queue, c), cmd)
  <2>1. Away(queue, c) /\ c.no # cmd.no
    BY <1>1, <1>4, <1>7
  <2>2. Apart(Append(queue, c))
    BY <1>1, <1>2, <2>1, ApartNew
  <2>3. \A i \in 1 .. Len(Append(queue, c)) :
          \/ i \in 1 .. Len(queue) /\ Append(queue, c)[i] = queue[i]
          \/ Append(queue, c)[i] = c
    <3>1. /\ Len(Append(queue, c)) = Len(queue) + 1 /\ Len(queue) \in Nat
          /\ \A i \in 1 .. Len(queue) : Append(queue, c)[i] = queue[i]
          /\ Append(queue, c)[Len(queue) + 1] = c
      BY <1>1, AppendType
    <3>2. \A i \in 1 .. Len(queue) + 1 : i \in 1 .. Len(queue) \/ i = Len(queue) + 1
      BY <3>1
    <3> QED BY <3>1, <3>2
  <2> DEFINE r == Append(queue, c)
  <2> HIDE DEF r
  <2> QED BY <2>1, <2>2, <2>3 DEF Away, r
<1>8. CASE Move
  <2>1. PICK t \in Targets, p \in Profiles :
          IF Full THEN /\ api' = [at |-> "drop", cmd |-> NewCommand(t, p)]
                       /\ UNCHANGED <<queue, latest, late>>
                  ELSE Accept(NewCommand(t, p)) /\ UNCHANGED api
    BY <1>8 DEF Move, NewCommand
  <2>2. NewCommand(t, p) \in Commands /\ NewCommand(t, p).no = sent + 1
    BY <1>8, NewCommandType DEF Move
  <2>3. sent' = sent + 1 /\ UNCHANGED <<acks, at, cmd>> /\ Accepted = sent
    BY <1>1, <1>8 DEF Move, fsmVars, Accepted, One
  <2> HIDE DEF NewCommand
  <2>4. CASE Full
    <3>1. queue' = queue /\ Accepted' = Accepted
      BY <1>1, <2>1, <2>3, <2>4 DEF Accepted, One
    <3> QED BY <1>1, <1>2, <1>5, <2>3, <3>1
  <2>5. CASE ~Full
    <3>1. api' = api /\ queue' = Append(queue, NewCommand(t, p))
      BY <2>1, <2>5 DEF Accept
    <3>2. Accepted' = Accepted + 1 /\ Accepted' \in Int
      BY <1>1, <1>8, <2>3, <3>1 DEF Accepted, One, Move
    <3> QED BY <1>1, <1>2, <1>5, <1>7, <2>2, <2>3, <3>1, <3>2
  <2> QED BY <2>4, <2>5
<1>9. CASE DropOldest
  <2>1. Accepted' = Accepted /\ UNCHANGED <<acks, at, cmd>>
    BY <1>9 DEF DropOldest, fsmVars, TypeOK, Accepted, One
  <2>2. queue' = queue \/ (queue # <<>> /\ queue' = Tail(queue))
    BY <1>9 DEF DropOldest
  <2>3. Apart(queue') /\ (at # "receive" => Away(queue', cmd))
    BY <1>2, <1>6, <2>2
  <2>4. acks' = acks /\ at' = at /\ cmd' = cmd /\ Accepted <= Accepted' /\ Accepted' \in Int
    BY <1>1, <2>1
  <2> QED BY <1>5, <2>3, <2>4
<1>10. CASE Retry
  <2>1. api.at = "retry" /\ api'.at = "idle" /\ sent' = sent /\ UNCHANGED <<acks, at, cmd>>
    BY <1>10 DEF Retry, fsmVars, TypeOK
  <2>2. Accepted = sent - 1 /\ Accepted' = sent
    BY <1>1, <2>1 DEF Accepted, One
  <2>3. queue' = queue \/ queue' = Append(queue, api.cmd)
    BY <1>10 DEF Retry, Accept
  <2>4. api.cmd.no = Accepted + 1
    BY <1>1, <1>3, <2>1, <2>2
  <2>5. Apart(queue') /\ (at # "receive" => Away(queue', cmd))
    BY <1>1, <1>2, <1>7, <2>3, <2>4
  <2>6. acks' = acks /\ at' = at /\ cmd' = cmd /\ Accepted <= Accepted' /\ Accepted' \in Int
    BY <1>1, <2>1, <2>2
  <2> QED BY <1>5, <2>5, <2>6
<1>11. ASSUME UNCHANGED apiVars PROVE Accepted' = Accepted
  BY <1>11 DEF Accepted, apiVars
<1>12. CASE Receive \/ Preempt
  <2>1. /\ queue # <<>> /\ queue' = Tail(queue) /\ cmd' = Head(queue)
        /\ UNCHANGED <<acks, apiVars>>
    BY <1>12 DEF Receive, Preempt, Take
  <2> QED BY <1>1, <1>5, <1>6, <1>11, <2>1
<1>13. CASE Plan \/ NoPreempt \/ Tick \/ Final
  <2>1. UNCHANGED <<queue, cmd, acks, apiVars>> /\ at # "receive"
    BY <1>13 DEF Plan, NoPreempt, Tick, Final, At
  <2> QED BY <1>1, <1>2, <1>5, <1>11, <2>1
<1>14. CASE PostReturn
  <2>1. /\ queue' = queue \/ queue' = Append(queue, WayBack)
        /\ at = "pause" /\ at' = "receive" /\ UNCHANGED <<acks, apiVars>>
    BY <1>14 DEF PostReturn, At
  <2>2. WayBack \in Commands /\ WayBack.no = cmd.no
    BY <1>1, CommandType DEF WayBack, Commands
  <2>3. Away(queue, WayBack)
    BY <1>2, <2>1, <2>2 DEF Away
  <2>4. Apart(queue')
    BY <1>1, <1>2, <2>1, <2>2, <2>3, ApartNew
  <2> QED BY <1>1, <1>5, <1>11, <2>1, <2>4
<1>15. CASE SendAck
  <2>1. /\ at = "ack" /\ at' = "receive" /\ acks' = Append(acks, cmd.no)
        /\ UNCHANGED <<queue, apiVars>>
    BY <1>15 DEF SendAck, At
  <2>2. /\ Len(acks) \in Nat /\ Len(acks') = Len(acks) + 1 /\ acks'[Len(acks) + 1] = cmd.no
        /\ \A i \in 1 .. Len(acks) : acks'[i] = acks[i]
    <3>1. cmd.no \in 0 .. MaxCommands
      BY <1>1, CommandType
    <3>2. Len(acks) \in Nat
      BY <1>1
    <3> QED BY <1>1, <2>1, <3>1, <3>2, AppendType
  <2>3. \A i \in 1 .. Len(acks') : i \in 1 .. Len(acks) \/ i = Len(acks) + 1
    BY <2>2
  <2>4. Acked' = Acked \cup {cmd.no}
    <3>1. Len(acks) + 1 \in 1 .. Len(acks') /\ \A i \in 1 .. Len(acks) : i \in 1 .. Len(acks')
      BY <2>2
    <3> QED BY <2>2, <2>3, <3>1 DEF Acked
  <2>5. cmd.no \notin Acked /\ \A i \in 1 .. Len(queue) : queue[i].no # cmd.no
    BY <1>2, <2>1 DEF Away
  <2>6. AckedOnce'
    <3>1. DOMAIN acks = 1 .. Len(acks) /\ DOMAIN acks' = 1 .. Len(acks')
      <4>1. acks' \in Seq(0 .. MaxCommands)
        BY <1>1, <2>1, CommandType, AppendType
      <4> QED BY <1>1, <4>1
    <3>2. \A i \in 1 .. Len(acks) : acks[i] # cmd.no
      BY <2>5 DEF Acked
    <3>3. \A i, j \in 1 .. Len(acks) : acks[i] = acks[j] => i = j
      BY <1>2, <3>1 DEF AckedOnce
    <3> QED BY <2>2, <2>3, <3>1, <3>2, <3>3 DEF AckedOnce
  <2>7. Apart(queue)'
    BY <1>2, <2>1, <2>4, <2>5 DEF Apart
  <2>8. \A n \in Acked' : n <= Accepted'
    BY <1>2, <1>3, <1>11, <2>1, <2>4
  <2> QED BY <2>1, <2>6, <2>7, <2>8 DEF Once
<1>16. CASE UNCHANGED vars
  <2>1. UNCHANGED <<queue, cmd, acks, apiVars, at>>
    BY <1>16 DEF vars, fsmVars
  <2> QED BY <1>1, <1>2, <1>5, <1>11, <2>1
<1> QED BY <1>8, <1>9, <1>10, <1>12, <1>13, <1>14, <1>15, <1>16 DEF Next, Api, Fsm
-----------------------------------------------------------------------------
(* Theorems *)

LEMMA NextTypeOK == TypeOK /\ [Next]_vars => TypeOK'
  BY MoveTypeOK, ApiTypeOK, FsmTypeOK DEF Next, vars, apiVars, fsmVars, TypeOK

\* The inductive invariant: types and the limits of the motion, that the number
\* of a command is at one place only, and the order of the numbers of the
\* commands in the queue, in hand and carried out.
THEOREM Invariance == Spec => []IInv
<1>1. IInv /\ [Next]_vars => IInv'
  BY NextTypeOK, NextOnce, NextOrdered DEF IInv
<1> QED BY InitIInv, <1>1, PTL DEF Spec

\* The servo stays in its range, speed and acceleration within the limits of
\* the commands whatever motion preempts which, the queue within its length.
THEOREM TypeCorrect == Spec => []TypeOK
  BY Invariance, PTL DEF IInv

\* No command is acknowledged twice, though the way back of one is a command
\* itself and may need a way back again.
THEOREM AcknowledgedOnce == Spec => []AckedOnce
<1>1. IInv => AckedOnce
  BY DEF IInv, Once
<1> QED BY Invariance, <1>1, PTL

\* No step of the FSM goes back from a command to an older one, except to the
\* way back of it: not by preemption, not by the drop of the oldest command of
\* a full queue, not by a way back that waits behind newer commands.
THEOREM NeverGoesBack == Spec => NoGoingBack
<1>1. IInv /\ [Next]_vars => [cmd'.back \/ cmd'.no >= cmd.no]_vars
  <2> SUFFICES ASSUME IInv, Next PROVE cmd'.back \/ cmd'.no >= cmd.no
    BY DEF IInv
  <2>1. cmd \in Commands /\ cmd.no \in Int
    BY CommandType DEF IInv, TypeOK
  <2>2. CASE cmd' = cmd
    BY <2>1, <2>2
  <2>3. CASE Receive \/ Preempt
    <3>1. queue # <<>> /\ cmd' = Head(queue)
      BY <2>3 DEF Receive, Preempt, Take
    <3>2. queue \in Seq(Commands) /\ Accepted \in Int
      BY DEF IInv, TypeOK, Accepted, One
    <3>3. Head(queue) \in Commands /\ Head(queue).no \in Int /\ Head(queue).back \in BOOLEAN
      BY <3>1, <3>2, TailType, CommandType
    <3>4. ~Head(queue).back => cmd.no < Head(queue).no
      BY <2>1, <3>1, <3>2, OrderedFollows, FollowsTail DEF IInv
    <3> QED BY <2>1, <3>1, <3>3, <3>4
  <2> QED BY <2>2, <2>3 DEF Next, Api, Fsm, Move, DropOldest, Retry, Plan, NoPreempt, Tick, Final,
             PostReturn, SendAck, fsmVars
<1> QED BY Invariance, <1>1, PTL DEF Spec, NoGoingBack
-----------------------------------------------------------------------------
(* How far a tick moves the servo *)

\* The signal is the position of the motion, or a target so near that the
\* servo would not tell them apart.
SignalNear == Distance(servo, motion.pos) <= Deadzone

LEMMA DistanceType == ASSUME NEW x \in Int, NEW y \in Int
                      PROVE  /\ Distance(x, y) \in Nat /\ Distance(x, y) \in Int
                             /\ Distance(x, y) = Distance(y, x)
  BY DEF Distance, Larger

LEMMA DistanceZero == ASSUME NEW x \in Int PROVE Distance(x, x) = 0
  BY DEF Distance, Larger

LEMMA Triangle == ASSUME NEW x \in Int, NEW y \in Int, NEW z \in Int
                  PROVE  Distance(x, z) <= Distance(x, y) + Distance(y, z)
  BY DEF Distance, Larger

LEMMA TimesMonotone == ASSUME NEW x \in Nat, NEW y \in Nat, NEW z \in Nat, x <= y
                       PROVE  x * z <= y * z
<1>1. PICK k \in Nat : y = x + k
  BY y - x \in Nat, y = x + (y - x)
<1>2. y * z = x * z + k * z
  BY <1>1
<1> QED BY <1>2, TimesNat

LEMMA AdvanceSmall == ASSUME NEW m, Within(m), NEW t \in Positions, NEW p \in Limits, NEW dt \in Nat
                      PROVE  Distance(Advance(m, t, p, dt).pos, m.pos) <= p.speed * dt
<1> DEFINE vel == Smaller(Larger(m.vel + m.acc * dt, 0), p.speed)
           s == vel * dt
           up == t > m.pos
           pos == IF up THEN m.pos + s ELSE m.pos - s
<1>1. m \in Motions /\ m.pos \in Int /\ t \in Int /\ p.speed \in Nat
  BY LimitsType, ServoTaskAssumption DEF Within, Motions, Positions
<1>2. vel \in Nat /\ vel <= p.speed
  BY NewSpeed
<1>3. Advance(m, t, p, dt) = IF (up /\ pos >= t) \/ (~up /\ pos <= t)
                             THEN [m EXCEPT !.pos = t, !.vel = 0, !.acc = 0, !.done = TRUE]
                             ELSE [m EXCEPT !.pos = pos, !.vel = vel]
  BY DEF Advance
<1> HIDE DEF vel
<1>4. s \in Nat /\ s <= p.speed * dt /\ p.speed * dt \in Nat
  BY <1>1, <1>2, TimesNat, TimesMonotone
<1> HIDE DEF s
<1>5. CASE (up /\ pos >= t) \/ (~up /\ pos <= t)
  <2>1. Advance(m, t, p, dt).pos = t
    <3> DEFINE n == [m EXCEPT !.pos = t, !.vel = 0, !.acc = 0, !.done = TRUE]
    <3>1. n.pos = t
      BY <1>1, ArriveType, Zenon
    <3> QED BY <1>3, <1>5, <3>1
  <2>2. Distance(t, m.pos) <= s
    BY <1>1, <1>4, <1>5 DEF Distance, Larger
  <2>3. Distance(t, m.pos) \in Int
    BY <1>1, DistanceType
  <2> DEFINE z == p.speed * dt
  <2>4. z \in Nat /\ s <= z
    BY <1>4
  <2> HIDE DEF z
  <2>5. Distance(t, m.pos) <= z
    BY <1>4, <2>2, <2>3, <2>4
  <2> QED BY <2>1, <2>5 DEF z
<1>6. CASE ~((up /\ pos >= t) \/ (~up /\ pos <= t))
  <2> DEFINE z == p.speed * dt
  <2>1. z \in Nat /\ s <= z
    BY <1>4
  <2>2. pos \in Int /\ Distance(pos, m.pos) <= s
    BY <1>1, <1>4 DEF Distance, Larger
  <2> HIDE DEF z, pos
  <2>3. Advance(m, t, p, dt).pos = pos
    BY <1>1, <1>3, <1>6 DEF Motions
  <2>4. Distance(pos, m.pos) <= z
    <3>1. Distance(pos, m.pos) \in Int
      BY <1>1, <2>2, DistanceType
    <3> QED BY <1>4, <2>1, <2>2, <3>1
  <2> QED BY <2>3, <2>4 DEF z
<1> QED BY <1>5, <1>6

\* One tick: where it takes the motion, and what the signal is then.
LEMMA TickMoves ==
  ASSUME IInv, Tick
  PROVE  /\ \E dt \in Intervals \cup {0} : Distance(motion'.pos, motion.pos) <= cmd.lim.speed * dt
         /\ SignalNear'
         /\ motion'.pos \in Int /\ servo' \in Int
<1>1. Within(motion) /\ target \in Positions /\ cmd.lim \in Limits
  BY TypeOKWithin, CommandType DEF IInv
<1>2. PICK dt \in Intervals \cup {0} :
        motion' = [Advance(Switch(motion, target, cmd.lim, dt), target, cmd.lim, dt) EXCEPT !.fresh = FALSE]
  BY DEF Tick
<1>3. dt \in Nat
  BY ServoTaskAssumption
<1> DEFINE m == Switch(motion, target, cmd.lim, dt)
           a == Advance(m, target, cmd.lim, dt)
<1>4. Within(m) /\ m.pos = motion.pos
  BY <1>1, <1>3, SwitchKeeps DEF Keeps
<1> HIDE DEF m
<1>5. Within(a) /\ Distance(a.pos, m.pos) <= cmd.lim.speed * dt
  BY <1>1, <1>3, <1>4, AdvanceKeeps, AdvanceSmall
<1>6. motion' = [a EXCEPT !.fresh = FALSE]
  BY <1>2 DEF m
<1> HIDE DEF a
<1>7. motion'.pos = a.pos /\ a.pos \in Int
  BY <1>5, <1>6, ServoTaskAssumption DEF Within, Motions, Positions
<1>8. target \in Int /\ Deadzone \in Nat
  BY <1>1, ServoTaskAssumption DEF Positions
<1>9. servo' = motion'.pos \/ (servo' = target /\ Distance(motion'.pos, target) <= Deadzone)
  <2>1. motion'.pos \in Int /\ Distance(motion'.pos, target) \in Int
    BY <1>7, <1>8, DistanceType
  <2> QED BY <1>8, <2>1 DEF Tick
<1>10. SignalNear'
  <2>1. Distance(servo', motion'.pos) <= Deadzone
    <3>1. CASE servo' = motion'.pos
      <4>1. Distance(motion'.pos, motion'.pos) = 0
        BY <1>7, DistanceZero
      <4> QED BY <1>8, <3>1, <4>1
    <3>2. CASE servo' = target /\ Distance(motion'.pos, target) <= Deadzone
      <4>1. Distance(target, motion'.pos) = Distance(motion'.pos, target)
        BY <1>7, <1>8, DistanceType
      <4> QED BY <3>2, <4>1
    <3> QED BY <1>9, <3>1, <3>2
  <2> QED BY <2>1 DEF SignalNear, Distance, Larger
<1> QED BY <1>4, <1>5, <1>7, <1>9, <1>8, <1>10

LEMMA NextSignalNear == IInv /\ SignalNear /\ [Next]_vars => SignalNear'
<1> SUFFICES ASSUME IInv, SignalNear, [Next]_vars PROVE SignalNear'
  OBVIOUS
<1>1. CASE Tick
  BY <1>1, TickMoves
<1>2. CASE Final
  <2>1. motion'.pos = cmd.target /\ servo' = cmd.target
    BY <1>2 DEF Final, AtRest
  <2>2. cmd.target \in Positions
    BY CommandType DEF IInv, TypeOK
  <2>3. cmd.target \in Int /\ Deadzone \in Nat
    BY <2>2, ServoTaskAssumption DEF Positions
  <2> QED BY <2>1, <2>3 DEF SignalNear, Distance, Larger
<1>3. CASE UNCHANGED servo /\ motion'.pos = motion.pos
  BY <1>3 DEF SignalNear, Distance, Larger
<1>4. CASE Plan
  BY <1>3, <1>4 DEF Plan, IInv, TypeOK
<1> QED BY <1>1, <1>2, <1>3, <1>4 DEF Next, Api, Fsm, Move, DropOldest, Retry, Receive, Preempt,
           NoPreempt, PostReturn, SendAck, vars, fsmVars

\* No tick is a jump, for any limits, intervals and order of preemptions: each
\* moves the signal no further than the speed limit of the command allows, and
\* twice the deadzone.
THEOREM NoTickJumps == Spec => TicksAreSmall
<1>1. Init => SignalNear
  BY DistanceZero, ServoTaskAssumption DEF Init, AtRest, SignalNear, Positions
<1>2. Spec => []SignalNear
  BY Invariance, <1>1, NextSignalNear, PTL DEF Spec
<1>3. IInv /\ SignalNear /\ [Next]_vars =>
        [at = "tick" => \E dt \in Intervals \cup {0} :
                          Distance(servo', servo) <= cmd.lim.speed * dt + 2 * Deadzone]_vars
  <2> SUFFICES ASSUME IInv, SignalNear, Next, at = "tick"
               PROVE  \E dt \in Intervals \cup {0} :
                        Distance(servo', servo) <= cmd.lim.speed * dt + 2 * Deadzone
    OBVIOUS
  <2>1. servo \in Int /\ motion.pos \in Int /\ Deadzone \in Nat /\ 0 \in Intervals \cup {0}
    <3>1. servo \in Positions /\ motion.pos \in Positions
      BY DEF IInv, TypeOK
    <3> QED BY <3>1, ServoTaskAssumption DEF Positions
  <2>4. cmd.lim.speed \in Nat
    <3>1. cmd.lim \in Limits
      BY CommandType DEF IInv, TypeOK
    <3> QED BY <3>1, LimitsType
  <2>2. CASE Tick
    <3>1. PICK dt \in Intervals \cup {0} : Distance(motion'.pos, motion.pos) <= cmd.lim.speed * dt
      BY <2>2, TickMoves
    <3>2. motion'.pos \in Int /\ servo' \in Int /\ Distance(servo', motion'.pos) <= Deadzone
      BY <2>2, TickMoves DEF SignalNear, Distance, Larger
    <3> DEFINE z == cmd.lim.speed * dt
    <3>3. dt \in Nat /\ z \in Nat
      <4>1. dt \in Nat
        BY ServoTaskAssumption
      <4> QED BY <2>4, <4>1, TimesNat
    <3>4. Distance(motion'.pos, motion.pos) <= z
      BY <3>1
    <3> HIDE DEF z
    <3>5. /\ Distance(servo', servo) <= Distance(servo', motion'.pos) + Distance(motion'.pos, servo)
          /\ Distance(motion'.pos, servo) <= Distance(motion'.pos, motion.pos) + Distance(motion.pos, servo)
          /\ Distance(motion.pos, servo) <= Deadzone
      BY <2>1, <3>2, DistanceType, Triangle DEF SignalNear
    <3>6. Distance(servo', servo) <= z + 2 * Deadzone
      <4>1. /\ Distance(servo', servo) \in Nat /\ Distance(servo', motion'.pos) \in Nat
            /\ Distance(motion'.pos, servo) \in Nat /\ Distance(motion'.pos, motion.pos) \in Nat
            /\ Distance(motion.pos, servo) \in Nat
        BY <2>1, <3>2, DistanceType
      <4> QED BY <2>1, <3>2, <3>3, <3>4, <3>5, <4>1
    <3> QED BY <3>6 DEF z
  <2>3. CASE UNCHANGED servo
    <3>1. Distance(servo', servo) = 0
      BY <2>1, <2>3, DistanceZero
    <3>2. cmd.lim.speed * 0 = 0
      BY <2>4
    <3> QED BY <2>1, <3>1, <3>2
  <2> QED BY <2>2, <2>3 DEF Next, Api, Fsm, Move, DropOldest, Retry, Receive, Plan, Preempt, NoPreempt,
             Final, PostReturn, SendAck, At
<1> QED BY Invariance, <1>2, <1>3, PTL DEF Spec, TicksAreSmall
=============================================================================
