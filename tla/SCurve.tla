------------------------------- MODULE SCurve -------------------------------
(***************************************************************************)
(* The S-curve of a motion: one pass of the loop of the FSM task           *)
(* (lib/cinematics/servo_task.cpp) and the distance it takes to stop       *)
(* (servo_motion.cpp).                                                     *)
(*                                                                         *)
(* Floating-point numbers are whole numbers of a unit of length.  The unit *)
(* of time is the step of decel_distance_sim, 2 ms in the code, of which a *)
(* tick of the loop has ten.  Fractions are multiplied out.  The limits p  *)
(* of a motion are its speed, acc and jerk, all positive.                  *)
(***************************************************************************)
EXTENDS Integers

Smaller(x, y) == IF x <= y THEN x ELSE y
Larger(x, y) == IF x <= y THEN y ELSE x
Distance(x, y) == Larger(x - y, y - x)

Gaining == {"accel_jup", "accel_const", "accel_jdn", "cruise"}
Phases == Gaining \cup {"decel_jup", "decel_const", "decel_jdn"}

\* decel_distance_sim, in quarters of a unit: v is the speed, a the
\* acceleration at the start.  A step adds its average acceleration to the
\* speed; w is twice the speed.
StopDistance(v, a, p) ==
    LET Sim[w \in Nat, b \in Int] ==
            LET c == Larger(b - p.jerk, -p.acc)
                u == Smaller(w + b + c, 2 * p.speed)
            IN IF u <= 0 THEN (w * w) \div (-(b + c))
                         ELSE 2 * w + b + c + Sim[u, c]
    IN IF v = 0 THEN 0 ELSE Sim[2 * v, a]

\* rem <= d_trig, with decel_distance_with_acc or decel_distance.
MustStop(m, target, p) ==
    4 * Distance(target, m.pos) <= StopDistance(m.vel, Larger(m.acc, 0), p)

\* vel + acc^2 / 2j >= v
WouldReachSpeed(vel, acc, p) == 2 * p.jerk * vel + acc * acc >= 2 * p.jerk * p.speed

\* vel <= acc^2 / 2j
WouldStop(vel, acc, p) == 2 * p.jerk * vel <= acc * acc

\* switch (phase), dt after the tick before.
Accelerate(m, p, dt) ==
    LET acc == Smaller(m.acc + p.jerk * dt, p.acc) IN
    [m EXCEPT !.acc = acc,
              !.phase = CASE WouldReachSpeed(m.vel, acc, p) -> "accel_jdn"
                          [] ~WouldReachSpeed(m.vel, acc, p) /\ acc = p.acc -> "accel_const"
                          [] OTHER -> @]

KeepAccelerating(m, p) ==
    [m EXCEPT !.phase = IF WouldReachSpeed(m.vel, p.acc, p) THEN "accel_jdn" ELSE @]

EaseOff(m, p, dt) ==
    IF m.acc <= p.jerk * dt THEN [m EXCEPT !.acc = 0, !.vel = p.speed, !.phase = "cruise"]
                            ELSE [m EXCEPT !.acc = @ - p.jerk * dt]

Brake(m, p, dt) ==
    LET acc == Larger(m.acc - p.jerk * dt, -p.acc) IN
    [m EXCEPT !.acc = acc,
              !.phase = CASE WouldStop(m.vel, acc, p) -> "decel_jdn"
                          [] ~WouldStop(m.vel, acc, p) /\ acc = -p.acc -> "decel_const"
                          [] OTHER -> @]

KeepBraking(m, p) == [m EXCEPT !.phase = IF WouldStop(m.vel, p.acc, p) THEN "decel_jdn" ELSE @]

Release(m, p, dt) ==
    IF m.acc + p.jerk * dt >= 0 THEN [m EXCEPT !.acc = 0, !.vel = 0, !.done = TRUE]
                                ELSE [m EXCEPT !.acc = @ + p.jerk * dt]

Switch(m, target, p, dt) ==
    IF m.phase \in Gaining /\ MustStop(m, target, p)
    THEN [m EXCEPT !.phase = "decel_jup"]
    ELSE CASE m.phase = "accel_jup"   -> Accelerate(m, p, dt)
           [] m.phase = "accel_const" -> KeepAccelerating(m, p)
           [] m.phase = "accel_jdn"   -> EaseOff(m, p, dt)
           [] m.phase = "cruise"      -> m
           [] m.phase = "decel_jup"   -> Brake(m, p, dt)
           [] m.phase = "decel_const" -> KeepBraking(m, p)
           [] m.phase = "decel_jdn"   -> Release(m, p, dt)

\* Mutant: the speed is not held below the limit.
AdvanceUnclamped(m, target, p, dt) ==
    LET vel == Larger(m.vel + m.acc * dt, 0)
        up  == target > m.pos
        pos == IF up THEN m.pos + vel * dt ELSE m.pos - vel * dt
    IN IF (up /\ pos >= target) \/ (~up /\ pos <= target)
       THEN [m EXCEPT !.pos = target, !.vel = 0, !.acc = 0, !.done = TRUE]
       ELSE [m EXCEPT !.pos = pos, !.vel = vel]

\* The new speed and position; a position at or behind the target ends it.
Advance(m, target, p, dt) ==
    LET vel == Smaller(Larger(m.vel + m.acc * dt, 0), p.speed)
        up  == target > m.pos
        pos == IF up THEN m.pos + vel * dt ELSE m.pos - vel * dt
    IN IF (up /\ pos >= target) \/ (~up /\ pos <= target)
       THEN [m EXCEPT !.pos = target, !.vel = 0, !.acc = 0, !.done = TRUE]
       ELSE [m EXCEPT !.pos = pos, !.vel = vel]
=============================================================================
