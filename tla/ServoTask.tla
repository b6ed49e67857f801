----------------------------- MODULE ServoTask -----------------------------
(***************************************************************************)
(* The servo of a cube (lib/cinematics/servo_task.cpp): move_servo_speed   *)
(* puts commands into a bounded queue, dropping the oldest when it is      *)
(* full; the FSM task carries them out along an S-curve, preempts the      *)
(* motion when another command arrives, and compensates the backlash of a  *)
(* downward motion by going too far and posting a command for the way      *)
(* back.                                                                   *)
(*                                                                         *)
(* Lengths and times are in the units of SCurve.                           *)
(***************************************************************************)
EXTENDS SCurve, Sequences

CONSTANTS MinPos, MaxPos,   \* servo_data.min_pos and max_pos
          Start,            \* where servo_init takes the servo to be
          Targets,          \* where commands send it
          Profiles,         \* the limits of commands: speed, acc and jerk
          ReturnProfile,    \* those of the way back: 0.5, 10 and 30
          Backlash,
          Tolerance,        \* a target nearer than that is reached: 0.005 rad
          Deadzone,         \* servo_deadzone
          Intervals,        \* from one tick of the loop to the next, 20 ms
          QueueLen,         \* SERVO_QUEUE_LEN, 5 in the code
          MaxCommands,      \* how many commands are sent
          OneCore           \* the ESP32-C3: a caller of move_servo_speed has a
                            \* higher priority, the FSM waits until it is done

Positions == MinPos .. MaxPos
Limits == Profiles \cup {ReturnProfile}

ASSUME ServoTaskAssumption ==
         /\ MinPos \in Int /\ MaxPos \in Int
         /\ Start \in Positions /\ Targets \subseteq Positions
         /\ Limits \subseteq [speed : Nat \ {0}, acc : Nat \ {0}, jerk : Nat \ {0}]
         /\ Backlash \in Nat /\ Tolerance \in Nat \ {0} /\ Deadzone \in Nat
         /\ Intervals \subseteq Nat \ {0}
         /\ QueueLen \in Nat \ {0} /\ MaxCommands \in Nat /\ OneCore \in BOOLEAN

VARIABLES queue,    \* xServoQueue
          api,      \* the task inside move_servo_speed, and its command
          sent,     \* number of commands sent so far, which numbers them
          latest,   \* the newest command accepted
          late,     \* (history) it came after the last look at the queue of a
                    \* motion that goes too far
          at,       \* where the FSM task is
          cmd,      \* the command it carries out
          target,   \* where that command really goes
          backlash_compensation,
          motion,   \* pos, vel, acc, phase, done, and whether no tick was made;
                    \* servo_data has the first three
          servo,    \* the position signal sent to the servo
          acks      \* type_servo_ack messages sent: the commands they are for

apiVars == <<api, sent, latest, late>>
fsmVars == <<at, cmd, target, backlash_compensation, motion>>
vars == <<queue, apiVars, fsmVars, servo, acks>>

\* What servo_move_cmd_t tells apart; no and back are history: a command is
\* the no-th one sent, or was posted by the FSM for the way back of that.
Commands == [no : 0 .. MaxCommands, target : Targets \cup {Start}, lim : Limits, back : BOOLEAN]
First == [no |-> 0, target |-> Start, lim |-> ReturnProfile, back |-> FALSE]

AtRest(p) == [pos |-> p, vel |-> 0, acc |-> 0, phase |-> "accel_jup", done |-> FALSE, fresh |-> TRUE]

Init == /\ queue = <<>>
        /\ api = [at |-> "idle", cmd |-> First]
        /\ sent = 0
        /\ latest = First
        /\ late = FALSE
        /\ at = "receive"
        /\ cmd = First
        /\ target = Start
        /\ backlash_compensation = FALSE
        /\ motion = AtRest(Start)
        /\ servo = Start
        /\ acks = <<>>

Full == Len(queue) = QueueLen
-----------------------------------------------------------------------------
(* move_servo_speed, called by task_execute_servo *)

BehindLastLook == backlash_compensation /\ at \in {"tick", "final", "pause"}

\* Mutant: xQueueSendToFront.
AcceptFront(c) == /\ queue' = <<c>> \o queue
                  /\ latest' = c
                  /\ late' = BehindLastLook

Accept(c) == /\ queue' = Append(queue, c)
             /\ latest' = c
             /\ late' = BehindLastLook

Move == /\ api.at = "idle"
        /\ sent < MaxCommands
        /\ sent' = sent + 1
        /\ \E t \in Targets, p \in Profiles :
              LET c == [no |-> sent + 1, target |-> t, lim |-> p, back |-> FALSE] IN
              IF Full THEN /\ api' = [at |-> "drop", cmd |-> c]
                           /\ UNCHANGED <<queue, latest, late>>
                      ELSE Accept(c) /\ UNCHANGED api
        /\ UNCHANGED <<fsmVars, servo, acks>>

\* The queue was full: receive without waiting, throw away.
DropOldest == /\ api.at = "drop"
              /\ queue' = IF queue = <<>> THEN <<>> ELSE Tail(queue)
              /\ api' = [api EXCEPT !.at = "retry"]
              /\ UNCHANGED <<sent, latest, late, fsmVars, servo, acks>>

\* The second attempt; if it fails, ESP_ERR_INVALID_STATE is returned.
Retry == /\ api.at = "retry"
         /\ IF Full THEN UNCHANGED <<queue, latest, late>> ELSE Accept(api.cmd)
         /\ api' = [api EXCEPT !.at = "idle"]
         /\ UNCHANGED <<sent, fsmVars, servo, acks>>
-----------------------------------------------------------------------------
(* move_servo_speed_task_state_machine *)

At(l) == at = l /\ (OneCore => api.at = "idle")

Take == /\ cmd' = Head(queue)
        /\ queue' = Tail(queue)

Receive == /\ At("receive")
           /\ queue # <<>>
           /\ Take
           /\ at' = "plan"
           /\ UNCHANGED <<apiVars, target, backlash_compensation, motion, servo, acks>>

\* Mutant: no motion at all is taken for a downward one.
DownOrStill == cmd.target <= motion.pos

GoesDown == cmd.target < motion.pos

\* A downward motion goes too far, as far as the range allows.  The phases
\* begin anew, with the speed and acceleration there are.
Plan == /\ At("plan")
        /\ backlash_compensation' = GoesDown
        /\ target' = IF GoesDown THEN Larger(cmd.target - Backlash, MinPos) ELSE cmd.target
        /\ motion' = [motion EXCEPT !.phase = "accel_jup", !.fresh = TRUE]
        /\ at' = IF Distance(target', motion.pos) < Tolerance THEN "final" ELSE "poll"
        /\ UNCHANGED <<queue, apiVars, cmd, servo, acks>>

\* Mutant: the command that preempts is thrown away.
PreemptLost == /\ At("poll")
               /\ queue # <<>>
               /\ queue' = Tail(queue)
               /\ at' = "plan"
               /\ UNCHANGED <<apiVars, cmd, target, backlash_compensation, motion, servo, acks>>

\* A command in the queue preempts the motion.
Preempt == /\ At("poll")
           /\ queue # <<>>
           /\ Take
           /\ at' = "plan"
           /\ UNCHANGED <<apiVars, target, backlash_compensation, motion, servo, acks>>

NoPreempt == /\ At("poll")
             /\ queue = <<>>
             /\ at' = "tick"
             /\ UNCHANGED <<queue, apiVars, cmd, target, backlash_compensation, motion, servo, acks>>

\* One pass of the loop, then the signal: a position that the servo would not
\* tell from the target is replaced by it.
Tick == /\ At("tick")
        /\ \E dt \in IF motion.fresh THEN {0} ELSE Intervals :
              \E m \in {Switch(motion, target, cmd.lim, dt)} :
                 motion' = [Advance(m, target, cmd.lim, dt) EXCEPT !.fresh = FALSE]
        /\ servo' = IF Distance(motion'.pos, target) > Deadzone THEN motion'.pos ELSE target
        /\ at' = IF motion'.done THEN "final" ELSE "poll"
        /\ UNCHANGED <<queue, apiVars, cmd, target, backlash_compensation, acks>>

\* set_servo_pos stores the position, too.
Final == /\ At("final")
         /\ servo' = cmd.target
         /\ motion' = AtRest(cmd.target)
         /\ at' = IF backlash_compensation THEN "pause" ELSE "ack"
         /\ UNCHANGED <<queue, apiVars, cmd, target, backlash_compensation, acks>>

WayBack == [cmd EXCEPT !.lim = ReturnProfile, !.back = TRUE]

\* Mutant: the command for the way back is posted in any case.
PostReturnUnbounded == /\ At("pause")
                       /\ queue' = Append(queue, WayBack)
                       /\ at' = "receive"
                       /\ UNCHANGED <<apiVars, cmd, target, backlash_compensation, motion, servo, acks>>

\* Mutant: a downward motion is acknowledged before its way back, too.
PostReturnAck == /\ At("pause")
                 /\ queue' = IF Full THEN queue ELSE Append(queue, WayBack)
                 /\ at' = "ack"
                 /\ UNCHANGED <<apiVars, cmd, target, backlash_compensation, motion, servo, acks>>

\* 500 ms later: the command for the way back, if there is room for it.
PostReturn == /\ At("pause")
              /\ queue' = IF Full THEN queue ELSE Append(queue, WayBack)
              /\ at' = "receive"
              /\ UNCHANGED <<apiVars, cmd, target, backlash_compensation, motion, servo, acks>>

SendAck == /\ At("ack")
           /\ acks' = Append(acks, cmd.no)
           /\ at' = "receive"
           /\ UNCHANGED <<queue, apiVars, cmd, target, backlash_compensation, motion, servo>>
-----------------------------------------------------------------------------
Api == DropOldest \/ Retry
Fsm == Receive \/ Plan \/ Preempt \/ NoPreempt \/ Tick \/ Final \/ PostReturn \/ SendAck
Next == Move \/ Api \/ Fsm

\* The FSM task and a caller inside move_servo_speed keep running; nobody
\* has to send a command.
Spec == Init /\ [][Next]_vars
FairSpec == Spec /\ WF_vars(Api) /\ WF_vars(Fsm)
-----------------------------------------------------------------------------
(* Properties *)

TypeOK == /\ queue \in Seq(Commands) /\ Len(queue) <= QueueLen
          /\ api \in [at : {"idle", "drop", "retry"}, cmd : Commands]
          /\ sent \in 0 .. MaxCommands
          /\ latest \in Commands /\ late \in BOOLEAN
          /\ at \in {"receive", "plan", "poll", "tick", "final", "pause", "ack"}
          /\ cmd \in Commands
          /\ target \in Positions /\ servo \in Positions
          /\ backlash_compensation \in BOOLEAN
          /\ motion \in [pos : Positions, vel : Nat, acc : Int, phase : Phases,
                         done : BOOLEAN, fresh : BOOLEAN]
          /\ \E p \in Limits : motion.vel <= p.speed
          /\ \E p \in Limits : motion.acc <= p.acc
          /\ \E p \in Limits : -p.acc <= motion.acc
          /\ acks \in Seq(0 .. MaxCommands)

\* When no more commands come the servo comes to rest, and the command it
\* rests at was acknowledged: backlash compensation does not feed itself.
Rests == <>[](at = "receive" /\ queue = <<>> /\ (sent > 0 => acks # <<>>))

\* The FSM never goes back from a command to an older one, except for the
\* way back of that: neither preemption nor the drop of the oldest command of
\* a full queue changes the order of what was sent.
NoGoingBack == [][cmd'.back \/ cmd'.no >= cmd.no]_vars

\* In the end the servo is where the newest command accepted sent it, whatever
\* that one preempted or made room for in the queue; unless it came too late
\* to stop the FSM from posting the way back of an older one behind it.
Settles == <>[](~late => servo = latest.target)

\* No command is acknowledged twice, though the way back of one is a command
\* itself, may be preempted or dropped, and may need a way back again: the
\* bridge counts acknowledgements.
AckedOnce == \A i, j \in DOMAIN acks : acks[i] = acks[j] => i = j

\* No tick makes the servo jump: it moves the signal no further than the speed
\* limit of the command takes it in one interval, and twice the deadzone (within
\* which the target is sent early), whatever speed and acceleration the motion
\* took over from one with other limits that it preempted.  The last signal of
\* a motion is not a tick's: line 237 sends the target from wherever the motion
\* ended, above all after it went too far for the backlash.
TicksAreSmall ==
    [][at = "tick" => \E dt \in Intervals \cup {0} :
                        Distance(servo', servo) <= cmd.lim.speed * dt + 2 * Deadzone]_vars
-----------------------------------------------------------------------------
(* What the comments and documents of the source say, and the code does    *)
(* not do                                                                   *)

\* servo_task.cpp 273: "the servo always moves towards the most recent target
\* position", and so it gets there.
MostRecentWins == <>[](servo = latest.target)
=============================================================================
