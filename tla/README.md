# Verification of the cube arm firmware

TLA+ models, TLC configurations and TLAPS proofs for the firmware in `src/`: an arm made of
cubes (ESP32-C3, the base cube or root an ESP32-S3) that are plugged into each other, find each other over
UART, and are moved by a client that talks to the root over WiFi.

* [Inventory](#inventory): the parts of the system, their state and what makes them correct
* [Modules](#modules): which module models which part, and how it corresponds to the code
* [Runs](#runs): what TLC checks, with which bounds and which fairness, and what it shows
* [Proofs](#proofs): what TLAPS proves for all values of the constants
* [Disagreements](#disagreements): where the code does not do what its comments say
* [Limits](#limits): what is only model-checked, and what is not modelled
* [Plan](#plan): what comes next

`tlc -config X.cfg M` runs a configuration of the table below, `tlapm X_proofs.tla` checks the proofs about
module `X` (and `tlapm Counting.tla` the lemmas two of them share). `PROJECT.json` maps every definition to its source lines.

## Inventory

Each cube has one UART towards its master (the neighbour nearer to the root) and one towards its slave. A cube
learns its neighbours at run time; only its own id is fixed. Tasks of one cube share global
variables (`GLOBAL_VARS.cpp`) and FreeRTOS queues of ten.

| Component | State | Operations | Talks to |
|---|---|---|---|
| UART send path, `uart.cpp` 241-335 and `task_send_uart` | per direction: pre-init buffer, its mutex, send queue; `MASTER_ID`, `SLAVE_ID` | `create_msg`, `send_msg_to_*`, `send_buffered_messages_to_*`, write and delete | called by every task that sends; the ids are written by the handshake tasks |
| UART receive path, `task_receive_uart`, `sort_new_msg` | driver buffer, the frame being read | find header, read the rest, check footer, sort by type, forward | the queues of handshakes, reports, commands, servo moves; the send path of the other side |
| Handshake protocol, `handle_handshake.cpp` | ids of the neighbours, `received_*_ack`, `last_*_sender_id`, a task notification | ping tasks (one for each side), handler of pings and acks, `send_report_to_root` | send path, report handler |
| Report handler of the root, `handle_report.cpp` | `dict`, `is_dict_ix_empty`, `ids_array`, `ids_array_len` | `receive_new_report`, `remove_subtree_recursive`, `compute_ids_array` | called by the report task and both handshake tasks of the root; tells the protocol manager the number of servos |
| Servo state machine, `servo_task.cpp` | command queue, current command, position, backlash flag | `move_servo_speed`, the FSM task, acknowledgements | send path |
| S-curve, stopping distance, `servo_motion.cpp` | speed, phase | floating-point arithmetic | servo state machine |
| Servo HAL, `servo_hal.cpp` | duty cycle | set position | servo state machine |
| Bridge, `bridge.cpp` | none | one message per servo from a console command | protocol manager, report handler, send path |
| Protocol manager and TCP server, `wifi_code/` | client socket, number of servos | accept, greet, parse a line, check the count, answer, notify | bridge, Python client |
| Python client, `python client/esp32_client.py` | number of servos, events of its two threads, step of the sequence | ask the user, send a command or a step, wait for OK | TCP server |
| Start-up, `init_wifi` and `init_uart_comms` | | create queues and tasks; the server first, the list of cubes 1.5 s later | all |
| LED, WiFi access point, debug output, command mock-ups, tests, old code | | | nothing depends on them |

What is hard here, and what makes each part correct:

* **Send path.** The neighbour's id is tested under the mutex but set without it, the flush blocks
  on a full queue while it holds the mutex, and two tasks may flush at the same time. Correct: no
  message is lost, duplicated or left behind, and everything is sent once the neighbour stays known.
* **Receive path.** There is no checksum and no escaping: after a loss the receiver looks for a
  header byte in the middle of a frame, and a read that times out leaves an old header in the
  buffer. Correct: a loss costs few frames, no damaged frame gets through, the receiver falls into
  step again.
* **Frames through the arm.** A receiving task that waits for room holds up everything behind it, a frame may wait in a buffer
  for a neighbour that is another one when it comes, and ids name cubes that have gone. Correct: a command reaches the cube it is for,
  the newest last; the root knows every link; nothing gets stuck.
* **Handshake.** Two tasks write the same id and flag without a lock, the notification counts as
  an answer whichever ping it belongs to, cubes come and go at any moment. Correct: a neighbour is
  dropped only for a cause, both ends agree in the end, and the root is told.
* **Report handler.** Reports of different cubes arrive in any order; entries of cubes that left
  stay in the table until somebody prunes them; three tasks run the same unlocked code. Correct:
  the list is the arm, without loops or duplicates, within its bounds.
* **Servo.** Commands preempt motions in any phase and with other limits, the distance to stop is a simulation with other steps than the
  motion's, a full queue drops its oldest command while the FSM task reads it,
  and a compensated motion posts a command to its own queue. Correct: the servo comes to rest,
  at the newest target, without a jump, and commands are never carried out in the wrong order.
* **Console.** The list of cubes is rebuilt by one task, read by another, and its length is kept a third time by the
  client; sessions end at any moment, noticed by the root or not. Correct: every command has one answer, the sequence goes on
  only with the answer to its step, the client knows the number of servos, each cube gets its own values, and
  the next client is served.

`PROJECT.json` lists each of these at its line under `hazards`, with the properties that cover it.

## Modules

| Module | What it is |
|---|---|
| `Outbox` | what the send path promises: messages enter, are held or ready, and are sent, each once |
| `UartSend` | one direction of the send path; implements `Outbox` |
| `Handshake` | one link of the arm: the cube above and the cubes a user may plug below it |
| `UartReceive` | the bytes of one UART and the task that finds the frames in them |
| `Chain` | arms of several cubes: commands, reports and acknowledgements on their way |
| `ReportHandler` | the root's table of reports and the ordered list of cubes |
| `SCurve` | one tick of a motion, and the distance it takes to stop |
| `ServoTask` | command queue and FSM task of one servo; extends `SCurve` |
| `Console` | the client, the TCP server and protocol manager, the bridge, and the rebuilding of the list |
| `MC...` | the constants of the small instances |
| `..._proofs` | theorems about `UartSend`, `Chain`, `Handshake`, `ReportHandler`, `ServoTask`, `UartReceive`, `Console` |
| `Counting` | lemmas: how many frames of a kind are in a queue, when one is put in or taken out |

In every module an operation that carries the name of a mutant (`...Unlocked`, `...Kept`, and so on, each behind a
comment `Mutant:`) is a plausible bug in that operation. It is no part of the specification; it is
there to show that the property beside it in `PROJECT.json` would notice.

**UartSend.** `known` is `MASTER_ID != UNKNOWN_ID`. A task's `pc` says where it is inside
`send_msg_to_master` (`take`, `push`, `enq`) or the flush (`f_take`, `f_enq`), `msg` what it has in hand.
`SendTake` takes the mutex and makes the test; `SendPush` and `SendEnqueue` are the branches, the
latter blocked while `send_queue` is full, as `xQueueSend` with `portMAX_DELAY` is. `Learn` is the
write of the id before the flush, by either handshake task; `Lose` is the ping task's write of
`UNKNOWN_ID`. Neither takes the mutex. The slave direction is the same code with other names.

**Outbox** and the refinement. A message enters, is held for an unknown neighbour or ready, is
sent. The mapping counts a message that a flush has popped as held, and the one in the hand of
`task_send_uart` as ready. What `Outbox` does not promise is the order of held and ready messages: a
new message does overtake the buffered ones while a flush is under way.

**Handshake.** Both directions (`type_MtS` and its ack, `type_StM` and its ack) are the same code, so an end `e` has one ping task
(`ping_pc[e]`), one handler (`handler[e]`), one id (`peer[e]`: `SLAVE_ID` above, `MASTER_ID`
below). `inbox[e]` is what is under way on the wire or in `h_queue_handshake`. The report
is two steps, as in the code: `snap` is copied from the ids, `reported` is what has been sent.
`Detach`, `Attach` and `LoseFrame` are the user and the wire. `kit` is what the user has at hand, chosen at the start from `Kits`: some
cubes, those of them (`own`) that do not lose power when unplugged, the one plugged at the start, and whether frames get lost. `disturbed` and `raced` are history variables: they say that
the link was touched since the last ping, and that both tasks of an end were reporting at once.

**ReportHandler.** A call of `receive_new_report` is a record `call[t]` with its program counter
and local variables, among them the stack of `remove_subtree_recursive`. One step is one scan of the table or one
write of shared data. The cubes are scenarios: `phases` is the reports to come, in any order
of their senders within a phase. In the code the table has `MAX_NODES` = 10 entries.

**Chain** composes what the modules of one cube or one link show, with frames as its grain. A send under the mutex, a round of a flush, the write of a frame and its
arrival are one step each: `UartSend` shows that the send path keeps every message, `UartReceive` that frames arrive whole or not
at all. The three tasks of the handshake run side by side in every cube, as `linker`: `Find` (it
heard a neighbour that is not the one known), `Adopt` (the write of the id), `Flush`, then the report in the three steps that `send_report_to_root` has, `Copy` of the ids,
`Test` of the master, `Post`; or `Lose`, which clears the id and, on the side of the slave, reports. Any two of them may be anywhere in this at once. `Lose` of a neighbour that is
there is an answer that was lost (`Handshake`). `out`, `servo_queue` and the root's `report_queue`, which `HandleReport` empties, are bounded by `QueueLen`, and a step that needs room in a
full one waits, with the frame still at the head of what it came from; so does `Post`, with the ids it has copied. `pre` is the pre-init buffers. `Detach` takes the power of all
cubes below, and with it everything they hold. `heard` is the neighbour that the root's table has for each cube. A command is carried out as one step
(`Execute`): the bridge is in `Console`, the motion in `ServoTask`. `sent`, `obeyed`, `lost`, `overtaken` and
`raced` are history variables; `raced` has the cubes that sent a report while another of their tasks had an older copy of the ids in its hand.

**SCurve** and **ServoTask.** `move_servo_speed` is `Move`, `DropOldest`, `Retry`; the FSM task is at `receive`, `plan`, `poll`, `tick`,
`final`, `pause` or `ack`. `motion` is its local position, speed, acceleration and phase; a `Tick` is the `switch` (`Switch`, one operator per
phase) and the new position (`Advance`). `StopDistance` is the loop of `decel_distance_sim`. Numbers are whole numbers of a unit of
length, with the step of that loop as the unit of time and fractions multiplied out, so that nothing is rounded but the last, quadratic term of
the distance. `acks` is the sequence of the numbers of the commands acknowledged. With
`OneCore` (the C3) the FSM task waits for a caller inside `move_servo_speed`, which has the higher priority; without it (the root, an S3) they interleave.

**UartReceive.** The neighbour sends bytes, `rx` is the driver's buffer, `buf` the frame read so far. A byte is a header, data or
a footer (four bytes in the code, one here). The task is at `search`, `rest`, `check` or `handover`.
Bytes the code cannot tell apart carry a tag for the properties: `h` is data that looks like a header, `s` the
header left in `buf[0]` by a frame that was given up, `f` the footer of a frame that lost bytes. Time-outs (1000 ms) happen between
frames only, as a frame takes about 15 ms.

**Console.** `rebuild` is the task inside `receive_new_report`, for an arm that has become one of `Arms` (how the list follows from the reports is
`ReportHandler`). A list of length 0 is the root between `init_wifi` and `init_report_handler`, which is `Start`. `server` is `tcp_server_task` with everything it calls: `accept`, `greet`, `greeting`, `recv`, then for a line `check`,
`reject` or `accept_line`, and in the bridge `bridge`, `copy`, `dispatch`. `client` is the main thread of the Python client, `receiving` its
receiver thread. A line is the number of servos it has values for and whether a value is faulty; an answer is its kind. `up` and `down` are the TCP
stream of a session, `over` that it was closed or broken, `lost` that it broke without a word to the root, which then stays in `recv` (it sets no time
limit and no keep-alive). In automatic mode a row of the sequence has four angles, which `build_payload` takes for the four values of the one servo if there
is one; no row passes the range check of the speed then, which is `Faulty`. `targets`, `rebuilt`, `answered`, `waiting`, `stale` and `typed` are
history variables.

## Runs

Every run that passes checks the whole reachable state space of its instance. Deadlock is checked where the system has a
periodic task and so may not stop; it is off where there is nothing left to do once the scenario (`ReportHandler`) or
the commands (`ServoTask`, `Chain`) have run out, and in `Console`, where the client may be gone for good.

| Run | Instance | Shows |
|---|---|---|
| `UartSend` (`UartSend_all.cfg`) | three tasks (ping, handler, application), one handshake and three plain messages, a queue of one | `MutexOK`, `NoneStranded`, `Delivery`, and that it implements `Outbox` (`OutboxSpec`) |
| `Handshake` | two cubes without power of their own or one with it, two troubles (a plugging, an unplugging or a lost frame each) | `OneOutstanding`, `DropsAreDue`, `RootUpToDate`, `Converges`, `Forgets` |
| `Chain` | arms of two to four cubes with a queue of one: three handshake tasks in each cube, up to two commands to any cubes, up to two troubles (a plugging, an unplugging or a lost answer each) | `CommandsInOrder`, `Obeys`, `RootKnows`, `Drains` |
| `UartReceive_frames` | frames of four bytes, a buffer of five, three lost bytes, one place where data may look like a header | `LossIsLocal`, `NoneDamaged`, `Recovers` |
| `ReportHandler_swap` | every arm of up to four cubes with any ids, built, or built and its end swapped at any place | `NoLoop`, `ChainOK`, `ArmKnown` |
| `ServoTask_moves` | a range of less than three of the longest steps with three targets, two profiles, a queue of two, four commands, two cores | `AckedOnce`, `Rests`, `NoGoingBack`, `Settles`, `TicksAreSmall` |
| `Console` (`Console_sessions.cfg`) | two sessions with two lines in all, up to two arms besides the root alone, one rebuilding, one lost session, at most two servos in a command, a servo queue of one, the list there or not yet | `OneAnswerEach`, `AckIsForStep`, `NumberKnown`, `SentToArm`, `Greeted` |
| `Handshake_flap`, `ReportHandler_dropped`, `ReportHandler_reversed`, `ReportHandler_overlap`, `ServoTask_recent` | | [disagreements](#disagreements) |

Every passing run also checks the module's `TypeOK`, which bounds the queues and the list.

**Bounds, and why they are enough.**
`UartSend`: a queue of one is full as soon as it holds anything, and four messages make it full while others are
buffered and one is in the transmitter's hand; two linkers are all the tasks that flush a direction. The proofs
below do without these bounds.
`Handshake`: the arm may start plugged together or not, so two troubles are enough to swap a cube, to unplug it and plug it again, or to lose a frame
and touch the link (a cube with power of its own is plugged again without a loss). More cubes add nothing to a link: only one is plugged at a time.
`UartReceive`: fewer bytes are lost than a frame has (the real frame is 169 bytes); the buffer is longer than a
frame, so that the receiver may fall behind into the next one.
`ReportHandler`: four cubes are enough for a sub-chain of two below a cube that is not the root.
`Chain`: a queue of one is full as soon as it holds anything, so receiving tasks do wait for each other. Two commands are what may be overtaken or arrive in the
wrong order, three cubes have one that forwards between two that do not, four have two. The kits share the commands and the troubles out: two of
both for two cubes, two of the one and one of the other for three, one trouble for two with a third to plug, and for four cubes one of both, or two troubles and only reports. In the kits
with more of them only two of the three tasks are the first to hear of a neighbour (`finders`); the ping tasks, or the two that may both find the slave, flush and report at once. With all three the kits are smaller.
`ServoTask`: four commands fill a queue of two with one command in hand and one that has to drop the oldest. The coarse numbers of `ServoTask_moves` were
searched for: all seven phases occur, motions are preempted in the middle by commands with other limits, and may then end short of their target. What the theorems say holds for
all limits. A tick is 20 ms (`Intervals`); the code measures it.
`Console`: two lines are an answer that may be taken for the next one's, and fill a queue of one; two sessions are one that keeps the next from being
served. The arm known at first may be any, so that one rebuilding makes it longer, shorter or another in order, and an arm of three has more
than the servos accepted.

**Fairness.** FreeRTOS runs a ready task of the highest priority, and every loop here waits
somewhere, so a task that can run does (weak fairness). `UartSend` assumes strong fairness of the steps that take the mutex: FreeRTOS hands
it to a waiting task, and the periodic tasks sleep 500 ms between calls. Nobody has to
send, to plug, to lose or to send commands. `Handshake` has weak fairness of each ping task and each handler; `UartReceive` of
a neighbour that keeps sending (its handshakes) and of the receiver's reads; `Console` of the root's tasks, not of the client, nor of a lost session's end; `ServoTask` of the FSM task and of a caller
inside `move_servo_speed`; `Chain` only that some task goes on as long as one can, which is less.

**What the properties say.**

* `NoneStranded`: if the neighbour is known and a message is buffered, or about to be, some task
  is going to flush. This is the race between the test of the id and its unlocked write, and it holds because
  every write of an id is followed by a flush that takes the mutex.
* `Delivery`: with the neighbour known for good, every message reaches the wire although the flush
  blocks with the mutex in its hand.
* `OneOutstanding`: as long as answers come in time, at most one ping or answer of an end is
  under way, and none outside the wait; so no answer is ever paired with the wrong ping.
* `DropsAreDue`: a neighbour is dropped only if, since the unanswered ping, the link was touched or a frame lost.
* `RootUpToDate`: unless both tasks of an end reported at once, its last report is its present state.
* `Converges`, `Forgets`: a cube left plugged is known on both sides for good, an unplugged one forgotten.
* `CommandsInOrder`: a cube carries commands out in the order they were sent. `Obeys`: the newest command for a cube that stays in the arm is the last one
  it carries out, unless it was lost with a cable or a cube's power. `RootKnows`: in the end the last report of every cube of the arm tells who is
  below it. All three leave out cubes one of whose frames was overtaken by another in the gap between the write of a neighbour's id and the end
  of the flush, and `RootKnows` also cubes of which two tasks reported at once, the one with the older copy of the ids last. TLC finds counterexamples without each of these exceptions,
  and to `Obeys` without that of lost commands.
* `Drains`: in the end no queue holds a frame, and no receiver waits. A frame that is left lies in a buffer at an end of the arm, for a cube
  that is not there, or is an acknowledgement of the root's own servo.
* `LossIsLocal`: without a loss no frame is missed and data is never taken for a header; a lost byte costs its own frame and at
  most one more for each byte, until data is mistaken for a header. `NoneDamaged`: what is handed on behind a true header is
  a frame that was sent (bytes may be lost, they are not altered). `Recovers`: frames get through again once data no longer looks like a header.
* `ChainOK`: between two reports the list is the longest chain of master links from the root;
  `ArmKnown`: once all have reported, it is the arm. `RemovalEnds`, that the recursion stays within the number of cubes, is what
  `ReportHandler_reversed` refutes.
* `NoGoingBack`: commands are carried out in the order they were sent, preempted and dropped ones left out. `Settles`: the
  servo ends where the newest command sent it, unless that command came between the last poll of a compensated motion and the command for its way back.
  `Rests`: a motion ends whatever speed it took over, compensation does not feed itself, and there was an acknowledgement. `AckedOnce`: no command is
  acknowledged twice, although the way back of one is a command with its number, and either may be preempted or dropped. `TicksAreSmall`: no tick moves the signal further than the
  speed limit of its command allows in an interval, and twice the deadzone, whatever speed and acceleration it took over. Nothing is claimed of the last signal of a
  motion, which is no tick's ([disagreements](#disagreements)).
* `OneAnswerEach`: a line without an answer is on its way, being checked, or its answer is on the way back. `AckIsForStep`: the sequence goes on only
  if the root accepted the very step it waits for, or the session is over. `NumberKnown`: with nothing on the way to it the client has the present
  number of servos, unless an old greeting came after the notification or the user typed one. `SentToArm`: the root gets the first values whatever
  happens; the other cubes get theirs, and all of them do, unless the list was being made or rebuilt. `Greeted`: a client is served in the
  end, unless a session before it was lost without a word.

## Proofs

Every invariant and every action property that a passing run checks is proved for all values of the constants; what has to happen in the end is left to TLC ([limits](#limits)). The assumptions are those the modules declare
(`...Assumption`: that constants are numbers, that "none" is no cube, and so on), and those in the last column.

| Module | Theorems, and the property each states | Besides |
|---|---|---|
| `UartSend_proofs` | `TypeCorrect`, `MutualExclusion` (`MutexOK`), `NothingStranded` (`NoneStranded`), `Refinement` (`OutboxSpec`) | |
| `Chain_proofs` | `TypeCorrect`, `InOrder` (`CommandsInOrder`) | |
| `Handshake_proofs` | `TypeCorrect`, `AnswersPaired` (`OneOutstanding`), `ReportsTrue` (`RootUpToDate`), `DropsInTime`, `DropsDue` (`DropsAreDue`) | `DropsDue`: `MaxLate = 0` |
| `ReportHandler_proofs` | `TypeCorrect`, `ChainIsListed` (`ChainOK`), `LoopsAvoided` (`NoLoop`), `FollowsTheArm`, `ArmIsKnown` (`ArmKnown`), `RunsAwayOnlyInLoops` | `MaxBusy = 1`; `FollowsTheArm` and `ArmIsKnown`: orderly scenarios |
| `ServoTask_proofs` | `TypeCorrect`, `AcknowledgedOnce` (`AckedOnce`), `NeverGoesBack` (`NoGoingBack`), `NoTickJumps` (`TicksAreSmall`) | |
| `UartReceive_proofs` | `TypeCorrect`, `LossStaysLocal` (`LossIsLocal`), `NothingDamaged` (`NoneDamaged`) | `NothingDamaged`: `MaxLost < FrameLen` |
| `Console_proofs` | `TypeCorrect`, `OneAnswer` (`OneAnswerEach`), `AckForStep` (`AckIsForStep`), `NumberIsKnown` (`NumberKnown`), `SentInOrder` (`SentToArm`) | |

Each module has a theorem `Invariance`, `Spec => []IInv`, from which the others follow. `IInv` is the conjunction of what the properties
need to be preserved; it holds initially, and each of its parts is preserved step by step, mostly one lemma for a part and one step of its proof
for an action. `TypeCorrect` is `Spec => []TypeOK` everywhere, and `TypeOK` has the bounds of queues and arrays in it.

**UartSend.** `IInv` is `TypeOK`, `MutexOK`, `HandOK` and `NoneStranded`. `NoneStranded` is not inductive by itself: a flush that leaves its loop must know that
nobody is about to push, which is what `MutexOK` says (a task past its test has the mutex, and the flush has just
taken it). `HandOK` says that a task has a message in hand exactly while it is inside a send or has popped one;
without it `SendPush` might append "no message" to the buffer, and the refinement mapping would be meaningless. `Refinement` maps the initial state to
the initial state and each step of `Next`, in a state with `IInv`, to a step of `Outbox` or to a stutter.

**Chain.** For any number of cubes, commands, pluggings and lost answers. The commands for a cube `c` may wait in three queues of every
cube above it and in its `servo_queue`. `Held(c)` is these queues with a rank that grows on the way down (`Rank`), and `InLine(c)`, the part of `IInv` for every cube that is not
in `overtaken`, says that together they are one queue: numbers rise within each, whatever is further down is older (`Ordered`), nothing for `c` is below
`c` (`NonePast`), and all of it is newer than the last command carried out (`Fresh`). An action that moves a frame takes it from the head of one of them and
puts it at the end of the next one down; that such a move keeps `InLine` is proved once, for any queues and ranks. What `Gone` adds is that a cube
outside the arm holds nothing, so that one plugged at the end brings no old command with it. `Types` says besides that commands only travel down.

**Handshake.** For any cubes, kits and troubles, and late answers too: the properties say themselves when they exclude them. `OneOutstanding` is inductive with types and `NearOK`
(a frame in an inbox comes from a cube that can be there). `DropsAreDue` needs a reason why a ping that nothing disturbed is
answered: `Undisturbed` says where the answer is at each place of the ping task, and `Told` that whoever is about to notify the ping task
has set its flag. `FreshReports` follows what a task copied until it has sent it: it is the present neighbour, or the other task is about to copy and send.

**ReportHandler.** With one call at a time, as `MaxBusy = 1` says; with two, `NoLoop` is false (`ReportHandler_overlap`). `ChainOK` and `NoLoop` hold for any reports,
loops and lies included: while `compute_ids_array` runs, the list is a chain of master links in which no cube comes twice and the local `used` is what it lists
(`Walked`), so the loop ends within `MAX_NODES`. `RunsAwayOnlyInLoops` holds for
any reports as well: each call on the stack of `remove_subtree_recursive` but the first is for a cube whose entry, still there, names the node of its caller as master (`Descended`), so a stack with more calls than
there are cubes has a node twice, and what lies between is a loop of master links in the table (`Looped`). That there is no such loop cannot be had from the code, as `ReportHandler_reversed` shows.
`ArmKnown` needs more, as the removal trusts the reports. `Orderly`, in `ReportHandler`, says
of a scenario that in each phase the arm gets longer, with all the new cubes reporting, or is cut, with its new end reporting, and that cubes report the truth about the arm that it
becomes. `MCReportHandler` has TLC evaluate that all scenarios of `ReportHandler_swap` are orderly, and no scenario of `ReportHandler_dropped` or `ReportHandler_reversed` is. `InOrder` then says what the table
is while the arm changes: the cubes of the old arm and those new ones that have reported (`Grown`), or those of the old arm that the removal, which comes down the old arm from the cut and takes cubes off
from the end, has not reached (`CutOff`). That the list ends at the end of the arm is an induction along the arm: a set of numbers has a least member (`Least`).

**ServoTask.** For any range, limits, deadzone, queue and number of commands, on one core or two. `IInv` is types, among them the bounds of speed and acceleration, `Once`
and `Ordered`. The bounds are not those of the command carried out, which may have taken over speed and acceleration from another: they are those of some command. `Ordered` orders the queue: a command is newer than
everything before it, than the one carried out, and than any way back in the queue, wherever that is. `Once` has `AckedOnce`, that no command acknowledged
is still in the queue or carried out, and that none is twice in these places. `NoTickJumps` is from the bounds in `TypeOK`: the new position is that of the speed clamped by `Advance`, the target, or the target sent early.

**UartReceive.** For any frame length, positions of header-like data, buffer and number of lost bytes. The invariant says that there are places `h` of the bytes in the driver's buffer, in their frames, which explain what they look like
(`Shows`), each the successor of the one before or, behind a loss, as many places further (`Follows`), up to the one sent next. `Paid` and `Framed` then only speak of the first of them, which is read next:
frames missed are at most the losses before it, one fewer as long as the receiver is not in step (`Paid`); and its place, counted from the header, tells how many bytes were lost since, if they are
fewer than a frame has (`Framed`). Without that, a frame could lose as many bytes as it has and end with the footer of the next.

**Console.** For any arms, sessions, lines and interruptions. `IInv` has one part for each property and what they rest on: `ListOK` (the list while it is written), `CommandOK` (what the
bridge has copied, as long as the list was not touched, is the list), `SessionOK` (nothing is under way to a client that is not there), `InStep` (while a sequence runs only the line of its
step has no answer, and an OK under way is for it), `OnlyAutoWaits`, and `Told`: the last number of servos under way to the client is the present one, and if none is, the client knows it. `OneAnswerEach`
and `InStep` count lines and answers; the lemmas about that are in `Counting`.

## Disagreements

Each has a run whose counterexample is the behaviour described; `PROJECT.json` quotes the lines.

* `Handshake_flap`: an answer that comes after its wait leaves a notification that ends the next wait at once, before that
  can be answered, and so on: after one late answer the link is dropped and taken up for ever.
* `ReportHandler_dropped`: a cube that misses one answer of its slave reports that it has none, and the root removes the whole sub-chain; the cubes
  below noticed nothing and never report again.
* `ReportHandler_reversed`: an arm 0-1-2 is plugged again as 0-2-1, and the root does not hear that 0 had no slave in between (its handler met the new one first, or the
  report was in a damaged frame). 1 reports that it is the end, before 2 reports (2 flushes its buffer first), when the entry of 2 still has the master 1 and the new one of 1 has the master 2. The removal follows these two links round and round, as it
  empties an entry only behind the recursive call for it, until the stack of the task overflows.
* `ReportHandler_overlap`: two tasks inside `receive_new_report` at once list a cube twice.
* `ServoTask_recent`: a command that comes too late to preempt a compensated motion is carried out before the way back of the older one.

Reading the code showed a few more, for which there is no run: the flush holds the mutex while it waits for the queue, which the comment at
`uart.cpp:276-278` forbids; a cube adopted during the wait for an answer of the one before is dropped with it, unlike `handle_handshake.cpp:64-69`
says, although a user would have to swap cubes within half a second; the report of a cube from before it knew its slave, if it arrives after that of its slave, has
the slave removed; and a sub-chain that is swapped without a report of the cube above that it has no slave leaves the old cubes' entries in the table, where they may be listed (`ArmKnown` is about scenarios in which it reports).

The last signal of a motion is the target of its command (`servo_task.cpp:237`), wherever the motion ended; nothing is claimed of it, and it may be a jump. A downward motion goes too far by the
backlash of 15 degrees, and that signal takes it back at once; the slow way back that is posted after it finds nothing to do, although the comments there speak of "corrections for numerical errors" (237) and of moving "back to the original target
position" (243). And a preempted motion may end short of its target. The next one takes over speed and signed acceleration, but begins with the first phase: while it decelerates, the distance to stop is
computed as if the acceleration were 0 (`servo_task.cpp:91-93`, `servo_motion.cpp:62-64`), and the deceleration then begins from where it is, too early. With limits that the protocol manager accepts (5.2 rad/s,
100 rad/s², 50 rad/s³, the same for both commands) this is a few tenths of a radian. A gentle command that preempts a fast motion, or one that accelerates, ends short too.

The exceptions in the properties of `Chain` are what the code does, too. A frame sent while a flush is about to begin goes out before the ones in the
buffer: a cube then carries an older command out after a newer one (`CommandsInOrder`, `Obeys`), and a stale report, buffered further up, overwrites
a fresher one at the root, which the comment at `handle_handshake.cpp:28-30` means to prevent (`RootKnows`). So does a report whose ids were copied before another task of the cube found the
slave and reported it, and which is sent after that, with nothing overtaken (`raced` in `RootKnows`, and in `RootUpToDate`). The root has a servo but no master, so the
acknowledgements of its motions, which the comment at `servo_task.cpp:15-18` says will be deleted by `task_send_uart`, stay in its buffer for
ever (`Drains`). Those of the other cubes name their own master, which deletes them although it is not the root, as the
message at `uart.cpp:68` notes; `send_servo_movement_ack_to_root`, which names the root, has no caller. Frames for cubes that have gone stay in the last cube of
the arm, and are passed on to one that is plugged there later (`Drains`).

In the console, the exceptions in the properties above are what the code does: a list rebuilt while the bridge reads it sends values to the wrong
cube, or to an id that was never written, and a command that comes before the list is made is answered OK and sent to nobody (`SentToArm`); a greeting put together before a change may arrive after its notification, and
a number typed at the prompt replaces one that arrived meanwhile (`NumberKnown`); the end of a session is taken for an answer (`AckIsForStep`);
a session lost without a word keeps every other client out (`Greeted`). `esp32_client.py:4` says it adapts to any number of servos: the root accepts five
at most (`protocol_manager.cpp:10`), and the automatic sequence cannot run with one, because each of its rows is refused.

## Limits

* Only model-checked, as the provers do not reach it: what has to happen in the end (`Delivery`, `Converges`, `Forgets`, `Obeys`, `RootKnows`, `Drains`, `Rests`, `Settles`, `Recovers`, `Greeted`), which rests on
  fairness. Only model-checked also: the report handler with calls that overlap.
* Recursion over data (the sub-tree removal) is modelled as steps with a stack, which is why theorems about it are about steps.
* `ReportHandler_swap` runs one call at a time, `ReportHandler_overlap` two. No scenario of `ReportHandler_swap` has a loop of master links, so what `used` is for is in the theorem `LoopsAvoided` only.
* Answers come in time in `Handshake`; `Handshake_flap` has one that does not.
* `Chain` starts with an arm that has settled, and every unplugged cube loses its power (those that keep it are in `Handshake`). The frames of the handshake are no frames in it: a task hears a
  neighbour when there is one, `h_queue_handshake` is not modelled, and the report queue, the servo queue and the send queues are. In TLC's larger kits only two of the three tasks find a neighbour; the theorems have
  all. The two tasks of a cube that read its UARTs share `h_queue_servo`, as in the code, but a full driver buffer, which
  loses bytes, is only in `UartReceive`. `heard` is the last report of each cube that `task_handle_report` took; what the root makes of it is `ReportHandler`.
* `UartReceive` loses bytes and alters none. An altered byte of the data would be noticed by nothing in the code; one of the header or the footer has the frame given up, like a lost one, but keeps the length.
* `SentToArm` says nothing of a command during which the list was made or rebuilt, `Greeted` nothing once a session was lost without a word, `DropsAreDue` takes a swap for a cause: what the code does then is in
  [disagreements](#disagreements), and no property would notice if it got worse.
* `SCurve` has exact arithmetic: the rounding of floats, NaN in a command, and the cut-off of the simulated distance after 20000 steps are not modelled.
  Commands have all three limits, so the defaults for those that are not positive are not used (the protocol manager refuses such values).
* The positions that the FSM sends are within the range that `set_servo_pos` checks; the duty cycle and the LEDC peripheral are not modelled.
* `Console` has one task that rebuilds the list (overlapping ones are `ReportHandler_overlap`) and sends that never block.
* Not modelled: drivers and registers (LEDC, WiFi access point); the LED tasks, which nothing depends on; the order in which the other tasks start, which use
  only what exists by then; formatting and printing; the command mock-ups, whose messages only a test that is switched off sends; the on-target tests and the old code.

## Plan

1. Done: send path with `Outbox` and its proofs, handshake of a link, frames through several cubes, report handler, servo with its S-curve, byte framing, console with
   the start of the root.
2. `Console`: a send that blocks, as the handshake handler of the root waits with it.
3. Done: proofs of the safety invariants and the action properties, as in the table above.
4. Proofs still to come: conservation of messages in `Outbox` (each is sent once) and from there in `UartSend`; the types and bounds of `ReportHandler` with calls that overlap; for `Chain`, that a command is only lost
   with a cube's power or a cable, and that the root hears nothing about a link that was not so once.
