# TLA+ models of espp's RTSP session, RangeMapper and LineInput

This directory holds TLA+ specifications of parts of the espp components
under `src/`. TLC model-checks them on small instances. For every value of the
constants, TLAPS proves the main safety invariants of the RTSP session, of
RangeMapper and of LineInput.
`PROJECT.json` lists:
- every component;
- every run and what it checks;
- the mutants that show each checked property can fail;
- the source lines each definition models;
- the findings and hazards;
- the theorems.

## The system

| Component | Source | Status |
|---|---|---|
| RTSP session | `src/components/rtsp/include/rtsp_session.hpp` | modelled (data abstracted) |
| RangeMapper | `src/components/math/include/range_mapper.hpp` | modelled (`int` instance) |
| LineInput | `src/components/cli/include/line_input.hpp` | modelled (terminal output abstracted) |
| Display | `src/components/display/include/display.hpp` | not modelled |
| Display drivers | `src/components/display_drivers/include/display_drivers.hpp` | not modelled (GPIO I/O only) |
| Timer example | `src/components/timer/example/main/timer_example.cpp` | not modelled (example app) |

### RTSP session: parts and how they interact

An `RtspSession` serves one RTSP client over a TCP control socket. Several
actors share it.

* **The control task** (`control_task_fn`, 356-388) is a FreeRTOS task
  looping on one function. Each iteration does four things in order:
  1. it returns (stops) if `closed_`;
  2. it tears down and stops if the socket is gone or disconnected;
  3. it blocks in `receive`;
  4. it hands the bytes to `handle_rtsp_request`.

  The handlers answer through `send_response` and change the session:
  - PLAY sets `session_active_`;
  - PAUSE clears it;
  - TEARDOWN sets `closed_`;
  - SETUP stores the client's RTP/RTCP ports.
* **The owner** (the RTSP server, not under `src/`) calls `play()`,
  `pause()` and `teardown()`, and destroys the session. `~RtspSession` calls
  `teardown()` and then stops the control task, which joins its thread.
* **Media producers** (the server's streaming code) call `is_active()`. If
  it is true, they call `send_rtp_packet` / `send_rtcp_packet`, which send to
  `client_rtp_port_` / `client_rtcp_port_`.
* **The peer** is the RTSP client on the other end of the socket. It sends a
  request, waits for the reply, and may disconnect at any time.

`closed_` and `session_active_` are plain `bool`s shared by these threads
without a lock. The ports are never initialised before the first SETUP.

### RangeMapper

A `RangeMapper<T>` holds a config:
- the input center, deadband, minimum and maximum;
- an optional inversion;
- the output center and range.

`configure()` stores it and precomputes two divisors. `map(v)` clamps `v`,
measures it against the center (or, inverted, against an end), returns the
output center inside the deadband, and otherwise scales by one of the two
divisors. `IntRangeMapper` instantiates it with `int`, so both divisions
truncate.

### LineInput

`LineInput` keeps a history, a `std::deque<std::string>` with the newest
entry in front. `history_size_` limits it, and 0 means no limit.

* `set_history_size` and `set_history` replace the limit or the history.
  Each cuts the history to the limit, keeping the newest entries.
* `get_user_input` puts an empty line at the front and drops the oldest
  entry when over the limit. It then edits that front entry in place, one
  `is.get()` at a time, until Enter.
* The keys move a cursor, recall older or newer entries into the line,
  kill to the end, erase or insert.

## Modules

| Module | Models |
|---|---|
| `RtspSession` | the session, its control task, the owner, the producers, the peer and the TCP streams between them |
| `MC_RtspSession` | TLC instance: two ports, one producer, a request set covering every request kind |
| `RtspSession_proofs` | TLAPS proofs of type correctness, lifecycle order and port agreement |
| `RangeMapper` | `RangeMapper<int>`: constructor, `configure`, `map` |
| `MC_RangeMapper` | TLC instance: input ranges 0..10 and -10..10, 60 configs, inputs -11..11 |
| `RangeMapper_proofs` | TLAPS proofs of `TypeOK`, `MapMonotone` and `MapSignAgrees`, and lemmas on truncating division and `clamp` |
| `LineInput` | `LineInput`: `set_history_size`, `set_history`, and each key of `get_user_input` |
| `MC_LineInput` | TLC instance: two letters, lines of up to 2 chars, history sizes 0..2 |
| `LineInput_proofs` | TLAPS proofs of `TypeOK` and `HistoryBounded`, and lemmas on the string operations |

### RtspSession: state and actions against the code

State:

| Variables | Model |
|---|---|
| `closed`, `session_active`, `client_rtp_port`, `client_rtcp_port` | the members at lines 494-502; the ports start as `Uninit` (they are never initialised) |
| `connected` | `control_socket_->is_connected()` |
| `readerPc` | where the control task is: `top` (the checks at 357-373), `recv` (blocked in `receive`, 377), `exited` (returned true) |
| `ownerPc` | `live`, `joining` (in `~RtspSession`, after `teardown()`, waiting for `Task::stop`), `destroyed` |
| `producerPc`, `media` | each producer between its `is_active()` check and its send, and the set of ports media was sent to |
| `crashed` | an exception escaped the control task (`std::stoi`) and the firmware aborted |
| `toServer`, `toClient`, `peerGone`, `pending`, `peerPorts`, `sentCount` | the TCP streams, a disconnected peer, the request the peer waits on, the ports the last SETUP reply told the peer, and a bound on requests |

A request is a record holding:
- the method, including an unknown method, a request line without spaces
  or `\r`, and `TRUNCATED`: a receive that ends with the `\r` of the
  request line (TCP keeps no message boundaries), where
  `substr(end_of_line_index + 2)` (331) throws `std::out_of_range`;
- the kind of its CSeq: numeric, absent, or text `std::stoi` rejects;
- the kind of its Transport header: UDP, TCP, absent, ports `std::stoi`
  rejects, or `garbage`, a header without `client_port=`, where the `npos`
  arithmetic of 470-473 ends in a throwing `substr` or `stoi`;
- the client ports.

A reply is its status code and the ports it echoes. The character-level
`find`/`substr` parsing, the SDP body and the header wording are abstracted
to these kinds.

Actions:

| Action | Code |
|---|---|
| `ReaderCheck` | the three early returns of `control_task_fn`, with the `teardown()` the disconnect paths call |
| `ReaderReceive` | `receive` returning a request, and the whole of `handle_rtsp_request` on it: the dispatch, the per-method handlers, `parse_rtsp_command_sequence`, `parse_rtsp_setup_request`, the port assignment and `send_response` |
| `ReaderReceiveFail` | `receive` failing once the peer has closed; the socket is then not connected |
| `OwnerPlay`, `OwnerPause`, `OwnerTeardown` | the public `play()`, `pause()`, `teardown()` called by the owner, enabled by the constant `OwnerOps` |
| `DestroyBegin`, `DestroyJoin` | `~RtspSession`: `teardown()`, then `control_task_->stop()`, which returns once the task function has returned |
| `ProducerCheck`, `send_rtp_packet`, `send_rtcp_packet` | a producer's `is_active()` check and its later send |
| `PeerSend`, `PeerReceive`, `PeerDisconnect` | the client, modelled from the RTSP protocol (it waits for each reply) |

A destroyed session and aborted firmware take no further step. The cfgs
therefore say `CHECK_DEADLOCK FALSE`; the liveness properties below are what
catch a session that hangs.

### RangeMapper: state and actions against the code

`mapper` is a record with the members of lines 125-136. `configure(c)` is
the record `configure()` (58-71) assigns. `Quot` is C++ integer division,
truncating toward zero. `map(m, v)` is `map()` (105-123), split into:
- `Calibrated`: clamp and measure;
- `InDeadband`;
- `Divisor`.

The actions are `Init` (the constructor), `Configure(c)` and `Map(v)`.
`last` records the last result. `crashed` records a division by zero, which
traps on the ESP32.

The constants have two assumptions:
- `configure()`'s `assert(output_range != 0)`;
- `std::clamp`'s precondition `minimum <= maximum`.

### LineInput: state and actions against the code

The variables are:
* `history`: `input_history_`, front first.
* `history_size`: `history_size_`.
* `reading`: a call of `get_user_input` is running.
* `col`: the cursor, as `pos_x - start_pos_x`.
* `input_index`: the local of the same name.
* `eof`: the stream has ended.
* `ub`: an insert or erase past the end of the string happened.

`input` is `history[1]`, as the code's `input` is a reference to the front.

The actions are:
* `set_history_size(n)` (64-68) and `set_history(h)` (82-86).
* `Begin`: the setup of `get_user_input` (119-136).
* `HistoryOlder` and `HistoryNewer` (Up/Down at 154-165, Ctrl+P/Ctrl+N at
  200-207). Each copies an entry into the line and leaves the cursor where
  it was.
* `CursorForward`, `CursorBack`, `CursorHome` and `CursorEnd`.
* `KillToEnd`: `resize`, which pads with NUL when the cursor is past the end.
* `Backspace` and `Insert`. Each sets `ub` when its position is past the
  end, where `std::string` leaves the behaviour undefined.
* `Enter`.
* `StreamEnds`, and `ReadEOF`: `is.get()` returning EOF, which the code
  inserts like any other char.

Ctrl+L, the redraws, resize handling and ignored escape sequences write only
to the terminal, so they are left out.

## Runs

| Run | Expect | Checks |
|---|---|---|
| `session` | pass | `TypeOK`, `LifecycleOrder`, `PortAgreement`, `AnswerableRequestAnswered`, `DisconnectClosesSession` |
| `play_before_setup` | violation | `NoMediaToUnsetPort` |
| `play_after_teardown` | violation | `ClosedSessionInactive` |
| `destroy_blocks` | violation | `DestroyCompletes` |
| `setup_unanswered` | violation | `EveryRequestAnswered` |
| `stoi_aborts` | violation | `NeverAborts` |
| `range_mapper` | pass | `TypeOK`, `MapMonotone`, `MapSignAgrees` |
| `int_output_overshoots` | violation | `OutputInRange` |
| `int_divides_by_zero` | violation | `NoDivisionByZero` |
| `line_input` | pass | `TypeOK`, `HistoryBounded` |
| `line_edit_past_end` | violation | `NoEditPastEnd` |
| `line_eof_loops` | violation | `EndedStreamReturns` |

What the passing properties say:

* **`LifecycleOrder`.** The control task exits only from a closed session,
  which is how the server knows it may reap the session. The destructor
  returns only after the task (which uses `this`) has ended.
* **`PortAgreement`.** While the peer is connected and has read every
  reply, the ports the session sends media to are those its last SETUP reply
  gave the peer. A SETUP that stored ports before it could fail would break
  this.
* **`AnswerableRequestAnswered`** (liveness). Every request the code can
  parse is eventually answered, unless the session closes or the peer leaves.
* **`DisconnectClosesSession`** (liveness). Once the peer disconnects, the
  session ends up closed with its control task stopped.
* **`MapMonotone`, `MapSignAgrees`.** For a non-inverted config whose center
  lies in its input range and whose divisors did not truncate to zero,
  `map()` is monotone and keeps every input on its side of the output center.
  Neither the truncation nor the deadband breaks this.
* **`HistoryBounded`.** Whenever a size limit is set, the history is within
  it, under any interleaving of `set_history_size`, `set_history` and calls.

Each violation run checks one thing the code, its comments or the RTSP
protocol promise. TLC finds it broken; the counterexample is recorded as a
finding in `PROJECT.json`:

1. **PLAY before SETUP.** A PLAY is accepted before any SETUP, and a
   producer then sends to the uninitialised port members.
2. **PLAY after teardown.** A request received after the owner's
   `teardown()` is still handled, because `closed_` is checked only before
   the blocking receive. A PLAY then reactivates a closed session.
3. **Destructor hangs.** The destructor hangs while the peer is connected
   and idle: the task it joins is blocked in `receive`.
4. **Unanswered SETUP.** A SETUP whose Transport header is missing gets no
   reply at all, so the client waits forever.
5. **A malformed request aborts.** spec.md answers a malformed request
   with 400. In the code, a request cut right after the `\r` of its
   request line makes `substr` (331) throw `std::out_of_range`. Nothing
   catches it, so the firmware aborts; that is TLC's trace. `std::stoi`
   on a non-numeric CSeq (415) or client port (484-485) leads to the same
   abort.
6. **`IntRangeMapper` overshoots.** The truncated divisors make it return
   values outside `[output_min, output_max]`.
7. **`IntRangeMapper` divides by zero.** An output range wider than half
   the input range makes a divisor zero.
8. **Cursor past the end after recall.** Recalling a shorter history entry
   leaves `pos_x` past the end of the line. The next char or Backspace
   inserts or erases outside the string, which is undefined behaviour.
   Ctrl+K there pads the line with NULs.
9. **`get_user_input` never returns at end of stream.** `is.get()` returns
   EOF forever, and EOF is inserted as a char.

Every property of a passing run is paired with a mutant in `PROJECT.json`.
The mutant is a plausible bug in the modelled code:
- a SETUP reply built from the members before the parsed ports are saved;
- ports stored before the CSeq is parsed;
- a forgotten `teardown()`, a dropped 400 reply, a socket never marked
  disconnected;
- a deadband that returns 0, a missing `std::abs`, divisors not recomputed;
- a history never cut to a smaller size, a Right arrow not held at the end
  of the line.

TLC finds the property violated under the run's own configuration.

### Bounds

* **RTSP.** The bounds are two ports, one producer and up to three requests
  (two in the violation runs). The request set covers every method × CSeq
  kind and every Transport kind, with all port pairs for UDP SETUP.
  - Two ports are enough to tell an old SETUP from a new one.
  - One producer is enough to interleave the check-then-send with every
    control-task and owner step.
  - Three requests allow SETUP, PLAY and TEARDOWN in one run, or two SETUPs
    and a PLAY.

  The main run reaches 394,876 distinct states in about half a minute.
* **RangeMapper.** The input ranges are 0..10 and, for an inverted mapper,
  -10..10. The inputs are -11..11, so every input and both clamps are
  reached for both. The 0..10 configs combine:
  - two centers off the middle;
  - deadbands 0 and 2;
  - both directions;
  - output centers 0 and 5;
  - output ranges -2, 1 and 3, which divide the half-ranges unevenly.

  The overshoot appears at output range 3; a zero divisor needs output
  range 5. The -10..10 configs are inverted with center 0, the case the
  class comment describes, with both deadbands, output centers and the
  three output ranges.

* **LineInput.** The bounds are:
  - two letters;
  - lines of at most 2 chars;
  - history sizes 0, 1 and 2;
  - at most 3 entries while the size is unlimited;
  - two histories for `set_history`: the empty one, and one of three entries
    of lengths 2, 1 and 0.

  A line of 2 recalled over a line of 0 is the smallest case that puts the
  cursor past the end. Three entries are more than the limits 1 and 2, so
  both cuts happen. The run reaches 230,708 distinct states.

### Fairness

`Fairness` is weak fairness on three actions:
* **`Reader`.** The control task is a FreeRTOS task that runs whenever it is
  not blocked.
* **`PeerReceive`.** A client waiting for a reply reads it.
* **`DestroyJoin`.** `Task::stop` returns once the task function has
  returned.

Nothing forces the peer to send, the producers to run, the owner to act or
the peer to disconnect. The liveness properties therefore hold for clients
that stay idle too. The owner and producers are not assumed fair because the
code never relies on them progressing.

In `LineInput`, `ReadEOF` is weakly fair. The key loop never blocks or
sleeps once the stream has ended, so the next `is.get()` always happens.

## Proofs

`RtspSession_proofs` proves, for every value of the constants allowed by the
`ASSUME`s of `RtspSession`:

* **`TypeCorrect`:** `Spec => []TypeOK`. It rests on the lemmas:
  - `SendResponseType`, `InvalidRequestType` and `HandlerTypes`: the types
    every handler path leaves, and that no handler reopens a closed session;
  - `TypeInit` and `TypeStep`.
* **`LifecycleOrdered`:** `Spec => []LifecycleOrder`. The inductive
  invariant is `TypeOK /\ LifecycleOrder`. The step needs the handler lemma's
  `closed => closed'`, because `ReaderReceive` may run on a closed session.
* **`PortsAgree`:** `Spec => []PortAgreement`. `PortAgreement` is not
  inductive on its own: a reply in flight carries ports the peer has not yet
  seen. The strengthening `IInvPorts` adds two facts:
  - **`OneInFlight`:** the two streams hold at most one message between
    them, and none while the peer waits on nothing.
  - **`PortsTracked`:** while the peer is connected, the session's ports
    equal the ports of the reply in flight if it carries any, and otherwise
    the peer's.

  TLC checked `IInvPorts` as an invariant of the main run before it was
  proved. Its step uses four lemmas:
  - `HandlerPorts`: with no reply in flight and the peer connected, a
    handler sends at most one reply, and changes the ports only in a reply
    that echoes them;
  - `HandlerSilentWhenGone`: once the peer is gone, a handler leaves the
    reply stream alone;
  - `OneMessage`: two sequences with at most one element between them;
  - `PortsFrame`: steps that touch none of this.
`RangeMapper_proofs` proves, for every set of configurations and inputs
allowed by the `ASSUME`s of `RangeMapper`:
* **`TypeCorrect`:** `Spec => []TypeOK`. `configure()` leaves a mapper
  `Configured`: its fields are integers, the output range is positive, and
  the divisors equal their `Quot` definitions. `MapType` then gives an
  integer result for every input.
* **`Monotone`:** `Spec => []MapMonotone`.
* **`SignAgrees`:** `Spec => []MapSignAgrees`.

No strengthening is needed. Each property is about the current mapper
alone, so it follows from `TypeOK` and a lemma about one `Configured`
mapper (`MapMono`, `MapSign`). The lemmas rest on
two kinds of arithmetic fact:
- on `Quot`, C++ truncating division: `QuotType`, `QuotSign`, `QuotZero`,
  and `QuotMono`, which is monotone in the dividend for a positive divisor;
- on `clamp`: `ClampRange` and `ClampMono`.

`MapUnfold` turns `map` into its three branches: the deadband, the
positive divisor and the negative one.

`LineInput_proofs` proves, for every value of the constants allowed by the
`ASSUME`s of `LineInput`:
* **`LineTypeCorrect`:** `Spec => []TypeOK`.
* **`HistoryLimit`:** `Spec => []HistoryBounded`.

Both follow from one inductive invariant, `IInv`. It is `TypeOK /\
Editing /\ HistoryBounded`, where `Editing` says
that while a line is edited, the history is non-empty and `input_index` is
one of its positions. `TypeOK` alone is not inductive, because two things
need `Editing`:
- `input` is `history[1]`, so editing needs a non-empty history;
- a recall reads `history[input_index + 1]`.

TLC checked `IInv` on the `line_input` instance before it was proved. The
step has one lemma per kind of key (`BeginStep`, `RecallStep`,
`CursorKeysStep`, `KillToEndStep`, `BackspaceStep`, `InsertStep`,
`HistoryCallStep`). These rest on lemmas about the string operations:
- `InsertAtProps`, `RemoveAtProps` and `ResizeProps` give the length after
  `insert`, `erase` and `resize`;
- `TruncatedProps` does the same for the deque cut;
- `ExceptFront` shows that writing the front of the history keeps its
  length.

The edit past the end of the string is modelled by the `ub` flag. The proof
covers it too: such an edit leaves the history and the cursor alone.

What stays with TLC:
* **Liveness.** `AnswerableRequestAnswered`, `DisconnectClosesSession` and
  the liveness violations are only model-checked: TLAPS does not handle
  liveness under fairness or `ENABLED`.
* **`NoEditPastEnd`, `EndedStreamReturns`, `OutputInRange`,
  `NoDivisionByZero`.** These are violated, so there is nothing to prove.

## Not modelled, and why

* **`RangeMapper<float>`.** TLC has no floating point. The float instance
  has neither the truncation nor the trap, so only the inverted-mode hazard
  applies to it.
* **Character-level request parsing.** Requests are abstracted to kinds.
  The two parse failures that throw are kinds of their own, and
  `NeverAborts` covers them:
  - a request cut after the `\r` of its request line (331);
  - a Transport header without `client_port=` (470-473).

  The `find`/`substr` arithmetic that leads to them is not modelled
  character by character.
* **Several requests in one `receive`.** The modelled client waits for each
  reply, as RTSP clients do. A pipelining client whose requests coalesce in
  one buffer (of which only the first is handled) is not modelled yet.
* **The data race on `closed_` / `session_active_`.** Each access is
  modelled as atomic, which is what an aligned `bool` load or store compiles
  to on the ESP32 targets.
* **Display.** The update task only waits on a condition variable.
  `pause()` and `resume()` take and give `bsp_display_lock`, and the render
  loop is LVGL's. Both belong to the board support package, which is not in
  this repository. The component's own state is `paused_`, which is written
  and never read. A deadlock on the display lock would need a second lock
  holder, which only the board support package could be.
* **`display_drivers.hpp`.** It writes GPIO configuration only.
* **`timer_example.cpp`.** It only logs from `espp::Timer` callbacks, whose
  implementation is outside `src/`.
* **The class comment of `RangeMapper`.** No passing property states it,
  because the code does not meet it at two places:
  - The comment promises closed deadband windows such as
    `[center-deadband, center+deadband]`. `map()` tests `abs(calibrated) <
    deadband_` (118). TLC finds the input 2 of a mapper on 0..10 with
    center 4, deadband 2 and output range 2 mapped to -1, not to the output
    center.
  - With `invert_input`, `map()` compares the clamped input with 0, not with
    the center (110). An inverted mapper whose range is not centered at 0
    has its discontinuity at 0, not at its center.

  Both are recorded with the hazard at line 110 and are not kept as runs.
* **An abstract lifecycle for the session.** The lifecycle the code meets
  accepts every change of `closed_` and `session_active_`, so a refinement
  to it would add nothing to `LifecycleOrder`. A stricter lifecycle, in
  which a closed session stays inactive, is what the `play_after_teardown`
  run shows the code breaks.
* **`session_id_` / `esp_random`.** No property tells session ids apart.

## Plan for later sittings

1. **RTSP request parser.** Model requests as short sequences over an
   abstract alphabet (space, `\r`, `\n`, `-`, digits, header names), with
   `find`/`substr`/`npos` semantics and exceptions. Show the parse kinds
   used by `RtspSession` are what the parser returns.
2. **A pipelining peer** for the coalesced-receive hazard.
3. **Liveness of LineInput** under a stream that does not end: every call
   returns once Enter is typed.
