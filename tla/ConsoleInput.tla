---------------------------- MODULE ConsoleInput ----------------------------
(***************************************************************************)
(* Where console bytes and keys come from: src/hal/hal_posix.c, and the    *)
(* queue of src/hal/hal_wasm.c, which is its embedded case.  Bytes pushed  *)
(* through the API, a script, a pipe and a terminal end in hal_con_in; a   *)
(* terminal is pumped by whoever looks first, hal_keys included, and also  *)
(* yields the key mask.  tos_seek takes back what was pushed and not read. *)
(*                                                                         *)
(* Abstracted: read errors and interrupted calls, reading in chunks, the   *)
(* local echo, the millisecond a prompt waits, and which of the eight key  *)
(* bits a byte sets, of which four stand for all.                          *)
(***************************************************************************)
EXTENDS Integers, Sequences, Subsequence

CONSTANTS
  Hosts,        \* where input comes from, see AllHosts
  PushCap,      \* HAL_PUSH_CAP, HAL_IN_CAP
  TtyCap,       \* HAL_TTY_CAP
  HoldMs,       \* HAL_KEY_HOLD_MS
  TimeMod,      \* 2^32: hal_time_ms() is a uint32_t
  Starts,       \* times at which the machine may be started
  MaxMs,        \* bound: milliseconds a behaviour lasts
  MaxTyped,     \* bound: keystrokes, or bytes of the pipe or the script
  MaxPushes,    \* bound: bytes pushed through the API
  HangsUp       \* the user may end a terminal's input

\* RAW and COOKED: a terminal.  EMBEDDED: no hal_init, or the web page.
AllHosts == {"RAW", "COOKED", "PIPE", "SCRIPT", "EMBEDDED"}

ASSUME ConsoleInputAssumption ==
  /\ Hosts \subseteq AllHosts /\ HangsUp \in BOOLEAN
  /\ PushCap \in Nat \ {0} /\ TtyCap \in Nat \ {0}
  /\ HoldMs \in Nat \ {0} /\ TimeMod \in Nat \ {0, 1} /\ Starts \subseteq 0..TimeMod - 1
  /\ MaxMs \in Nat /\ MaxTyped \in Nat /\ MaxPushes \in Nat

\* Bytes: two letters, of which w is also a key, and what escape sequences are made of.
Letters   == {"w", "x"}
CtrlD     == "^D"
Bytes     == Letters \cup {"ESC", "[", "A", "C", CtrlD}
EscapeSequences == {<<"ESC", "[", "A">>, <<"ESC", "[", "C">>}
Keys      == {"W", "UP", "ESC", "ANY"}

VARIABLES
  host,         \* g_inited, g_tty, g_raw_active, g_script_path
  hal,          \* the statics of the HAL and what waits on its file descriptor
  clock, elapsed,  \* hal_time_ms(), and the milliseconds since the start
  promised,     \* hal_con_in_ready() said 1 and nothing has been read since
  pushedTotal,  \* g_pushed_total of api.c
  pushes, typed,   \* bookkeeping: bytes pushed, keystrokes made
  \* history: the text given to the host, what was read of it, the end of input
  \* read, the time each key was last pressed, and whether a full queue lost text
  sent, got, sawEof, pressed, lost

inputVars == <<host, hal, clock, elapsed, promised, pushedTotal, pushes, typed,
               sent, got, sawEof, pressed, lost>>

Nothing == "NOTHING"
IsTty   == host \in {"RAW", "COOKED"}

(***************************************************************************)
(* Keys: a terminal has no key-up, so a key stays down for HoldMs.         *)
(***************************************************************************)
key_hit(h, key) ==
  LET sum   == (clock + HoldMs) % TimeMod
      until == IF sum = 0 THEN 1 ELSE sum
  IN  [h EXCEPT !.until[key] = until, !.until["ANY"] = until]

Later_unsigned(until, now) == until > now

\* (int32_t)(until - now) > 0
Later(until, now) == LET d == (until - now) % TimeMod IN d > 0 /\ d < TimeMod \div 2
KeysDown(h) == {key \in Keys : h.until[key] # 0 /\ Later(h.until[key], clock)}

(***************************************************************************)
(* The terminal                                                            *)
(***************************************************************************)
ttyq_push_one_over(h, ch) == IF Len(h.ttyq) > TtyCap THEN h ELSE [h EXCEPT !.ttyq = Append(@, ch)]

ttyq_push(h, ch) == IF Len(h.ttyq) >= TtyCap THEN h ELSE [h EXCEPT !.ttyq = Append(@, ch)]

classify_byte(h, ch) == ttyq_push(key_hit(h, IF ch = "w" THEN "W" ELSE "ANY"), ch)
bare_escape(h)       == key_hit(h, "ESC")

Plain(h, ch) ==
  IF ch = "ESC" THEN [h EXCEPT !.esc = 1]
  ELSE IF ch = CtrlD /\ host = "RAW" THEN [h EXCEPT !.eof = TRUE]
  ELSE classify_byte(h, ch)

\* The bytes that end a sequence; any other byte inside one is skipped.
Finals == {"A", "C", "["} \cup Letters
InSequence(h, ch) ==
  IF ch \notin Finals THEN h
  ELSE key_hit([h EXCEPT !.esc = 0], IF ch = "A" THEN "UP" ELSE "ANY")

pump_byte(h, ch) ==
  IF h.esc = 2 THEN InSequence(h, ch)
  ELSE IF h.esc = 0 THEN Plain(h, ch)
  ELSE IF ch = "[" THEN [h EXCEPT !.esc = 2]
  ELSE Plain(bare_escape([h EXCEPT !.esc = 0]), ch)

\* Read all there is; the end of a cooked terminal is read when there is nothing else.
tty_pump(h) ==
  LET read[n \in 0..Len(h.wire)] ==
        IF n = 0 THEN [h EXCEPT !.wire = << >>] ELSE pump_byte(read[n - 1], h.wire[n])
      ended == [h EXCEPT !.eof = @ \/ (h.closed /\ host = "COOKED")]
      done  == IF h.wire # << >> THEN read[Len(h.wire)] ELSE ended
  IN  IF ~IsTty \/ h.eof THEN h
      ELSE IF done.esc = 1 THEN bare_escape([done EXCEPT !.esc = 0]) ELSE done

(***************************************************************************)
(* hal_con_in_ready and hal_con_in, the sources in their order             *)
(***************************************************************************)
\* A pipe is read one byte ahead, and blocks until there is one or it ends.
pipe_fill_peek(h) ==
  IF h.peek # Nothing \/ h.eof THEN h
  ELSE IF h.wire = << >> THEN [h EXCEPT !.eof = TRUE]
  ELSE [h EXCEPT !.peek = Head(h.wire), !.wire = Tail(@)]
Blocks_never(h) == FALSE
Blocks(h) ==
  /\ host = "PIPE" /\ h.push = << >> /\ h.peek = Nothing /\ ~h.eof
  /\ h.wire = << >> /\ ~h.closed

\* Each call answers with the HAL after it and its result.
Answer(h, result) == [hal |-> h, result |-> result]
PushedByte(ch)    == [from |-> "PUSH", byte |-> ch]
HostByte(ch)      == [from |-> "HOST", byte |-> ch]
NoByte            == [from |-> "NOTHING", byte |-> Nothing]
EndOfInput        == [from |-> "EOF", byte |-> Nothing]

\* Trusts poll(): there are bytes, whatever they are.
hal_con_in_ready_polled(h) ==
  Answer(h, h.push # << >> \/ host = "SCRIPT" \/ h.peek # Nothing \/ h.eof
            \/ (host # "EMBEDDED" /\ h.wire # << >>))

hal_con_in_ready(h) ==
  LET seen == tty_pump(h)
  IN  IF h.push # << >> \/ host = "SCRIPT" THEN Answer(h, TRUE)
      ELSE IF host = "EMBEDDED" THEN Answer(h, FALSE)
      ELSE IF h.peek # Nothing \/ h.eof THEN Answer(h, TRUE)
      ELSE IF IsTty THEN Answer(seen, seen.ttyq # << >> \/ seen.eof)
      ELSE Answer(pipe_fill_peek(h), TRUE)

TakePeek(h) == Answer([h EXCEPT !.peek = Nothing], HostByte(h.peek))
TakeTty(h) ==
  IF h.ttyq # << >> THEN Answer([h EXCEPT !.ttyq = Tail(@)], HostByte(Head(h.ttyq)))
  ELSE Answer(h, IF h.eof THEN EndOfInput ELSE NoByte)
TakePipe(h) == IF h.peek # Nothing THEN TakePeek(h) ELSE Answer(h, EndOfInput)
TakeScript(h) ==
  IF h.wire = << >> THEN Answer(h, EndOfInput)
  ELSE Answer([h EXCEPT !.wire = Tail(@)], HostByte(Head(h.wire)))

hal_con_in(h) ==
  IF h.push # << >> THEN Answer([h EXCEPT !.push = Tail(@)], PushedByte(Head(h.push)))
  ELSE IF host = "SCRIPT" THEN TakeScript(h)
  ELSE IF host = "EMBEDDED" THEN Answer(h, NoByte)
  ELSE IF h.peek # Nothing THEN TakePeek(h)
  ELSE IF h.eof THEN Answer(h, EndOfInput)
  ELSE IF IsTty THEN TakeTty(tty_pump(h))
  ELSE TakePipe(pipe_fill_peek(h))

(***************************************************************************)
(* The user and the API                                                    *)
(***************************************************************************)
Initial(wire) ==
  [push |-> << >>, ttyq |-> << >>, peek |-> Nothing, eof |-> FALSE, esc |-> 0,
   until |-> [key \in Keys |-> 0], wire |-> wire, closed |-> FALSE]

\* What a keystroke sends, and what of it is text.
Strokes == {<<ch>> : ch \in Letters \cup {"ESC"}} \cup EscapeSequences
Letter(ch) == IF ch \in Letters THEN <<ch>> ELSE << >>
Text(bytes) == IF IsTty THEN FlattenSeq([i \in 1..Len(bytes) |-> Letter(bytes[i])]) ELSE bytes
\* Keystrokes of a terminal, bytes written to a pipe.  A sequence arrives as a whole: one that
\* the link to the user splits would end as text.
Type(stroke) ==
  /\ host \notin {"SCRIPT", "EMBEDDED"} /\ ~hal.closed /\ typed < MaxTyped
  /\ hal' = [hal EXCEPT !.wire = @ \o stroke]
  /\ sent' = sent \o Text(stroke)
  /\ typed' = typed + 1
  /\ UNCHANGED <<host, clock, elapsed, promised, pushedTotal, pushes, got, sawEof,
                 pressed, lost>>
Send ==
  \/ IsTty /\ \E stroke \in Strokes : Type(stroke)
  \/ ~IsTty /\ \E ch \in Letters : Type(<<ch>>)

\* The writer of a pipe closes it; the user types Ctrl-D.
Close ==
  /\ ~hal.closed
  /\ \/ host = "PIPE"
     \/ IsTty /\ HangsUp
  /\ hal' = [hal EXCEPT !.closed = TRUE,
                        !.wire = IF host = "RAW" THEN Append(@, CtrlD) ELSE @]
  /\ UNCHANGED <<host, clock, elapsed, promised, pushedTotal, pushes, typed, sent, got,
                 sawEof, pressed, lost>>

Elapse ==
  /\ IsTty /\ elapsed < MaxMs
  /\ clock' = (clock + 1) % TimeMod /\ elapsed' = elapsed + 1
  /\ UNCHANGED <<host, hal, promised, pushedTotal, pushes, typed, sent, got, sawEof,
                 pressed, lost>>

\* A pump happened: which keys were pressed and whether text was lost is history.
Pumped(before, after) ==
  /\ pressed' = [key \in Keys |->
                   IF IsTty /\ after.until[key] # before.until[key] THEN elapsed ELSE pressed[key]]
  /\ lost' = (lost \/ (/\ IsTty /\ after.wire # before.wire
                       /\ Len(before.ttyq) + Len(Text(before.wire)) > TtyCap))

\* kernel_step polls the keys at the start of every call.
PollKeys ==
  /\ LET h == tty_pump(hal) IN hal' = h /\ Pumped(hal, h)
  /\ UNCHANGED <<host, clock, elapsed, promised, pushedTotal, pushes, typed, sent, got, sawEof>>

Ready ==
  /\ ~Blocks(hal)
  /\ LET answer == hal_con_in_ready(hal)
     IN  /\ hal' = answer.hal /\ promised' = answer.result
         /\ Pumped(hal, answer.hal)
  /\ UNCHANGED <<host, clock, elapsed, pushedTotal, pushes, typed, sent, got, sawEof>>

Read ==
  /\ ~Blocks(hal)
  /\ LET answer == hal_con_in(hal)
     IN  /\ hal' = answer.hal
         /\ got' = IF answer.result.from \in {"PUSH", "HOST"} THEN Append(got, answer.result) ELSE got
         /\ sawEof' = (sawEof \/ answer.result.from = "EOF")
         /\ Pumped(hal, answer.hal)
  /\ promised' = FALSE
  /\ UNCHANGED <<host, clock, elapsed, pushedTotal, pushes, typed, sent>>

\* tos_con_push: the byte is counted whether the queue took it or not.
hal_con_push(h, ch) == IF Len(h.push) >= PushCap THEN h ELSE [h EXCEPT !.push = Append(@, ch)]
Push ==
  /\ pushes < MaxPushes
  /\ hal' = hal_con_push(hal, pushes + 1)
  /\ pushes' = pushes + 1 /\ pushedTotal' = pushedTotal + 1
  /\ UNCHANGED <<host, clock, elapsed, promised, typed, sent, got, sawEof, pressed, lost>>

\* api_drain_pushed, at the start of every seek and reset.  Of what a seek pushes again, each
\* byte is a new push here.
Drained(h, n) ==
  LET after[i \in 0..n] == IF i = 0 THEN h ELSE hal_con_in(after[i - 1]).hal
  IN  after[n]
Taken_all_pushed(h) == pushedTotal
Taken(h) == IF Len(h.push) > pushedTotal THEN pushedTotal ELSE Len(h.push)
Drain ==
  /\ hal' = Drained(hal, Taken(hal))
  /\ pushedTotal' = 0 /\ promised' = FALSE
  /\ UNCHANGED <<host, clock, elapsed, pushes, typed, sent, got, sawEof, pressed, lost>>

InputInit ==
  /\ host \in Hosts
  /\ \E script \in IF host = "SCRIPT" THEN [1..MaxTyped -> Letters] ELSE {<< >>} :
       hal = Initial(script) /\ sent = script
  /\ clock \in Starts /\ elapsed = 0
  /\ promised = FALSE /\ pushedTotal = 0 /\ pushes = 0 /\ typed = 0
  /\ got = << >> /\ sawEof = FALSE /\ lost = FALSE
  /\ pressed = [key \in Keys |-> -1]

InputNext ==
  Send \/ Close \/ Elapse \/ PollKeys \/ Ready \/ Read \/ Push \/ Drain

InputSpec == InputInit /\ [][InputNext]_inputVars

(***************************************************************************)
(* Properties                                                              *)
(***************************************************************************)
FromHost ==
  FlattenSeq([i \in 1..Len(got) |-> IF got[i].from = "HOST" THEN <<got[i].byte>> ELSE << >>])

\* Every variable has its type.
InputTypeOK ==
  /\ host \in Hosts /\ clock \in 0..TimeMod - 1 /\ elapsed \in 0..MaxMs
  /\ hal.push \in Seq(1..MaxPushes) /\ Len(hal.push) <= PushCap
  /\ hal.ttyq \in Seq(Letters) /\ Len(hal.ttyq) <= TtyCap
  /\ hal.peek \in Bytes \cup {Nothing} /\ hal.eof \in BOOLEAN /\ hal.esc \in 0..2
  /\ hal.until \in [Keys -> 0..TimeMod - 1] /\ hal.wire \in Seq(Bytes) /\ hal.closed \in BOOLEAN
  /\ promised \in BOOLEAN /\ pushedTotal \in 0..MaxPushes
  /\ pushes \in 0..MaxPushes /\ typed \in 0..MaxTyped
  /\ sent \in Seq(Bytes) /\ sawEof \in BOOLEAN /\ pressed \in [Keys -> -1..MaxMs] /\ lost \in BOOLEAN

Waiting == (IF hal.peek = Nothing THEN << >> ELSE <<hal.peek>>) \o hal.ttyq \o Text(hal.wire)

\* api.c:110: whoever pumps the terminal and however often the API pushes or takes back, the
\* text of a terminal, a pipe or a script is read in order, once, and without escape sequences;
\* nothing of it is lost unless the terminal's queue was full.
TextIntact ==
  LET text == FromHost \o Waiting
  IN  IF lost THEN IsPartOf(text, sent) ELSE text = sent

\* hal.h:19: when hal_con_in_ready() has said 1, hal_con_in() has a byte or the end of input,
\* so a parked call that the kernel dispatches is not parked again.
ReadyTrue == promised => hal_con_in(hal).result.from # "NOTHING"

\* docs/languages.md:62: a machine that has reached the end of console input has read all of it
\* that its queue had room for.
EofLast == sawEof /\ ~lost => FromHost = sent

\* hal_posix.c:577, 610: for a script and a pipe, the byte read ahead included, that is so.
FileEofLast == ~IsTty => EofLast

\* docs/architecture.md:218: a key is down for HoldMs after it was pressed, and then is up,
\* whatever the clock does meanwhile.
Since(key) == elapsed - pressed[key]
KeysHeld ==
  \A key \in Keys : /\ key \in KeysDown(hal) => pressed[key] # -1 /\ Since(key) <= HoldMs
                    /\ pressed[key] # -1 /\ Since(key) < HoldMs => key \in KeysDown(hal)
=============================================================================
