------------------------------- MODULE IoTable -------------------------------
(***************************************************************************)
(* The table-driven IO driver of platforms/common/duta_io_arduino.h: the   *)
(* active table of outputs, the latches it keeps for every row, what it    *)
(* writes to the pins, and runtime provisioning, by which a host stores    *)
(* another table that the next boot loads (PROTOCOL.md, "Provisioning").   *)
(*                                                                         *)
(* A row is [type, pin, low, name]: `low' is the active-low flag and       *)
(* `name' the length of the row's name.  "cut" is the type of a row whose  *)
(* bytes run past the end of the request.                                  *)
(***************************************************************************)
EXTENDS Integers, Sequences, SequencesExt

CONSTANTS
  Pins,       \* the pins of the mcu table
  Caps,       \* duta_mcu_pins[].caps: what each pin can be
  Offered,    \* pins broken out, not forbidden and not USE_FIXED
  RgbPin,     \* DUTA_RGB_PIN
  Compiled,   \* duta_outputs[], the board's own table
  MaxRows,    \* DUTA_MAX_OUTPUTS
  Pool,       \* DUTA_NAME_POOL
  PwmMax,     \* DUTA_PWM_MAX
  Channels,   \* LEDC channels of the ESP-IDF build
  Tables,     \* tables that hosts write with CONFIG_SET
  Duties,     \* duties that hosts set
  Resolutions,  \* PWM resolutions that hosts set
  Colors,     \* colours of the pixels, 0 for dark
  White,      \* the colour of a plain "on"
  MaxIoCmds   \* bound: commands

Kinds == {"io", "pwm", "rgb"}
Table(R) == Seq([type : R, pin : Pins, low : BOOLEAN, name : Nat])

ASSUME TableAssumption ==
  /\ Caps \in [Pins -> SUBSET Kinds] /\ Offered \subseteq Pins /\ RgbPin \in Pins
  /\ MaxRows \in Nat /\ Pool \in Nat /\ PwmMax \in Nat \ {0}
  /\ Channels \in Nat /\ MaxIoCmds \in Nat
  /\ Compiled \in Table(Kinds) /\ Len(Compiled) <= MaxRows
  /\ \A t \in Tables : t \in Table(Kinds \union {"cut"})
  /\ Duties \subseteq 0..PwmMax /\ Resolutions \subseteq 1..16
  /\ Colors \subseteq Nat /\ White \in Colors \ {0}

\* duta_board_io.h: the rows of the compiled table are the status LED and the pixels
\* at DUTA_RGB_PIN; a pin has one role in it.
ASSUME BoardAssumption ==
  \A i, j \in 1..Len(Compiled) :
    /\ Compiled[i].type = "rgb" => Compiled[i].pin = RgbPin
    /\ Compiled[i].pin = Compiled[j].pin => Compiled[i].type = Compiled[j].type

VARIABLES
  tbl,       \* duta_tbl[0 .. duta_tbl_n)
  store,     \* the table in NVS, <<>> in a tuple of its own when there is none
  res,       \* duta_pwm_res
  io,        \* the latches and the pins, see Board
  status,    \* the answer to the last command
  ioCmds,    \* commands so far
  last,      \* history: the last command
  promised,  \* history: the table that the next boot was said to bring
  wiped      \* history: a store_clear failed silently since

ioVars == <<tbl, store, res, io, status, ioCmds, last, promised, wiped>>

\* duty: duta_duty; on: duta_on; pin: the level, the hardware duty or the colour
\* at each pin; ledc: the pins that have a PWM channel.
Board == [duty : [1..MaxRows -> 0..PwmMax], on : [1..MaxRows -> {0, 1}],
          pin : [Pins -> Nat], ledc : SUBSET Pins]

NoTable == <<>>            \* nothing is stored
Stored(t) == <<t>>

-----------------------------------------------------------------------------
(* Writing to the pins                                                     *)

Top(r) == 2^r - 1

\* duta__write_digital
Level(row, v) == IF row.low THEN 1 - v ELSE v

\* duta__write_pwm: the duty on the wire, rescaled to the hardware's range.
Scaled(row, d, r) == LET v == (d * Top(r)) \div PwmMax
                     IN  IF row.low THEN Top(r) - v ELSE v

WriteDigital(b, row, v) == [b EXCEPT !.pin[row.pin] = Level(row, v)]

WritePwm(b, row, d, r) == IF row.pin \in b.ledc
                          THEN [b EXCEPT !.pin[row.pin] = Scaled(row, d, r)] ELSE b

\* Mutant: "on" is one hardware step instead of the full duty.
OutSetOne(b, t, i, v, r) ==
  LET row == t[i] IN
  CASE row.type = "pwm" -> WritePwm([b EXCEPT !.duty[i] = v, !.on[i] = v], row, v, r)
    [] row.type = "rgb" -> [b EXCEPT !.pin[RgbPin] = IF v = 1 THEN White ELSE 0]
    [] OTHER            -> WriteDigital([b EXCEPT !.on[i] = v], row, v)

\* duta_io_out_set
IoOutSet(b, t, i, v, r) ==
  LET row == t[i]  rail == IF v = 1 THEN PwmMax ELSE 0 IN
  CASE row.type = "pwm" -> WritePwm([b EXCEPT !.duty[i] = rail, !.on[i] = v],
                                    row, rail, r)
    [] row.type = "rgb" -> [b EXCEPT !.pin[RgbPin] = IF v = 1 THEN White ELSE 0]
    [] OTHER            -> WriteDigital([b EXCEPT !.on[i] = v], row, v)

\* duta_io_out_get
OutGet(b, t, i) ==
  CASE t[i].type = "pwm" -> IF b.duty[i] > 0 THEN 1 ELSE 0
    [] t[i].type = "rgb" -> IF b.pin[RgbPin] = 0 THEN 0 ELSE 1
    [] OTHER             -> b.on[i]

\* duta__pwm_setup: the pins of the PWM rows, as long as there are channels.
Attached(t) == LET rows == {i \in 1..Len(t) : t[i].type = "pwm"} IN
  {t[i].pin : i \in {k \in rows :
     Cardinality({t[j].pin : j \in {n \in rows : n < k}} \ {t[k].pin}) < Channels}}

\* duta_io_begin: every output of the table is set up and turned off, in order.
Begin(t, r) ==
  LET Off(b, i) == IF t[i].type = "rgb" THEN b ELSE IoOutSet(b, t, i, 0, r)
      dark == [duty |-> [i \in 1..MaxRows |-> 0], on |-> [i \in 1..MaxRows |-> 0],
               pin |-> [p \in Pins |-> 0], ledc |-> Attached(t)]
  IN  FoldLeft(Off, dark, [i \in 1..Len(t) |-> i])

-----------------------------------------------------------------------------
(* Provisioning                                                            *)

\* duta__keeps_default_role
KeepsDefaultRole(row) ==
  \E i \in 1..Len(Compiled) :
    /\ Compiled[i].pin = row.pin /\ Compiled[i].type = row.type
    /\ \A j \in 1..(i - 1) : Compiled[j].pin # row.pin

\* Mutant: what a pin can be is not looked at.
RowOnMenu(row) == row.type # "cut" /\ (row.pin \in Offered \/ KeepsDefaultRole(row))

\* duta__row_ok, for a row that is there in full
RowOk(row) ==
  /\ row.type # "cut"
  /\ IF row.pin \notin Offered THEN KeepsDefaultRole(row)
     ELSE IF row.type = "rgb" THEN row.pin = RgbPin
     ELSE row.type \in Caps[row.pin]

TableOk(t) == Len(t) <= MaxRows /\ \A i \in 1..Len(t) : RowOk(t[i])

NameBytes(t) == FoldLeft(LAMBDA n, row : n + row.name + 1, 0, t)

\* Mutant: the stored table is used only when it is not empty.
LoadNonEmpty(s) ==
  IF s # NoTable /\ s[1] # <<>> /\ NameBytes(s[1]) <= Pool THEN s[1] ELSE Compiled

\* duta_io_load: names are copied to a pool; when it is full, the table is given
\* up for the compiled one.
Load(s) == IF s # NoTable /\ NameBytes(s[1]) <= Pool THEN s[1] ELSE Compiled

Boot(s) == /\ tbl' = Load(s)
           /\ io' = Begin(Load(s), res')

IoInit ==
  /\ tbl = Compiled /\ store = NoTable /\ res = 10
  /\ io = Begin(Compiled, 10)
  /\ status = "OK" /\ ioCmds = 0 /\ last = "none"
  /\ promised = Compiled /\ wiped = FALSE

IoCommand(name) == ioCmds < MaxIoCmds /\ ioCmds' = ioCmds + 1 /\ last' = name

\* CONFIG_SET of a table: checked, then saved, which may fail.
ConfigSet(t) ==
  /\ IoCommand("config")
  /\ \/ TableOk(t) /\ store' = Stored(t) /\ status' = "OK"
        /\ promised' = t /\ wiped' = FALSE
     \/ TableOk(t) /\ status' = "STORAGE" /\ UNCHANGED <<store, promised, wiped>>
     \/ ~TableOk(t) /\ status' = "BADARGS" /\ UNCHANGED <<store, promised, wiped>>
  /\ UNCHANGED <<tbl, res, io>>

\* CONFIG_SET 0xFF: back to the compiled table.  store_clear has no result: the
\* answer is OK also when it failed.
ConfigReset ==
  /\ IoCommand("reset") /\ status' = "OK" /\ promised' = Compiled
  /\ \/ store' = NoTable /\ wiped' = FALSE
     \/ wiped' = (store # NoTable) /\ UNCHANGED store
  /\ UNCHANGED <<tbl, res, io>>

\* REBOOT, or a power cycle
IoReboot ==
  /\ IoCommand("reboot") /\ status' = "OK"
  /\ res' = 10 /\ Boot(store)
  /\ UNCHANGED <<store, promised, wiped>>

-----------------------------------------------------------------------------
(* Driving the outputs                                                     *)

Row(i) == i \in 1..Len(tbl)

IoDrive(name, b) == /\ IoCommand(name) /\ status' = "OK" /\ io' = b
                    /\ UNCHANGED <<tbl, store, promised, wiped>>

\* A command on a row of another type, or on none.
Mismatch(i, type) ==
  /\ IoCommand("bad") /\ status' = "BADARGS"
  /\ ~(Row(i) /\ tbl[i].type = type)
  /\ UNCHANGED <<tbl, store, res, io, promised, wiped>>

Set(i, v) == /\ Row(i) /\ IoDrive("set", IoOutSet(io, tbl, i, v, res))
             /\ UNCHANGED res

Toggle(i) == /\ Row(i)
             /\ IoDrive("toggle", IoOutSet(io, tbl, i, 1 - OutGet(io, tbl, i), res))
             /\ UNCHANGED res

\* OUT_PULSE: out_set to the opposite, the wait, out_set back.
Pulse(i) ==
  /\ Row(i)
  /\ LET prev == OutGet(io, tbl, i)
     IN  IoDrive("pulse", IoOutSet(IoOutSet(io, tbl, i, 1 - prev, res), tbl, i, prev, res))
  /\ UNCHANGED res

\* duta_io_pwm_set
PwmSet(i, d) ==
  /\ Row(i) /\ tbl[i].type = "pwm"
  /\ IoDrive("pwm", WritePwm([io EXCEPT !.duty[i] = d], tbl[i], d, res))
  /\ UNCHANGED res

\* duta_io_rgb_set of all pixels
RgbSet(i, c) ==
  /\ Row(i) /\ tbl[i].type = "rgb"
  /\ IoDrive("rgb", [io EXCEPT !.pin[RgbPin] = c])
  /\ UNCHANGED res

\* Mutant: the duties stay at the old scale.
PwmConfigOnly(i, r) ==
  /\ Row(i) /\ tbl[i].type = "pwm"
  /\ IoDrive("pwm_config", io)
  /\ res' = r

\* duta_io_pwm_config_set: one resolution for all; every duty is written again.
PwmConfig(i, r) ==
  /\ Row(i) /\ tbl[i].type = "pwm"
  /\ LET Again(b, j) == IF tbl[j].type = "pwm"
                        THEN WritePwm(b, tbl[j], b.duty[j], r) ELSE b
     IN  IoDrive("pwm_config", FoldLeft(Again, io, [j \in 1..Len(tbl) |-> j]))
  /\ res' = r

IoNext ==
  \/ ConfigReset \/ IoReboot \/ \E t \in Tables : ConfigSet(t)
  \/ \E i \in 1..MaxRows : \/ Toggle(i) \/ Pulse(i)
                           \/ \E type \in {"pwm", "rgb"} : Mismatch(i, type)
                           \/ \E v \in {0, 1} : Set(i, v)
                           \/ \E d \in Duties : PwmSet(i, d)
                           \/ \E c \in Colors : RgbSet(i, c)
                           \/ \E r \in Resolutions : PwmConfig(i, r)

IoSpec == IoInit /\ [][IoNext]_ioVars

-----------------------------------------------------------------------------
(* Properties                                                              *)

IoTypeOK ==
  /\ tbl \in Table(Kinds) /\ Len(tbl) <= MaxRows
  /\ store = NoTable \/ (Len(store) = 1 /\ store[1] \in Table(Kinds))
  /\ res \in 1..16 /\ io \in Board
  /\ status \in {"OK", "BADARGS", "STORAGE"} /\ ioCmds \in 0..MaxIoCmds
  /\ promised \in Table(Kinds) /\ wiped \in BOOLEAN

\* PROTOCOL.md: "The device validates every row against the menu before
\* persisting".  Whatever hosts write and whenever the board restarts, no output
\* is driven on a pin that is not on the menu for it, except in the role the
\* board itself gave that pin.
OnlyOfferedRoles ==
  \A i \in 1..Len(tbl) :
    LET row == tbl[i] IN
    \/ KeepsDefaultRole(row)
    \/ row.pin \in Offered /\ row.type \in Caps[row.pin]
    \/ row.pin \in Offered /\ row.type = "rgb" /\ row.pin = RgbPin

\* PROTOCOL.md: "The new table is persisted and takes effect on the next REBOOT".
\* A table answered OK, or the compiled one after a reset, is what the board has
\* after a restart.  Not so if its names do not fit the pool, which CONFIG_SET
\* does not check, or if NVS failed at the reset, which is answered OK.
PromiseKept ==
  [][last' = "reboot" =>
       tbl' = promised \/ wiped \/ NameBytes(promised) > Pool]_ioVars

\* The row is the only one on its pin.  (Nothing stops a host from giving one pin
\* to two rows: the pin then shows what was written last.)
Sole(i) == \A j \in 1..Len(tbl) : tbl[j].pin = tbl[i].pin => j = i

\* No output is driven in a role it was not offered, and
\* what is on the pins is what the latches say: a digital output shows its level
\* and a PWM output with a channel its duty at the present resolution, whichever
\* output the resolution was changed through.
PinsFollowLatches ==
  IoTypeOK /\ OnlyOfferedRoles /\ \A i \in 1..Len(tbl) : Sole(i) =>
    /\ tbl[i].type = "io" => io.pin[tbl[i].pin] = Level(tbl[i], io.on[i])
    /\ (tbl[i].type = "pwm" /\ tbl[i].pin \in io.ledc) =>
         io.pin[tbl[i].pin] = Scaled(tbl[i], io.duty[i], res)

\* OUTPUT_PULSE: "restore after ms".  A pulse leaves every pin as it was, as long
\* as the output was fully on or off: it is restored with a plain out_set, which
\* takes a dimmed or coloured output to full and white.
AtRail(i) == CASE tbl[i].type = "pwm" -> io.duty[i] \in {0, PwmMax}
               [] tbl[i].type = "rgb" -> io.pin[RgbPin] \in {0, White}
               [] OTHER               -> TRUE
PulseRestores ==
  [][last' = "pulse" =>
       \/ io'.pin = io.pin
       \/ \E i \in 1..Len(tbl) : ~Sole(i) \/ ~AtRail(i)]_ioVars
=============================================================================
