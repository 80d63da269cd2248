----------------------------- MODULE DataBuffer -----------------------------
(***************************************************************************)
(* The buffers of a worker and what is in them (worker.c, rx.c and tx.c of    *)
(* echo-server/state-machines): a line is read into ibuf piece by piece,       *)
(* copied to obuf as a string, and written back piece by piece.  ibuf is one    *)
(* byte longer whenever it is full; its new byte is whatever realloc() leaves  *)
(* there, and string functions go on until they find a zero.                   *)
(*                                                                         *)
(* Messages between the machines are left out, EchoServer has them; for one    *)
(* worker they follow one another as the phases do here.                       *)
(***************************************************************************)
EXTENDS Integers, Sequences

CONSTANTS
  FirstLen,  \* the length buffers start with (1024)
  MaxLen     \* BOUND: lines grow no buffer beyond this

ASSUME BufferAssumption == FirstLen \in Nat \ {0}

VARIABLES
  phase,  \* what the worker's request has come to
  ibuf,   \* the memory of ibuf
  obuf,   \* the memory of obuf
  cnt,    \* bytes in ibuf while a line is read, bytes of obuf still to write
  pos,    \* where tx goes on
  input,  \* history: the bytes read for this line
  echo    \* history: the bytes written

bufferVars == <<phase, ibuf, obuf, cnt, pos, input, echo>>

-----------------------------------------------------------------------------

(* What tells bytes apart for strchr() and strcpy(). *)
Byte == {"letter", "newline", "zero"}

Holes(n) == [k \in 1 .. n |-> "zero"]

(* worker_init_enter; what malloc() leaves there is cleared before it is read. *)
BuffersInit ==
  /\ phase = "idle"
  /\ ibuf = Holes(FirstLen)
  /\ obuf = Holes(FirstLen)
  /\ cnt = 0 /\ pos = 0
  /\ input = << >> /\ echo = << >>

(* A fault: the buffer is not cleared. *)
Cleared_not == ibuf

Cleared == Holes(Len(ibuf))

(* rx_idle_M1: a worker asks for a line. *)
AskForLine ==
  /\ phase \in {"idle", "echoed"}
  /\ phase' = "reading"
  /\ ibuf' = Cleared
  /\ cnt' = 0
  /\ input' = << >> /\ echo' = << >>
  /\ UNCHANGED <<obuf, pos>>

(* Memory m with some bytes from position k + 1 on. *)
Stored(m, k, bytes) == SubSeq(m, 1, k) \o bytes \o SubSeq(m, k + Len(bytes) + 1, Len(m))

(* __es_on_buffer_full, when the n bytes in it fill the buffer. *)
Grown(m, n) == IF n = Len(m) THEN {Append(m, b) : b \in Byte} ELSE {m}

(* The string that starts at memory m, if a zero ends it. *)
Ends(m) == {k \in DOMAIN m : m[k] = "zero"}
StringOf(m) ==
  LET end == CHOOSE k \in Ends(m) : \A j \in Ends(m) : k <= j
  IN  IF Ends(m) = {} THEN m ELSE SubSeq(m, 1, end - 1)

HasNewline(s) == \E k \in DOMAIN s : s[k] = "newline"

(* __es_need_more: strchr() leaves the buffer if it finds nothing in it. *)
PhaseAfterRead(m) ==
  IF HasNewline(StringOf(m)) THEN "complete"
  ELSE IF Ends(m) = {} THEN "overrun" ELSE "reading"

(* rx_work_D0: what is there is read, as far as there is room. *)
rx_work_D0 ==
  \E n \in 1 .. Len(ibuf) - cnt : \E bytes \in [1 .. n -> Byte] :
    /\ phase = "reading"
    /\ cnt + n < MaxLen
    /\ ibuf' \in Grown(Stored(ibuf, cnt, bytes), cnt + n)
    /\ phase' = PhaseAfterRead(ibuf')
    /\ cnt' = cnt + n
    /\ input' = input \o bytes
    /\ UNCHANGED <<obuf, pos, echo>>

(* The peer is gone, the timeout is over, realloc() of ibuf or write() fails. *)
GiveUp ==
  /\ phase \in {"reading", "writing"}
  /\ phase' = "idle"
  /\ UNCHANGED <<ibuf, obuf, cnt, pos, input, echo>>

(* obuf gets as long as ibuf, and a byte more. *)
Room == IF Len(obuf) < Len(ibuf) THEN Len(ibuf) + 1 ELSE Len(obuf)

(* worker_ackp_enter: strcpy() ends at a zero, in ibuf or behind it. *)
worker_ackp_enter ==
  /\ phase = "complete"
  /\ UNCHANGED <<ibuf, input, echo>>
  /\ IF Ends(ibuf) = {} THEN phase' = "overrun" /\ UNCHANGED <<obuf, cnt, pos>>
     ELSE /\ phase' = "writing"
          /\ obuf' = Stored([k \in 1 .. Room |-> IF k \in DOMAIN obuf THEN obuf[k] ELSE "letter"],
                            0, Append(StringOf(ibuf), "zero"))
          /\ cnt' = Len(StringOf(ibuf))
          /\ pos' = 0

(* realloc() of obuf fails: nobody is told, neither the tx machine that was   *)
(* taken from its pool nor the manager.                                     *)
ackp_fails ==
  /\ phase = "complete" /\ Room # Len(obuf)
  /\ phase' = "stuck"
  /\ UNCHANGED <<ibuf, obuf, cnt, pos, input, echo>>

(* tx_work_D1: write() takes as many bytes as it likes. *)
tx_work_D1 ==
  \E n \in 1 .. cnt :
    /\ phase = "writing"
    /\ echo' = echo \o SubSeq(obuf, pos + 1, pos + n)
    /\ pos' = pos + n
    /\ cnt' = cnt - n
    /\ phase' = IF cnt = n THEN "echoed" ELSE "writing"
    /\ UNCHANGED <<ibuf, obuf, input>>

BuffersNext ==
  AskForLine \/ rx_work_D0 \/ GiveUp \/ worker_ackp_enter \/ ackp_fails \/ tx_work_D1

BuffersSpec == BuffersInit /\ [][BuffersNext]_bufferVars

-----------------------------------------------------------------------------

(* Counts stay within the memory they count. *)
BuffersTypeOK ==
  /\ phase \in {"idle", "reading", "complete", "writing", "echoed", "overrun", "stuck"}
  /\ ibuf \in Seq(Byte) /\ obuf \in Seq(Byte) /\ input \in Seq(Byte) /\ echo \in Seq(Byte)
  /\ phase = "reading" => cnt \in 0 .. Len(ibuf) - 1
  /\ phase = "writing" => pos + cnt < Len(obuf)

(* A client gets back what it has sent for a line, up to a zero byte if there *)
(* is one, with a newline in it: nothing of an earlier, longer line, nothing   *)
(* twice and nothing left out, in how many pieces ever it came and went.       *)
EchoIsExact ==
  /\ phase = "echoed" => echo = StringOf(input) /\ HasNewline(echo)
  /\ phase = "writing" => echo = SubSeq(StringOf(input), 1, Len(echo))

(* String functions leave the buffer only if this very line has made it       *)
(* longer, and realloc() has not left a zero there: never for lines that are   *)
(* shorter than the buffer has ever been.                                     *)
OverrunExplained ==
  phase = "overrun" => Len(ibuf) = Len(input) + 1 /\ ibuf[Len(ibuf)] # "zero"

(* A line is echoed byte for byte unless its own growth of the buffer has    *)
(* left it without an end.                                                   *)
LinesAreExact == EchoIsExact /\ OverrunExplained

=============================================================================
