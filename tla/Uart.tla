-------------------------------- MODULE Uart --------------------------------
(***************************************************************************)
(* The UART driver (drivers/src/uart.c) and one USART.                     *)
(*                                                                         *)
(* Transfers busy-wait on the flags of SR.  The transmitter has two        *)
(* stages, DR and a shift register, each with a flag: TXE says DR can take *)
(* a byte, TC that both are empty.  The receiver has one place: a byte     *)
(* that arrives while the last is unread is lost and sets ORE, whatever    *)
(* the driver is in the middle of.  Reading SR and then DR takes the byte  *)
(* and clears the error flags the SR reading saw.                          *)
(*                                                                         *)
(* Bytes are numbered in the order they are written or arrive.             *)
(***************************************************************************)
EXTENDS DriverCall, Integers, Sequences

CONSTANTS
    Rates,      \* pairs <<bus clock, baud rate>> a caller passes, bad ones too
    MaxTx,      \* bytes written in a run
    MaxRx       \* bytes that arrive in a run

ASSUME UartAssumption ==
    /\ Rates \subseteq Nat \X Nat
    /\ MaxTx \in Nat /\ MaxRx \in Nat

MinBrr == 16            \* UART_BRR_MIN
MaxBrr == 65535         \* mantissa and fraction of BRR
MaxLength == 2          \* longest buffer passed

VARIABLES
    ue, te, re,         \* CR1.UE, TE, RE
    m, pce,             \* CR1.M, PCE
    brr,                \* BRR
    tdr, shift,         \* transmit DR and shift register, 0 when empty
    tc,                 \* SR.TC
    srRead,             \* SR has been read since DR was last written
    line,               \* bytes that went out
    rxne, ore, err,     \* SR.RXNE, ORE, and NE, FE or PE
    rdr,                \* receive DR
    sr,                 \* local of uartReceiveByte(): the error flags it read, ORE and the others
    left,               \* bytes of the buffer still to transfer
    rate, parity, dir,  \* arguments of uartInit()
    written,            \* history: bytes stored to DR
    arrived,            \* history: bytes that arrived
    damaged,            \* history: those that arrived with an error
    taken,              \* history: bytes received OK, 0 for each HW_FAULT
    unflushed           \* history: has a byte been written since TC was last waited for

configVars == <<ue, te, re, m, pce, brr>>
txVars == <<tdr, shift, tc, srRead, line, written, unflushed>>
rxVars == <<rxne, ore, err, rdr, arrived, damaged>>
argVars == <<rate, parity, dir>>
vars == <<callVars, configVars, txVars, rxVars, sr, left, argVars, taken>>

Init ==
    /\ CallInit
    /\ ue = FALSE /\ te = FALSE /\ re = FALSE
    /\ m = FALSE /\ pce = FALSE
    /\ brr = 0
    /\ tdr = 0 /\ shift = 0
    /\ tc = TRUE /\ srRead = FALSE
    /\ line = <<>>
    /\ rxne = FALSE /\ ore = FALSE /\ err = FALSE
    /\ rdr = 0
    /\ sr = {}
    /\ left = 0
    /\ rate = <<0, 0>> /\ parity = FALSE /\ dir = {}
    /\ written = 0 /\ arrived = 0
    /\ damaged = {}
    /\ taken = <<>>
    /\ unflushed = FALSE

txe == tdr = 0

-----------------------------------------------------------------------------
(* Configuration.                                                           *)

\* Mutant: a truncated quotient.
TruncatedBrr(r) == r[1] \div r[2]

\* uartComputeBrr(): the quotient rounded once; the sum is 64 bits wide.
RoundedBrr(r) == (r[1] + r[2] \div 2) \div r[2]

FitsBrr(r) == r[1] # 0 /\ r[2] # 0 /\ RoundedBrr(r) \in MinBrr..MaxBrr

\* Mutant: reconfigured without UE cleared first.
InitStaysEnabled(r, framing) ==
    /\ UNCHANGED <<ue, te, re, m, pce, brr, txVars, rxVars, sr, left, taken>>
    /\ \/ /\ ~FitsBrr(r) \/ ~framing
          /\ Answer("uartInit", "INVALID_PARAM", FALSE)
          /\ UNCHANGED argVars
       \/ /\ FitsBrr(r) /\ framing
          /\ Enter("uartInit", "brr", TRUE)
          /\ rate' = r /\ parity' \in BOOLEAN /\ dir' \in SUBSET {"TE", "RE"}

\* framing: are stop_bits, parity_enable, parity_select and direction all valid; any
\* parity and any direction may be asked for.
uartInit(r, framing) ==
    /\ UNCHANGED <<te, re, m, pce, brr, txVars, rxVars, sr, left, taken>>
    /\ \/ /\ ~FitsBrr(r) \/ ~framing
          /\ Answer("uartInit", "INVALID_PARAM", FALSE)
          /\ UNCHANGED <<ue, argVars>>
       \/ /\ FitsBrr(r) /\ framing
          /\ Enter("uartInit", "brr", TRUE)
          /\ ue' = FALSE
          /\ rate' = r /\ parity' \in BOOLEAN /\ dir' \in SUBSET {"TE", "RE"}

StoreBrr ==
    /\ at = "brr"
    /\ GoTo("frame", TRUE)
    /\ brr' = RoundedBrr(rate)
    /\ UNCHANGED <<ue, te, re, m, pce, txVars, rxVars, sr, left, argVars, taken>>

\* CR2.STOP, then CR1: M goes with PCE.
StoreFrame ==
    /\ at = "frame"
    /\ GoTo("enable", TRUE)
    /\ m' = parity /\ pce' = parity
    /\ te' = ("TE" \in dir) /\ re' = ("RE" \in dir)
    /\ UNCHANGED <<ue, brr, txVars, rxVars, sr, left, argVars, taken>>

StoreEnable ==
    /\ at = "enable"
    /\ Return("OK", TRUE)
    /\ ue' = TRUE
    /\ UNCHANGED <<te, re, m, pce, brr, txVars, rxVars, sr, left, argVars, taken>>

\* Returns nothing: no status to read.
uartDeinit ==
    /\ Answer("uartDeinit", "UNINITIALIZED", TRUE)
    /\ ue' = FALSE /\ te' = FALSE /\ re' = FALSE
    /\ m' = FALSE /\ pce' = FALSE
    /\ brr' = 0
    /\ UNCHANGED <<txVars, rxVars, sr, left, argVars, taken>>

-----------------------------------------------------------------------------
(* uartWaitSrFlag()                                                         *)

\* The flag the running wait reads: TXE, TC or RXNE.
FlagOf(place) ==
    \/ place \in {"txe", "txeRecheck"} /\ txe
    \/ place \in {"tc", "tcRecheck"} /\ tc
    \/ place \in {"rxne", "rxneRecheck"} /\ rxne

WaitSrFlag(poll, recheck, next) ==
    /\ \/ at = poll /\ Poll(FlagOf(poll), recheck)
       \/ at = recheck /\ Recheck(FlagOf(recheck), next)
    /\ srRead' = TRUE

-----------------------------------------------------------------------------
(* Sending.  A buffer of n bytes, or NULL.                                  *)

uartFlush ==
    /\ Enter("uartFlush", "tc", FALSE)
    /\ UNCHANGED <<configVars, txVars, rxVars, sr, left, argVars, taken>>

uartTransmitByte ==
    /\ Enter("uartTransmitByte", "txe", FALSE)
    /\ left' = 1
    /\ UNCHANGED <<configVars, txVars, rxVars, sr, argVars, taken>>

uartTransmit(n, null) ==
    /\ UNCHANGED <<configVars, txVars, rxVars, sr, argVars, taken>>
    /\ \/ /\ null /\ n > 0
          /\ Answer("uartTransmit", "INVALID_PARAM", FALSE)
          /\ UNCHANGED left
       \/ /\ n = 0
          /\ Answer("uartTransmit", "OK", FALSE)
          /\ UNCHANGED left
       \/ /\ ~null /\ n > 0
          /\ Enter("uartTransmit", "txe", FALSE)
          /\ left' = n

\* Mutant: DR is written without a look at TXE.
WaitTxeSkipped ==
    /\ at = "txe"
    /\ GoTo("store", FALSE)
    /\ UNCHANGED <<configVars, txVars, rxVars, sr, left, argVars, taken>>

WaitTxe ==
    /\ WaitSrFlag("txe", "txeRecheck", "store")
    /\ UNCHANGED <<configVars, tdr, shift, tc, line, written, unflushed,
                   rxVars, sr, left, argVars, taken>>

\* A store to a full DR replaces what is there.  TC clears on a store that follows
\* a reading of SR.
StoreDr ==
    /\ at = "store"
    /\ tdr' = written + 1
    /\ written' = written + 1
    /\ tc' = (tc /\ ~srRead)
    /\ srRead' = FALSE
    /\ unflushed' = TRUE
    /\ left' = left - 1
    /\ \/ fn = "uartTransmitByte" /\ Return("OK", TRUE)
       \/ fn = "uartTransmit" /\ left > 1 /\ GoTo("txe", TRUE)
       \/ fn = "uartTransmit" /\ left = 1 /\ GoTo("tc", TRUE)
    /\ UNCHANGED <<configVars, shift, line, rxVars, sr, argVars, taken>>

\* Mutant: the last byte is taken for sent once DR is free again.
FlushOnTxe ==
    /\ \/ at = "tc" /\ Poll(txe, "tcRecheck")
       \/ at = "tcRecheck" /\ Recheck(txe, "returned")
    /\ srRead' = TRUE
    /\ unflushed' = (unflushed /\ ~(at = "tcRecheck" /\ txe))
    /\ UNCHANGED <<configVars, tdr, shift, tc, line, written, rxVars, sr, left,
                   argVars, taken>>

WaitTc ==
    /\ WaitSrFlag("tc", "tcRecheck", "returned")
    /\ unflushed' = (unflushed /\ ~(at = "tcRecheck" /\ tc))
    /\ UNCHANGED <<configVars, tdr, shift, tc, line, written, rxVars, sr, left,
                   argVars, taken>>

-----------------------------------------------------------------------------
(* Receiving.  A buffer of n bytes, or NULL.                                *)

uartReceiveByte(null) ==
    /\ UNCHANGED <<configVars, txVars, rxVars, sr, argVars, taken>>
    /\ \/ /\ null
          /\ Answer("uartReceiveByte", "INVALID_PARAM", FALSE)
          /\ UNCHANGED left
       \/ /\ ~null
          /\ Enter("uartReceiveByte", "rxne", FALSE)
          /\ left' = 1

uartReceive(n, null) ==
    /\ UNCHANGED <<configVars, txVars, rxVars, sr, argVars, taken>>
    /\ \/ /\ null /\ n > 0
          /\ Answer("uartReceive", "INVALID_PARAM", FALSE)
          /\ UNCHANGED left
       \/ /\ n = 0
          /\ Answer("uartReceive", "OK", FALSE)
          /\ UNCHANGED left
       \/ /\ ~null /\ n > 0
          /\ Enter("uartReceive", "rxne", FALSE)
          /\ left' = n

WaitRxne ==
    /\ WaitSrFlag("rxne", "rxneRecheck", "sr")
    /\ UNCHANGED <<configVars, tdr, shift, tc, line, written, unflushed,
                   rxVars, sr, left, argVars, taken>>

\* ERR: NE, FE or PE, which come up with the byte.
ErrorFlags == {"ORE", "ERR"}

\* DR takes the byte and clears the error flags that SR showed; one that came up
\* since stays.
TakeByte ==
    /\ rxne' = FALSE
    /\ ore' = (ore /\ "ORE" \notin sr)
    /\ err' = (err /\ "ERR" \notin sr)

\* uint32_t sr = uart->SR;
ReadSr ==
    /\ at = "sr"
    /\ GoTo("dr", FALSE)
    /\ sr' = {f \in ErrorFlags : IF f = "ORE" THEN ore ELSE err}
    /\ srRead' = TRUE
    /\ UNCHANGED <<configVars, tdr, shift, tc, line, written, unflushed,
                   rxVars, left, argVars, taken>>

\* Mutant: the error flags are cleared by the reading but not looked at.
ReadDrIgnoringSr ==
    /\ at = "dr"
    /\ TakeByte
    /\ taken' = Append(taken, rdr)
    /\ left' = left - 1
    /\ \/ left > 1 /\ GoTo("rxne", FALSE)
       \/ left = 1 /\ Return("OK", FALSE)
    /\ UNCHANGED <<configVars, txVars, rdr, arrived, damaged, sr, argVars>>

\* DR is read, and the flags read before it decide.  A transfer stops at the first
\* error.
ReadDr ==
    /\ at = "dr"
    /\ TakeByte
    /\ taken' = Append(taken, IF sr # {} THEN 0 ELSE rdr)
    /\ left' = left - 1
    /\ \/ sr # {} /\ Return("HW_FAULT", FALSE)
       \/ sr = {} /\ left > 1 /\ GoTo("rxne", FALSE)
       \/ sr = {} /\ left = 1 /\ Return("OK", FALSE)
    /\ UNCHANGED <<configVars, txVars, rdr, arrived, damaged, sr, argVars>>

-----------------------------------------------------------------------------
(* The hardware.                                                            *)

\* A byte moves from DR to the shift register; TXE comes up.
ShiftLoad ==
    /\ ue /\ te
    /\ tdr # 0 /\ shift = 0
    /\ shift' = tdr /\ tdr' = 0
    /\ UNCHANGED <<callVars, configVars, tc, srRead, line, written, unflushed,
                   rxVars, sr, left, argVars, taken>>

\* A frame ends; TC comes up if nothing follows.
FrameSent ==
    /\ ue /\ te
    /\ shift # 0
    /\ line' = Append(line, shift)
    /\ shift' = 0
    /\ tc' = (tc \/ txe)
    /\ UNCHANGED <<callVars, configVars, tdr, srRead, written, unflushed,
                   rxVars, sr, left, argVars, taken>>

\* A byte arrives, damaged or not.  With the last one unread it is lost.
FrameReceived(bad) ==
    /\ ue /\ re
    /\ arrived < MaxRx
    /\ arrived' = arrived + 1
    /\ damaged' = IF bad THEN damaged \union {arrived + 1} ELSE damaged
    /\ IF rxne
       THEN ore' = TRUE /\ UNCHANGED <<rxne, rdr, err>>
       ELSE rxne' = TRUE /\ rdr' = arrived + 1 /\ err' = (err \/ bad) /\ UNCHANGED ore
    /\ UNCHANGED <<callVars, configVars, txVars, sr, left, argVars, taken>>

-----------------------------------------------------------------------------
(* The caller: the one owner of the instance.  As uart.h asks, it sends and *)
(* receives with that direction enabled, and reconfigures only once TC has  *)
(* been waited for.                                                         *)

MayConfigure == ~unflushed
MaySend(n) == ue /\ te /\ written + n <= MaxTx
MayReceive == ue /\ re

Caller ==
    \/ MayConfigure /\ \E r \in Rates, framing \in BOOLEAN : uartInit(r, framing)
    \/ MayConfigure /\ uartDeinit
    \/ ue /\ te /\ uartFlush
    \/ MaySend(1) /\ uartTransmitByte
    \/ \E n \in 0..MaxLength, null \in BOOLEAN : MaySend(n) /\ uartTransmit(n, null)
    \/ MayReceive /\ \E null \in BOOLEAN : uartReceiveByte(null)
    \/ MayReceive /\ \E n \in 0..MaxLength, null \in BOOLEAN : uartReceive(n, null)

Driver ==
    \/ StoreBrr \/ StoreFrame \/ StoreEnable
    \/ WaitTxe \/ StoreDr \/ WaitTc
    \/ WaitRxne \/ ReadSr \/ ReadDr

Hardware ==
    \/ ShiftLoad \/ FrameSent
    \/ \E bad \in BOOLEAN : FrameReceived(bad)

Next == Caller \/ Driver \/ Hardware

Spec == Init /\ [][Next]_vars

-----------------------------------------------------------------------------
UartFns == {"uartInit", "uartDeinit", "uartFlush", "uartTransmitByte",
            "uartTransmit", "uartReceiveByte", "uartReceive"}
Places == {"brr", "frame", "enable", "txe", "txeRecheck", "store", "tc",
           "tcRecheck", "rxne", "rxneRecheck", "sr", "dr"}

TypeOK ==
    /\ CallTypeOK(UartFns, Places)
    /\ ue \in BOOLEAN /\ te \in BOOLEAN /\ re \in BOOLEAN
    /\ m \in BOOLEAN /\ pce \in BOOLEAN /\ parity \in BOOLEAN
    /\ tc \in BOOLEAN /\ srRead \in BOOLEAN /\ unflushed \in BOOLEAN
    /\ rxne \in BOOLEAN /\ ore \in BOOLEAN /\ err \in BOOLEAN
    /\ sr \subseteq ErrorFlags
    /\ brr \in 0..MaxBrr
    /\ tdr \in 0..MaxTx /\ shift \in 0..MaxTx /\ written \in 0..MaxTx
    /\ rdr \in 0..MaxRx /\ arrived \in 0..MaxRx
    /\ left \in 0..MaxLength
    /\ rate \in Rates \union {<<0, 0>>} /\ dir \subseteq {"TE", "RE"}
    /\ line \in Seq(1..MaxTx) /\ taken \in Seq(0..MaxRx)
    /\ damaged \subseteq 1..arrived

(* uartTransmit() and uartFlush() == OK mean the line is idle (uart.h):     *)
(* every byte written is out, not merely off DR, however the frame ends     *)
(* fall between the polls and whatever an earlier call left behind.         *)
OkMeansIdle ==
    (Idle /\ status = "OK" /\ (fn = "uartFlush" \/ (fn = "uartTransmit" /\ wrote)))
        => tdr = 0 /\ shift = 0 /\ Len(line) = written

(* uart.c, uartInit(): "a reconfiguration never changes BRR mid-frame".     *)
(* A caller that waits for TC before it reconfigures never changes the baud *)
(* rate or the framing of an enabled instance or of a frame on the line.    *)
ReconfiguresInSilence ==
    [][<<brr, m, pce>>' # <<brr, m, pce>> =>
           (~ue \/ ~ue') /\ tdr = 0 /\ shift = 0]_vars

(* An enabled instance runs at the divisor nearest to the rate last asked   *)
(* for, and carries the 8 data bits uart.h offers, with parity or without.  *)
EnabledMeansConfigured ==
    ue => /\ brr \in MinBrr..MaxBrr
          /\ 2 * (rate[1] - brr * rate[2]) <= rate[2]
          /\ 2 * (brr * rate[2] - rate[1]) <= rate[2]
          /\ (IF m THEN 9 ELSE 8) - (IF pce THEN 1 ELSE 0) = 8

(* A byte received OK is undamaged and follows the one before it, unless a  *)
(* HW_FAULT between them told of the loss: also when a byte arrives between *)
(* the reading of SR and that of DR.                                        *)
ReceivedInOrder ==
    \A i \in 1..Len(taken) : taken[i] # 0 =>
        /\ taken[i] \notin damaged
        /\ i = 1 => taken[i] = 1
        /\ i > 1 => taken[i - 1] = 0 \/ taken[i] = taken[i - 1] + 1

-----------------------------------------------------------------------------
Held(b) == IF b = 0 THEN <<>> ELSE <<b>>

Fifo == INSTANCE ByteFifo WITH
    Bytes <- 1..MaxTx, Capacity <- 2, queue <- Held(shift) \o Held(tdr), line <- line

(* The transmitter as the driver feeds it is a queue of two: no byte is     *)
(* lost, repeated or out of order, across calls that time out too.          *)
ImplementsFifo == Fifo!Spec

=============================================================================
