------------------------------- MODULE Faults -------------------------------
(***************************************************************************)
(* The fault driver (drivers/src/fault.c), Fault_Handler of the start-up   *)
(* code, and what the core does on a fault: it stacks a frame, which can   *)
(* itself fail, and enters the handler of the fault's class or HardFault.  *)
(* All four vectors are Fault_Handler, so a fault in the handler enters it *)
(* once more as HardFault, and one in HardFault locks the core up.         *)
(***************************************************************************)
EXTENDS Integers

CONSTANT Stacks     \* the stacks code runs on: "MSP", and "PSP" if there are tasks

ASSUME StacksAssumption == Stacks \subseteq {"MSP", "PSP"}

VARIABLES
    mode,       \* "program", "handler", "spin" at FaultSpin, or "lockup"
    faultsOn,   \* SHCSR's three enables and CCR.DIV_0_TRP
    cfsr,       \* bits of CFSR that are set
    active,     \* ICSR.VECTACTIVE of the fault
    frames,     \* stack -> whose registers lie at its pointer, or "nothing"
    excReturn,  \* LR on entry: the stack its bit 2 stands for
    record      \* faultRecord

faultVars == <<mode, faultsOn, cfsr, active, frames, excReturn, record>>

HardFault == 3
MemManage == 4
BusFault == 5
UsageFault == 6

ClassOf(bit) ==
    CASE bit \in {"IACCVIOL", "DACCVIOL", "MUNSTKERR", "MSTKERR", "MLSPERR"} -> MemManage
      [] bit \in {"IBUSERR", "PRECISERR", "IMPRECISERR", "UNSTKERR", "STKERR", "LSPERR"} -> BusFault
      [] bit \in {"UNDEFINSTR", "INVSTATE", "INVPC", "NOCP", "UNALIGNED", "DIVBYZERO"} -> UsageFault

\* One cause of each class, and the one that must be enabled.
Causes == {"DACCVIOL", "PRECISERR", "UNDEFINSTR", "DIVBYZERO"}

\* .bss is zero: no fault recorded.
Zero == [exception |-> 0, cfsr |-> {}, frame |-> "nothing"]

\* What a reset, and Reset_Handler after it, leave.
FaultReset ==
    /\ mode' = "program" /\ faultsOn' = FALSE
    /\ cfsr' = {} /\ active' = 0 /\ excReturn' = "MSP"
    /\ frames' = [s \in {"MSP", "PSP"} |-> "nothing"]
    /\ record' = Zero

FaultInit ==
    /\ mode = "program" /\ faultsOn = FALSE
    /\ cfsr = {} /\ active = 0 /\ excReturn = "MSP"
    /\ frames = [s \in {"MSP", "PSP"} |-> "nothing"]
    /\ record = Zero

faultEnable == faultsOn' = TRUE /\ UNCHANGED <<mode, cfsr, active, frames, excReturn, record>>

-----------------------------------------------------------------------------
(* The core.                                                                *)

\* A division by zero quietly gives 0 unless it is trapped.
Traps(cause) == cause = "DIVBYZERO" => faultsOn

(* The program, or a handler at the priority of the faults, faults.  A task *)
(* may have run out of its stack; the main stack is taken to hold.          *)
FaultHits(cause) ==
    /\ mode = "program" /\ Traps(cause)
    /\ mode' = "handler"
    /\ \E stack \in Stacks, lost \in {{}, {"STKERR"}, {"MSTKERR"}}, escalated \in BOOLEAN :
           /\ lost # {} => stack = "PSP"
           /\ cfsr' = cfsr \union {cause} \union lost
           /\ active' \in {IF faultsOn /\ ~escalated THEN ClassOf(bit) ELSE HardFault :
                              bit \in {cause} \union lost}
           /\ frames' = [frames EXCEPT ![stack] = IF lost = {} THEN "program" ELSE "nothing"]
           /\ excReturn' = stack
    /\ UNCHANGED <<faultsOn, record>>

\* The load from a stack that is not there faults in the handler.
FaultsAgain ==
    /\ mode' = IF active = HardFault THEN "lockup" ELSE "handler"
    /\ active' = HardFault
    /\ cfsr' = cfsr \union {"PRECISERR"}
    /\ frames' = [frames EXCEPT !["MSP"] = "handler"]
    /\ excReturn' = "MSP"
    /\ UNCHANGED <<faultsOn, record>>

-----------------------------------------------------------------------------
(* Fault_Handler and faultCapture().                                        *)

\* tst lr, #4.
FrameStack(lr) == lr

\* Mutant: an MPU violation while stacking is overlooked.
OnlyStkerr(bits) == "STKERR" \notin bits

FrameValid(bits) == bits \intersect {"MSTKERR", "STKERR"} = {}

faultCapture ==
    /\ mode = "handler"
    /\ LET frame == frames[FrameStack(excReturn)]
       IN  IF FrameValid(cfsr) /\ frame = "nothing"
           THEN FaultsAgain
           ELSE /\ mode' = "spin"
                /\ record' = [exception |-> active, cfsr |-> cfsr,
                              frame |-> IF FrameValid(cfsr) THEN frame ELSE "nothing"]
                /\ UNCHANGED <<faultsOn, cfsr, active, frames, excReturn>>

-----------------------------------------------------------------------------
(* fault.h: a fault is recorded, whichever stack it struck and although the *)
(* core could not save the registers: what the record shows are those of    *)
(* the program that faulted or nothing, the exception is one that fits the  *)
(* cause, and the core never locks up.  Until a fault the record is zero.   *)
FaultRecorded ==
    /\ mode # "lockup"
    /\ mode = "program" => record = Zero
    /\ mode = "spin" =>
           /\ record.exception \in {HardFault} \union {ClassOf(bit) : bit \in record.cfsr}
           /\ \E cause \in Causes : record.cfsr \subseteq {cause, "STKERR", "MSTKERR"}
           /\ (record.frame = "program") <=> (record.cfsr \subseteq Causes)
=============================================================================
