-------------------------------- MODULE Iwdg --------------------------------
(***************************************************************************)
(* The independent watchdog driver (drivers/src/iwdg.c) and its            *)
(* peripheral.                                                             *)
(*                                                                         *)
(* The registers PR and RLR live in the bus domain, the prescaler and the  *)
(* counter they control in the LSI domain: a written value is copied over  *)
(* some LSI cycles later, and SR.PVU or SR.RVU is set until it is.  PR and *)
(* RLR take a store only while unlocked, and only while their previous     *)
(* copy is not in progress; any key but the unlocking one locks them.      *)
(* iwdgStart() has to steer one call through all of that, while the        *)
(* counter is running down.                                                *)
(***************************************************************************)
EXTENDS DriverCall

CONSTANTS
    MaxPr,          \* highest PR value, IWDG_PR_DIV256
    MaxRlr,         \* highest RLR value, 0xFFF, and its reset value
    Divider,        \* [0..MaxPr -> Nat \ {0}], LSI cycles per count
    Restarts,       \* is iwdgStart() called again on a running watchdog
    IsrRefreshes    \* does an interrupt refresh while iwdgStart() runs

ASSUME IwdgAssumption ==
    /\ MaxPr \in Nat /\ MaxRlr \in Nat
    /\ Divider \in [0..MaxPr -> Nat \ {0}]
    /\ Restarts \in BOOLEAN /\ IsrRefreshes \in BOOLEAN

VARIABLES
    running,        \* the watchdog, and with it the LSI, has been started
    unlocked,       \* PR and RLR take stores
    pr, rlr,        \* the registers, bus domain
    pvu, rvu,       \* SR.PVU, SR.RVU
    prLsi, rlrLsi,  \* the values in use, LSI domain
    counter,        \* the down-counter
    phase,          \* LSI cycles into the present count
    argPr, argRlr,  \* local: prescaler and reload
    restarted,      \* history: has iwdgStart() been called on a running watchdog
    bitten,         \* the chip has been reset by the watchdog
    elapsed,        \* history: LSI cycles since the last refresh or the start
    promised        \* history: LSI cycles the program counts on after a refresh

registerVars == <<running, unlocked, pr, rlr, pvu, rvu>>
lsiVars == <<prLsi, rlrLsi, counter, phase>>
argVars == <<argPr, argRlr, restarted>>
historyVars == <<bitten, elapsed, promised>>
vars == <<callVars, running, unlocked, pr, rlr, pvu, rvu, prLsi, rlrLsi,
          counter, phase, argPr, argRlr, restarted, bitten, elapsed, promised>>

-----------------------------------------------------------------------------
\* iwdg.h: Timeout = (reload + 1) x divider / f_LSI
Timeout(p, r) == (r + 1) * Divider[p]

Least(a, b) == IF a <= b THEN a ELSE b

ResetValues ==
    /\ running = FALSE /\ unlocked = FALSE
    /\ pr = 0 /\ rlr = MaxRlr
    /\ pvu = FALSE /\ rvu = FALSE
    /\ prLsi = 0 /\ rlrLsi = MaxRlr
    /\ counter = MaxRlr /\ phase = 0

Init ==
    /\ CallInit
    /\ ResetValues
    /\ argPr = 0 /\ argRlr = MaxRlr
    /\ restarted = FALSE
    /\ bitten = FALSE
    /\ elapsed = 0
    /\ promised = Timeout(0, MaxRlr)

-----------------------------------------------------------------------------
(* Stores to the key register.                                              *)

KeyStart ==
    /\ running' = TRUE
    /\ unlocked' = FALSE
    /\ UNCHANGED <<lsiVars, elapsed>>

KeyEnableAccess ==
    /\ unlocked' = TRUE
    /\ UNCHANGED <<running, lsiVars, elapsed>>

\* The counter is loaded with the reload value in use, not with a pending one.
KeyReload ==
    /\ unlocked' = FALSE
    /\ counter' = rlrLsi
    /\ phase' = 0
    /\ elapsed' = 0
    /\ UNCHANGED <<running, prLsi, rlrLsi>>

-----------------------------------------------------------------------------
(* iwdgStart()                                                              *)

ValidArguments(p, r) == p <= MaxPr /\ r <= MaxRlr

iwdgStart(p, r) ==
    \/ /\ ~ValidArguments(p, r)
       /\ Answer("iwdgStart", "INVALID_PARAM", FALSE)
       /\ UNCHANGED <<registerVars, lsiVars, argVars, historyVars>>
    \/ /\ ValidArguments(p, r)
       /\ Enter("iwdgStart", "start", FALSE)
       /\ argPr' = p /\ argRlr' = r
       /\ restarted' = (restarted \/ running)
       /\ promised' = Least(promised, Timeout(p, r))
       /\ UNCHANGED <<registerVars, lsiVars, bitten, elapsed>>

StoreStart ==
    /\ at = "start"
    /\ GoTo("unlock", TRUE)
    /\ KeyStart
    /\ UNCHANGED <<pr, rlr, pvu, rvu, argVars, bitten, promised>>

StoreUnlock ==
    /\ at = "unlock"
    /\ GoTo("pollOld", TRUE)
    /\ KeyEnableAccess
    /\ UNCHANGED <<pr, rlr, pvu, rvu, argVars, bitten, promised>>

\* iwdgWaitUpdates(), between the places of one of its two calls.  A call that
\* times out leaves the values unknown (iwdg.h), so nothing is promised.
WaitUpdates(poll, recheck, next) ==
    /\ UNCHANGED <<registerVars, lsiVars, argVars, bitten, elapsed>>
    /\ \/ /\ at = poll
          /\ Poll(~pvu /\ ~rvu, recheck)
          /\ UNCHANGED promised
       \/ /\ at = recheck
          /\ Recheck(~pvu /\ ~rvu, next)
          /\ promised' = IF pvu \/ rvu THEN 0 ELSE promised

\* Mutant: PR and RLR are written without waiting for the previous update.
WaitOldSkipped ==
    /\ at = "pollOld"
    /\ GoTo("pr", FALSE)
    /\ UNCHANGED <<registerVars, lsiVars, argVars, historyVars>>

WaitOld == WaitUpdates("pollOld", "recheckOld", "pr")

\* A store to PR or RLR is ignored while locked or while its update runs.
StorePr ==
    /\ at = "pr"
    /\ GoTo("rlr", TRUE)
    /\ LET taken == unlocked /\ ~pvu
       IN  /\ pr' = IF taken THEN argPr ELSE pr
           /\ pvu' = (pvu \/ taken)
    /\ UNCHANGED <<running, unlocked, rlr, rvu, lsiVars, argVars, historyVars>>

StoreRlr ==
    /\ at = "rlr"
    /\ GoTo("pollNew", TRUE)
    /\ LET taken == unlocked /\ ~rvu
       IN  /\ rlr' = IF taken THEN argRlr ELSE rlr
           /\ rvu' = (rvu \/ taken)
    /\ UNCHANGED <<running, unlocked, pr, pvu, lsiVars, argVars, historyVars>>

\* Mutant: the refresh does not wait for RLR to reach the LSI domain.
WaitNewSkipped ==
    /\ at = "pollNew"
    /\ GoTo("refresh", FALSE)
    /\ UNCHANGED <<registerVars, lsiVars, argVars, historyVars>>

WaitNew == WaitUpdates("pollNew", "recheckNew", "refresh")

FinalRefresh ==
    /\ at = "refresh"
    /\ Return("OK", TRUE)
    /\ KeyReload
    /\ promised' = Timeout(argPr, argRlr)
    /\ UNCHANGED <<pr, rlr, pvu, rvu, argVars, bitten>>

-----------------------------------------------------------------------------
\* iwdgRefresh(), one store: from the context that starts the watchdog, or from
\* an interrupt in the middle of iwdgStart().
iwdgRefresh ==
    /\ KeyReload
    /\ UNCHANGED <<callVars, pr, rlr, pvu, rvu, argVars, bitten, promised>>

-----------------------------------------------------------------------------
(* The hardware.                                                            *)

\* A pending value reaches the LSI domain, while the LSI runs.
PrTaken ==
    /\ pvu /\ running
    /\ pvu' = FALSE
    /\ prLsi' = pr
    /\ UNCHANGED <<callVars, running, unlocked, pr, rlr, rvu, rlrLsi, counter,
                   phase, argVars, historyVars>>

RlrTaken ==
    /\ rvu /\ running
    /\ rvu' = FALSE
    /\ rlrLsi' = rlr
    /\ UNCHANGED <<callVars, running, unlocked, pr, rlr, pvu, prLsi, counter,
                   phase, argVars, historyVars>>

CountDue == phase + 1 >= Divider[prLsi]

\* One LSI cycle; the count after 0 resets the chip.
LsiCycle ==
    /\ running
    /\ elapsed' = elapsed + 1
    /\ phase' = IF CountDue THEN 0 ELSE phase + 1
    /\ counter' = IF CountDue /\ counter > 0 THEN counter - 1 ELSE counter
    /\ bitten' = (CountDue /\ counter = 0)
    /\ UNCHANGED <<callVars, registerVars, prLsi, rlrLsi, argVars, promised>>

\* The chip starts over, whatever the program was in the middle of.
Reboot ==
    /\ CallReset
    /\ running' = FALSE /\ unlocked' = FALSE
    /\ pr' = 0 /\ rlr' = MaxRlr
    /\ pvu' = FALSE /\ rvu' = FALSE
    /\ prLsi' = 0 /\ rlrLsi' = MaxRlr
    /\ counter' = MaxRlr /\ phase' = 0
    /\ argPr' = 0 /\ argRlr' = MaxRlr
    /\ restarted' = FALSE
    /\ bitten' = FALSE
    /\ elapsed' = 0
    /\ promised' = Timeout(0, MaxRlr)

-----------------------------------------------------------------------------
MayStart == Restarts \/ ~running
MayRefresh == Idle \/ IsrRefreshes

Driver ==
    \/ StoreStart \/ StoreUnlock \/ WaitOld \/ StorePr
    \/ StoreRlr \/ WaitNew \/ FinalRefresh

Program ==
    \/ \E p \in 0..(MaxPr + 1), r \in 0..(MaxRlr + 1) : MayStart /\ iwdgStart(p, r)
    \/ MayRefresh /\ iwdgRefresh
    \/ Driver

Next ==
    \/ ~bitten /\ (Program \/ PrTaken \/ RlrTaken \/ LsiCycle)
    \/ bitten /\ Reboot

Spec == Init /\ [][Next]_vars

-----------------------------------------------------------------------------
Places == {"start", "unlock", "pollOld", "recheckOld", "pr", "rlr",
           "pollNew", "recheckNew", "refresh"}

TypeOK ==
    /\ CallTypeOK({"iwdgStart"}, Places)
    /\ {running, unlocked, pvu, rvu, restarted, bitten} \subseteq BOOLEAN
    /\ {pr, prLsi, argPr} \subseteq 0..MaxPr
    /\ {rlr, rlrLsi, argRlr, counter} \subseteq 0..MaxRlr
    /\ {phase, elapsed, promised} \subseteq Nat

(* iwdgStart() == OK means what iwdg.h says: "Running with the new values,  *)
(* just refreshed".  Both values have reached the LSI domain, the counter   *)
(* was loaded from the new reload value, and PR and RLR are locked again -  *)
(* also when an earlier call gave up on an update that was still going on.  *)
StartOkInEffect ==
    (Idle /\ status = "OK") =>
        /\ running /\ ~unlocked
        /\ ~pvu /\ ~rvu
        /\ prLsi = argPr /\ rlrLsi = argRlr
        /\ counter <= argRlr

(* iwdg.h: "PR and RLR only take a new value while the LSI runs": an update *)
(* is never begun before the LSI is on, when it could not end.              *)
UpdatesOnlyWhileLsiRuns == (pvu \/ rvu) => running

(* A watchdog that is refreshed in time does not bite: the chip is not      *)
(* reset before the timeout in force has passed since the last refresh; in  *)
(* the middle of iwdgStart(), the shorter one of the old and the new        *)
(* (iwdg.h 39, 49).  It holds for a watchdog that is started once per boot, *)
(* as docs/DESIGN.md has it ("One context, once"), and not for one that is  *)
(* started again: a faster prescaler meets what is left of the old count.   *)
StartedOnceNeverBitesEarly == (bitten /\ ~restarted) => elapsed >= promised
=============================================================================
