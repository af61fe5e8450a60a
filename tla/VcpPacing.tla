----------------------------- MODULE VcpPacing -----------------------------
(***************************************************************************)
(* What a VCP sender promises the network, without rounds of ACKs, timers  *)
(* or load states.  It has a window of its own and one that TCP sends by.  *)
(* Its own it may move freely between a base that it renews from time to   *)
(* time and a cap relative to that base, or raise to the one TCP sends by; *)
(* only by a cut of the factor Beta may it go (further) below the base;    *)
(* and after every cut it stands still for a whole estimation interval, so *)
(* that routers can measure the effect before the sender reacts again.     *)
(*                                                                         *)
(* Whenever it moves its window TCP sends by it.  TCP itself may go back   *)
(* to a window that it has saved, once for each time it has saved one, and *)
(* as long as the connection has not begun to the initial one.             *)
(***************************************************************************)
EXTENDS Integers

CONSTANTS EstInterval, Res, Beta, MaxIncrease, SegSize, InitWindow

VARIABLES
    w,      \* the window of the sender, in 1/Res bytes
    sent,   \* the window TCP sends by, in bytes
    saved,  \* the window TCP may go back to, in bytes, or Nothing
    base,   \* what increases are measured against, in bytes
    begun,  \* the first ACK has arrived
    age     \* time since the last cut, saturated at EstInterval

pvars == <<w, sent, saved, base, begun, age>>

Nothing == -1

Cap ==
    LET mul == base * MaxIncrease
        add == (base + SegSize) * Res
    IN  IF mul > add THEN mul ELSE add

Bottom == IF w < base * Res THEN w ELSE base * Res

Init ==
    /\ w = InitWindow * Res
    /\ sent = InitWindow
    /\ saved = Nothing
    /\ base = InitWindow
    /\ begun = FALSE
    /\ age = EstInterval

\* What the sender makes of the window f that TCP sends by.
Stand(f) ==
    /\ w' = w /\ sent' = f
    /\ UNCHANGED <<base, age>>

Adjust(f) ==
    /\ age = EstInterval
    /\ w' \in Bottom..Cap \/ (f >= base + SegSize /\ w' = f * Res)
    /\ sent' = w' \div Res
    /\ UNCHANGED <<base, age>>

Cut ==
    /\ age = EstInterval
    /\ w' = (w * Beta) \div Res
    /\ sent' = w' \div Res
    /\ age' = 0
    /\ UNCHANGED base

Move(f) == Stand(f) \/ Adjust(f) \/ Cut

\* What TCP does with its saved window in the same step.
Go == Move(sent) /\ saved' = saved

Save == begun /\ Move(sent) /\ saved = Nothing /\ saved' = w \div Res

Forget == Move(sent) /\ saved' = Nothing

Restore == saved # Nothing /\ Move(saved) /\ saved' = Nothing

Act == (Go \/ Save \/ Forget \/ Restore) /\ (begun => begun')

Restart ==
    /\ ~begun
    /\ Stand(InitWindow)
    /\ UNCHANGED <<saved, begun>>

Rebase ==
    /\ base' = w \div Res
    /\ UNCHANGED <<w, sent, saved, begun, age>>

Elapse ==
    /\ age < EstInterval
    /\ age' = age + 1
    /\ UNCHANGED <<w, sent, saved, base, begun>>

Next == Act \/ Restart \/ Rebase \/ Elapse

Spec == Init /\ [][Next]_pvars
=============================================================================
