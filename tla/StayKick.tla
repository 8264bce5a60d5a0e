--------------------------------- MODULE StayKick ---------------------------------
(***************************************************************************)
(* "Stay or leave" of one newcomer: the direct message of the join has two *)
(* buttons, one of which schedules a kick with a reminder before it.       *)
(*                                                                         *)
(*   infrastructure/discord/cogs/staykick.py         join, buttons, loop   *)
(*   infrastructure/db/repositories/staykick.py      the row of the kick   *)
(***************************************************************************)
EXTENDS Integers

CONSTANTS MaxJoins, MaxFaults \* bounds

VARIABLES
    inside,  \* the member is on the server
    cached,  \* the bot has heard that they are
    enabled, \* staykick_enabled of the server
    buttons, \* direct messages whose buttons have not been pressed
    row,     \* pending_kicks: "none", "waiting", "due to remind", "reminded", "due"
    popped,  \* the loop has taken the row and is saying goodbye
    reminding,
    wish,    \* history: what the member pressed last since joining: "none", "stay", "leave"
    torn,    \* history: the wish was formed after the loop took the row, or
             \* the row is of an earlier stay
    broken,  \* history: a kick that was taken was not carried out
    up, joins, faults

doing == <<popped, reminding>>
server == <<inside, cached, enabled>>
kickVars == <<server, buttons, row, doing, wish, torn, broken, up, joins, faults>>

Init ==
    /\ inside = FALSE /\ cached = FALSE /\ enabled = TRUE /\ buttons = 0
    /\ row = "none" /\ popped = FALSE /\ reminding = FALSE
    /\ wish = "none" /\ torn = FALSE /\ broken = FALSE /\ up = TRUE
    /\ joins = 0 /\ faults = 0

Fault == faults < MaxFaults /\ faults' = faults + 1

(* on_member_join; the message may not get through, or not be for this     *)
(* server's tier, and the bot may miss that somebody joined.               *)
Join ==
    /\ ~inside /\ joins < MaxJoins
    /\ inside' = TRUE /\ joins' = joins + 1 /\ wish' = "none"
    /\ torn' = (row # "none" \/ popped)
    /\ \/ up /\ cached' = TRUE /\ UNCHANGED faults
          /\ \/ enabled /\ buttons' = buttons + 1
             \/ UNCHANGED buttons
       \/ up /\ Fault /\ UNCHANGED <<cached, buttons>>
       \/ ~up /\ UNCHANGED <<cached, buttons, faults>>
    /\ UNCHANGED <<enabled, row, doing, broken, up>>

(* Whoever goes keeps the message and the row.                             *)
Depart ==
    /\ inside /\ inside' = FALSE /\ cached' = FALSE
    /\ UNCHANGED <<enabled, buttons, row, doing, wish, torn, broken, up, joins, faults>>

(* What the bot has missed it hears when it is told of the members again;  *)
(* an administrator turns the module on and off.                           *)
Hear ==
    /\ up /\ inside /\ ~cached /\ cached' = TRUE
    /\ UNCHANGED <<inside, enabled, buttons, row, doing, wish, torn, broken, up, joins, faults>>
Toggle ==
    /\ enabled' = ~enabled
    /\ UNCHANGED <<inside, cached, buttons, row, doing, wish, torn, broken, up, joins, faults>>

(* on_stay and on_leave; the buttons of the pressed message go, unless     *)
(* Discord refuses the edit.                                               *)
Press(button) ==
    /\ up /\ buttons > 0
    /\ \/ buttons' = buttons - 1 /\ UNCHANGED faults
       \/ UNCHANGED buttons /\ Fault
    /\ wish' = button
    /\ row' = IF button = "stay" THEN "none" ELSE "waiting"
    /\ torn' = popped
    /\ UNCHANGED <<server, doing, broken, up, joins>>

RemindTime ==
    /\ row = "waiting" /\ row' = "due to remind"
    /\ UNCHANGED <<server, buttons, doing, wish, torn, broken, up, joins, faults>>
KickTime ==
    /\ row \in {"waiting", "due to remind", "reminded"} /\ row' = "due"
    /\ UNCHANGED <<server, buttons, doing, wish, torn, broken, up, joins, faults>>

-----------------------------------------------------------------------------
(* The loop: reminders are marked in the transaction that reads them, due  *)
(* kicks are deleted in theirs, before anything is sent.                   *)
Removed == "none"  \* mutant
Marked == "reminded"
TakeReminder ==
    /\ up /\ ~reminding /\ ~popped /\ row = "due to remind"
    /\ row' = Marked /\ reminding' = TRUE
    /\ UNCHANGED <<server, buttons, popped, wish, torn, broken, up, joins, faults>>
Remind ==
    /\ reminding /\ reminding' = FALSE
    /\ UNCHANGED <<server, buttons, row, popped, wish, torn, broken, up, joins, faults>>

Pop ==
    /\ up /\ ~reminding /\ ~popped /\ row = "due"
    /\ row' = "none" /\ popped' = TRUE
    /\ UNCHANGED <<server, buttons, reminding, wish, torn, broken, up, joins, faults>>

(* The member is told goodbye and kicked. If the module is off by now, or  *)
(* the bot has not heard of the member, the kick that was taken is dropped.*)
Kicked == inside' = FALSE /\ cached' = FALSE
Kick ==
    /\ popped /\ popped' = FALSE
    /\ \/ enabled /\ cached /\ Kicked /\ UNCHANGED <<faults, broken>>
       \/ enabled /\ cached /\ Fault /\ broken' = TRUE /\ UNCHANGED <<inside, cached>>
       \/ /\ ~enabled \/ ~cached
          /\ broken' = (broken \/ inside) /\ UNCHANGED <<inside, cached, faults>>
    /\ UNCHANGED <<enabled, buttons, row, reminding, wish, torn, up, joins>>

Crash ==
    /\ up /\ up' = FALSE /\ cached' = FALSE /\ Fault
    /\ popped' = FALSE /\ reminding' = FALSE
    /\ broken' = (broken \/ popped)
    /\ UNCHANGED <<inside, enabled, buttons, row, wish, torn, joins>>
(* The bot is told of the members as it starts, or gets no answer in time. *)
Restart ==
    /\ ~up /\ up' = TRUE
    /\ \/ cached' = inside /\ UNCHANGED faults
       \/ Fault /\ UNCHANGED cached
    /\ UNCHANGED <<inside, enabled, buttons, row, doing, wish, torn, broken, joins>>

Next ==
    \/ Join \/ Depart \/ Hear \/ Toggle \/ \E b \in {"stay", "leave"} : Press(b)
    \/ RemindTime \/ KickTime \/ TakeReminder \/ Remind \/ Pop \/ Kick \/ Crash \/ Restart

Spec == Init /\ [][Next]_kickVars

Fairness ==
    /\ WF_kickVars(KickTime) /\ WF_kickVars(Pop) /\ WF_kickVars(Kick) /\ WF_kickVars(Remind)
    /\ WF_kickVars(Restart)

TypeOK ==
    /\ {inside, cached, enabled} \subseteq BOOLEAN /\ buttons \in 0 .. MaxJoins
    /\ row \in {"none", "waiting", "due to remind", "reminded", "due"}
    /\ popped \in BOOLEAN /\ reminding \in BOOLEAN
    /\ wish \in {"none", "stay", "leave"} /\ torn \in BOOLEAN /\ broken \in BOOLEAN
    /\ up \in BOOLEAN /\ joins \in 0 .. MaxJoins /\ faults \in 0 .. MaxFaults

-----------------------------------------------------------------------------
(* Nobody is kicked who did not choose to leave ("Ничего не нажал —        *)
(* остаётся"), unless the answer came while the loop was already at it, or *)
(* the member has come back and not answered again.                        *)
OthersStay ==
    [][popped /\ ~popped' /\ inside /\ ~inside' /\ ~torn => wish = "leave"]_kickVars

(* Who chose to leave does leave, or says otherwise, unless a kick that    *)
(* was taken was refused, died with the bot, or was dropped because the    *)
(* module was off or the bot had not heard of the member; and nobody else  *)
(* is kicked.                                                              *)
LeaversGo ==
    /\ wish = "leave" /\ inside ~> wish # "leave" \/ ~inside \/ broken
    /\ OthersStay
===============================================================================
