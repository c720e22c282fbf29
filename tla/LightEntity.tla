---------------------------- MODULE LightEntity ----------------------------
(***************************************************************************)
(* The light entity: FermobLight between Home Assistant, which asks it for a *)
(* brightness and a colour, and a lamp that has a button of its own.        *)
(*                                                                         *)
(* What the entity shows comes from two places, its own commands and the    *)
(* pushes of the lamp, and the two cross: a command is worked out when it is *)
(* asked for, waits for the lock, is written, and is shown when the write   *)
(* has returned, while pushes are shown as they come. How the connection is  *)
(* made, and in which order pushes come out of it, is for FermobConnection   *)
(* and AckChannel: here the lock serves the calls in turn and pushes arrive  *)
(* in the order they were sent.                                             *)
(***************************************************************************)
EXTENDS Integers, Sequences

CONSTANTS
  Brightnesses,  \* brightness a call may name, of Home Assistant's 1..255
  Kelvins,       \* colour temperatures a call may name
  Pressed,       \* <<level, warm>>: what the lamp's button brings about
  TiesUp,        \* <<n, d>>: quotients halfway between two integers that
                 \* floating-point arithmetic and round() take to the upper one
  None,          \* an argument the call leaves out
  MaxCalls,      \* bound: service calls in one behaviour
  MaxPresses,    \* bound: presses of the lamp's button
  MaxFaults      \* bound: links lost, sessions dead, calls failed or cancelled, reloads

MinKelvin == 3000
MaxKelvin == 6000
DefaultKelvin == 4000
DefaultBrightness == 128

ASSUME InputAssumption ==
  /\ Brightnesses \subseteq 1..255
  /\ Kelvins \subseteq Nat
  /\ None \notin Brightnesses \union Kelvins
  /\ \A p \in Pressed : p[1] \in 0..100 /\ p[2] \in 0..p[1]
ASSUME BoundsAssumption == MaxCalls \in Nat /\ MaxPresses \in Nat /\ MaxFaults \in Nat

VARIABLES
  kind,     \* _light_type: tw (tunable white) or dw (dimmable white)
  echoes,   \* whether this lamp pushes what a command of ours has changed
  attr,     \* the attributes Home Assistant shows
  calls,    \* calls waiting for the lock, with what they computed
  holder,   \* the call that has been written and not returned
  lamp,     \* the lamp: its light, and a number for the state it is in
  link,     \* up, down, or dead: up by every measure, and ignored by the lamp
  air,      \* pushes on their way, in order
  lit,      \* history: the last light the lamp gave, and its number
  told,     \* history: the numbers of the state, and of the light, that attr is from
  excused,  \* history: something went past the entity since it last agreed
  spent     \* calls, presses and faults so far

vars == <<kind, echoes, attr, calls, holder, lamp, link, air, lit, told, excused, spent>>

-----------------------------------------------------------------------------
(* Conversions between Home Assistant's numbers and the lamp's. *)

\* round(n / d)
Nearest(n, d) ==
  LET twice == 2 * (n % d) IN
  IF twice > d \/ (twice = d /\ <<n, d>> \in TiesUp) THEN n \div d + 1 ELSE n \div d

\* A turn_on is never sent as zero percent.
Percent(brightness) ==
  LET p == Nearest(brightness * 100, 255) IN IF p = 0 THEN 1 ELSE p

Clamped(kelvin) ==
  IF kelvin < MinKelvin THEN MinKelvin ELSE IF kelvin > MaxKelvin THEN MaxKelvin ELSE kelvin

\* The warm channel's share of a level: mixing is linear in mired, 10^6 / kelvin, and
\* the cold end of the range is twice the warm one.
WarmShare(level, kelvin) == Nearest(level * (MaxKelvin - kelvin), kelvin)

\* Mutant: the colour is interpolated in kelvin.
KelvinLinear(level, warm) == MaxKelvin - Nearest((MaxKelvin - MinKelvin) * warm, level)

\* warm_ratio_to_kelvin(), of the warm channel's share of a level.
KelvinOf(level, warm) == Nearest(MaxKelvin * level, level + warm)

BrightnessOf(level) == Nearest(level * 255, 100)

\* build_led_payload() as the lamp takes it: the two channels add up to the level.
Light(on, brightness, kelvin) ==
  LET level == IF on THEN Percent(brightness) ELSE 0 IN
  [on |-> on, level |-> level, warm |-> IF kind = "tw" THEN WarmShare(level, kelvin) ELSE 0]

-----------------------------------------------------------------------------
\* A call: what it sends, whether it named a brightness and a colour, the number of the
\* light its entity knew of when it was made, and of the state it brought about.
NoCall ==
  [on |-> FALSE, brightness |-> 0, kelvin |-> 0, dims |-> FALSE, tints |-> FALSE,
   from |-> 0, wrote |-> 0]

NewAttr ==
  [on |-> FALSE, brightness |-> DefaultBrightness, kelvin |-> DefaultKelvin, available |-> TRUE]

PressedLight(p) ==
  [on |-> p[1] > 0, level |-> p[1], warm |-> IF kind = "tw" THEN p[2] ELSE 0]

Numbered(light, n) == [on |-> light.on, level |-> light.level, warm |-> light.warm, number |-> n]

\* A new entity, and a lamp in a state it knows nothing of.
Init ==
  /\ kind \in {"tw", "dw"}
  /\ echoes \in BOOLEAN
  /\ attr = NewAttr
  /\ calls = <<>>
  /\ holder = NoCall
  /\ \E p \in Pressed : lamp = Numbered(PressedLight(p), 1) /\ lit = lamp
  /\ link = "down"
  /\ air = <<>>
  /\ told = [state |-> 0, light |-> 0]
  /\ excused = TRUE
  /\ spent = [calls |-> 0, presses |-> 0, faults |-> 0]

Fault == spent.faults < MaxFaults /\ spent' = [spent EXCEPT !.faults = @ + 1]

\* Nothing is under way between Home Assistant, the entity and the lamp.
Quiet == calls = <<>> /\ holder = NoCall /\ air = <<>>

\* Whether something has gone past the entity, until it agrees with the lamp again.
Excused(missed) ==
  excused' = ((excused \/ missed) /\ ~(Quiet' /\ told'.state = lamp'.number))

\* The lamp changes to this light, and is in a new state.
Becomes(light) ==
  /\ lamp' = Numbered(light, lamp.number + 1)
  /\ lit' = IF light.on THEN lamp' ELSE lit

\* The link is gone, and maybe the pushes that were under way.
LinkLost == link' = "down" /\ air' \in {air, <<>>}

-----------------------------------------------------------------------------
(* Calls. Home Assistant drops a call on an unavailable entity. *)

Ask(call) ==
  /\ attr.available
  /\ spent.calls < MaxCalls
  /\ spent' = [spent EXCEPT !.calls = @ + 1]
  /\ calls' = Append(calls, call)
  /\ UNCHANGED <<kind, echoes, attr, holder, lamp, link, air, lit, told>>
  /\ Excused(FALSE)

\* Mutant: a call that names no brightness takes the default one.
ForgetfulBrightness(named) == IF named = None THEN DefaultBrightness ELSE named

\* What a turn_on uses for a brightness it was not given is what the entity shows then.
BrightnessFor(named) == IF named = None THEN attr.brightness ELSE named

KelvinFor(named) == Clamped(IF named = None THEN attr.kelvin ELSE named)

\* async_turn_on() up to the lock. A dimmable lamp is asked for no colour.
TurnOn(brightness, kelvin) ==
  /\ kind = "dw" => kelvin = None
  /\ Ask([on |-> TRUE, brightness |-> BrightnessFor(brightness), kelvin |-> KelvinFor(kelvin),
          dims |-> brightness # None, tints |-> kelvin # None, from |-> told.light, wrote |-> 0])

\* async_turn_off() up to the lock.
TurnOff ==
  Ask([NoCall EXCEPT !.brightness = attr.brightness, !.kelvin = attr.kelvin, !.from = told.light])

\* The first in the queue gets the lock and a link, and writes. A dead session swallows the
\* command. A push that was on its way is shown after this command, unless the lamp
\* answers the command with one of its own.
Write ==
  /\ holder = NoCall /\ calls # <<>>
  /\ calls' = Tail(calls)
  /\ LET call == Head(calls) IN
     \/ /\ link # "dead"
        /\ link' = "up"
        /\ Becomes(Light(call.on, call.brightness, call.kelvin))
        /\ holder' = [call EXCEPT !.wrote = lamp'.number]
        /\ air' = IF echoes THEN Append(air, lamp') ELSE air
     \/ /\ link = "dead"
        /\ holder' = call
        /\ UNCHANGED <<lamp, link, air, lit>>
  /\ UNCHANGED <<kind, echoes, attr, told, spent>>
  /\ Excused(link = "dead" \/ (air # <<>> /\ ~echoes))

\* The attributes after a command that was sent.
ShownAfter(call) ==
  [attr EXCEPT !.on = call.on, !.brightness = call.brightness, !.kelvin = call.kelvin,
               !.available = TRUE]

\* The write has returned, and the entity shows what it sent. A turn_off leaves brightness
\* and colour as they are now.
Finish ==
  /\ holder # NoCall
  /\ holder' = NoCall
  /\ attr' = IF holder.on THEN ShownAfter(holder) ELSE [attr EXCEPT !.on = FALSE, !.available = TRUE]
  /\ told' = [state |-> holder.wrote, light |-> IF holder.on THEN holder.wrote ELSE told.light]
  /\ UNCHANGED <<kind, echoes, calls, lamp, link, air, lit, spent>>
  /\ Excused(FALSE)

\* Mutant: the failure is logged, and the entity shows what it asked for.
ShownAnyway ==
  LET call == IF holder = NoCall THEN Head(calls) ELSE holder IN
  [attr EXCEPT !.on = call.on, !.brightness = call.brightness, !.available = FALSE]

\* A command that fails changes nothing but the availability.
ShownOnFailure == [attr EXCEPT !.available = FALSE]

\* No link, or a write that raises before or after it has reached the lamp: the link is
\* dropped. Only a push can still tell what the lamp was made to do.
Fail ==
  /\ Fault
  /\ \/ holder = NoCall /\ calls # <<>> /\ calls' = Tail(calls) /\ UNCHANGED holder
     \/ holder # NoCall /\ holder' = NoCall /\ UNCHANGED calls
  /\ attr' = ShownOnFailure
  /\ LinkLost
  /\ UNCHANGED <<kind, echoes, lamp, lit, told>>
  /\ Excused(air' # air \/ (holder # NoCall /\ ~echoes))

\* The queue without its call at i.
Without(i) == [j \in 1..(Len(calls) - 1) |-> IF j < i THEN calls[j] ELSE calls[j + 1]]

\* A call is cancelled where it waits for the lock, for its link or for its write to return:
\* no Exception, so the entity shows nothing of it and the link stays as it is.
Cancel ==
  /\ Fault
  /\ \/ /\ \E i \in 1..Len(calls) :
             /\ calls' = Without(i)
             /\ link' \in IF i = 1 /\ holder = NoCall /\ link = "down" THEN {"down", "up"} ELSE {link}
        /\ UNCHANGED holder
     \/ holder # NoCall /\ holder' = NoCall /\ UNCHANGED <<calls, link>>
  /\ UNCHANGED <<kind, echoes, attr, lamp, air, lit, told>>
  /\ Excused(holder # holder' /\ ~echoes)

-----------------------------------------------------------------------------
(* Pushes *)

\* on_lamp_state_change(): a lamp that is off reports no level, and the last one is kept.
ShownFrom(push) ==
  [attr EXCEPT !.on = push.on, !.available = TRUE,
     !.brightness = IF push.level > 0 THEN BrightnessOf(push.level) ELSE @,
     !.kelvin = IF kind = "tw" /\ push.level > 0 THEN KelvinOf(push.level, push.warm) ELSE @]

Dispatch ==
  /\ air # <<>>
  /\ air' = Tail(air)
  /\ LET push == Head(air) IN
     /\ attr' = ShownFrom(push)
     /\ told' = [state |-> push.number,
                 light |-> IF push.level > 0 THEN push.number ELSE told.light]
  /\ UNCHANGED <<kind, echoes, calls, holder, lamp, link, lit, spent>>
  /\ Excused(FALSE)

\* The lamp's button. It pushes only what someone is connected for, and what a command
\* that has not returned overwrites is as good as not seen.
Press(p) ==
  /\ spent.presses < MaxPresses
  /\ spent' = [spent EXCEPT !.presses = @ + 1]
  /\ Becomes(PressedLight(p))
  /\ air' = IF link = "up" THEN Append(air, lamp') ELSE air
  /\ UNCHANGED <<kind, echoes, attr, calls, holder, link, told>>
  /\ Excused(link # "up" \/ holder # NoCall)

-----------------------------------------------------------------------------
(* The connection, as the entity meets it. *)

\* on_check_in_result(): the check-in has a proven link, or reports that it has none.
CheckIn ==
  /\ holder = NoCall
  /\ \/ /\ link' = "up"
        /\ attr' = [attr EXCEPT !.available = TRUE]
        /\ UNCHANGED <<air, spent>>
     \/ /\ Fault
        /\ LinkLost
        /\ attr' = [attr EXCEPT !.available = FALSE]
  /\ UNCHANGED <<kind, echoes, calls, holder, lamp, lit, told>>
  /\ Excused(air' # air)

\* The link drops, or is given back when idle: pushes under way may be lost with it.
LinkEnds ==
  /\ link # "down" /\ Fault
  /\ LinkLost
  /\ UNCHANGED <<kind, echoes, attr, calls, holder, lamp, lit, told>>
  /\ Excused(air' # air)

SessionDies ==
  /\ link = "up" /\ Fault
  /\ link' = "dead"
  /\ UNCHANGED <<kind, echoes, attr, calls, holder, lamp, air, lit, told>>
  /\ Excused(FALSE)

\* A reload makes a new entity, which knows nothing of the lamp.
Reload ==
  /\ holder = NoCall /\ calls = <<>> /\ Fault
  /\ attr' = NewAttr
  /\ told' = [state |-> 0, light |-> 0]
  /\ link' = "down"
  /\ air' = <<>>
  /\ UNCHANGED <<kind, echoes, calls, holder, lamp, lit>>
  /\ Excused(TRUE)

Next ==
  \/ \E b \in Brightnesses \union {None}, k \in Kelvins \union {None} : TurnOn(b, k)
  \/ TurnOff \/ Write \/ Finish \/ Fail \/ Cancel \/ Dispatch
  \/ \E p \in Pressed : Press(p)
  \/ CheckIn \/ LinkEnds \/ SessionDies \/ Reload

Spec == Init /\ [][Next]_vars

-----------------------------------------------------------------------------
(* Properties *)

\* "The light entity can be trusted to follow the lamp": when nothing is under way, it
\* shows what the lamp does, as exactly as the lamp's numbers allow. Excused is a change
\* nobody was connected for, one lost with its link or swallowed by a dead session, one
\* that crossed a command, and one by a command that failed or was cancelled after it had
\* reached the lamp, if the lamp does not push what commands change.
FollowsLamp ==
  Quiet /\ ~excused =>
    /\ told.state = lamp.number
    /\ attr.on = lamp.on
    /\ lamp.on => Light(TRUE, attr.brightness, attr.kelvin)
                    = [on |-> TRUE, level |-> lamp.level, warm |-> lamp.warm]

\* The brightness and colour the entity keeps for its next turn_on, whether the lamp is on
\* or off, are those of the light they come from: no conversion there and back loses any
\* of it, and no later state, off or failed, changes them.
LightRemembered ==
  told.light = lit.number =>
    Light(TRUE, attr.brightness, attr.kelvin)
      = [on |-> TRUE, level |-> lit.level, warm |-> lit.warm]

\* A call that does not name the brightness leaves it at the lamp as it was when the lamp
\* was last lit, and one that names nothing leaves the colour, too: unless the lamp had
\* another light since the call was made, or the entity had not heard of that one.
RestKept ==
  [][holder' # holder /\ holder'.on /\ holder'.wrote = lamp'.number /\ holder'.from = lit.number =>
       /\ ~holder'.dims => lamp'.level = lit.level
       /\ ~holder'.dims /\ ~holder'.tints => lamp'.warm = lit.warm]_vars
=============================================================================
