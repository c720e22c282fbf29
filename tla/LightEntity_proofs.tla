-------------------------- MODULE LightEntity_proofs --------------------------
(***************************************************************************)
(* Theorems about LightEntity, for every brightness and colour a call may    *)
(* name, every light the lamp's button can bring about, every way the halves *)
(* are rounded, and any number of calls, presses and faults.                *)
(*                                                                         *)
(* What makes them hold: there and back, the conversions are exact; and      *)
(* whatever carries a light about, a push on its way, a call that waits, a   *)
(* call that was written, the attributes, carries the lamp's last light or   *)
(* one that has been replaced since.                                        *)
(***************************************************************************)
EXTENDS LightEntity, TLAPS

-----------------------------------------------------------------------------
(* The conversions *)

\* Nearest is off by half a divisor at most.
LEMMA NearestBounds ==
  ASSUME NEW n \in Nat, NEW d \in Nat \ {0}, NEW q, q = Nearest(n, d)
  PROVE  q \in Nat /\ 2 * (q * d) - d <= 2 * n /\ 2 * n <= 2 * (q * d) + d
<1>1. n = d * (n \div d) + (n % d) /\ n \div d \in Nat /\ n % d \in 0..(d - 1)
  OBVIOUS
<1>2. q \in {n \div d, n \div d + 1}
  BY DEF Nearest
<1>3. (n \div d + 1) * d = d * (n \div d) + d /\ (n \div d) * d = d * (n \div d)
  BY <1>1
<1>4. CASE q = n \div d
  <2>1. 2 * (n % d) <= d
    BY <1>1, <1>4 DEF Nearest
  <2> QED
    BY <1>1, <1>3, <1>4, <2>1
<1>5. CASE q = n \div d + 1
  <2>1. 2 * (n % d) >= d
    BY <1>1, <1>5 DEF Nearest
  <2> QED
    BY <1>1, <1>3, <1>5, <2>1
<1> QED
  BY <1>2, <1>4, <1>5

\* Half a step of brightness is less than half a percent, so the second rounding undoes the
\* first.
LEMMA LevelKept ==
  ASSUME NEW level \in 1..100
  PROVE  BrightnessOf(level) \in 1..255 /\ Percent(BrightnessOf(level)) = level
<1> DEFINE b == BrightnessOf(level)
           p == Nearest(b * 100, 255)
<1>1. b \in Nat /\ 2 * (b * 100) - 100 <= 2 * (level * 255) /\ 2 * (level * 255) <= 2 * (b * 100) + 100
  BY NearestBounds DEF BrightnessOf
<1>2. p \in Nat /\ 2 * (p * 255) - 255 <= 2 * (b * 100) /\ 2 * (b * 100) <= 2 * (p * 255) + 255
  <2> HIDE DEF b
  <2> QED
    BY <1>1, NearestBounds
<1>3. b \in 1..255 /\ p = level
  <2> HIDE DEF b, p
  <2> QED
    BY <1>1, <1>2
<1> QED
  BY <1>3 DEF Percent

\* Half a kelvin moves the warm channel by a thirtieth of a percent at most.
LEMMA WarmthKept ==
  ASSUME NEW level \in 1..100, NEW warm \in 0..level
  PROVE  /\ KelvinOf(level, warm) \in MinKelvin..MaxKelvin
         /\ WarmShare(level, KelvinOf(level, warm)) = warm
<1> DEFINE k == KelvinOf(level, warm)
           s == level + warm
           w == WarmShare(level, k)
<1>1. k \in Nat /\ 2 * (k * s) - s <= 12000 * level /\ 12000 * level <= 2 * (k * s) + s
  <2>1. 6000 * level \in Nat /\ s \in Nat \ {0}
    OBVIOUS
  <2> QED
    BY <2>1, NearestBounds DEF KelvinOf, MaxKelvin
<1>2. k \in Nat /\ 3000 <= k /\ k <= 6000
  <2> HIDE DEF k
  <2>1. ASSUME k <= 2999 PROVE FALSE
    <3>1. k * s <= 2999 * s
      BY <1>1, <2>1
    <3> QED
      BY <1>1, <3>1
  <2>2. ASSUME k >= 6001 PROVE FALSE
    <3>1. k * s >= 6001 * s
      BY <1>1, <2>2
    <3> QED
      BY <1>1, <3>1
  <2> QED
    BY <1>1, <2>1, <2>2
<1>3. w \in Nat /\ 2 * (w * k) - k <= 2 * (level * (6000 - k)) /\ 2 * (level * (6000 - k)) <= 2 * (w * k) + k
  <2> HIDE DEF k
  <2>1. level * (6000 - k) \in Nat
    BY <1>2
  <2> QED
    BY <1>2, <2>1, NearestBounds DEF WarmShare, MaxKelvin
<1>4. w = warm
  <2> HIDE DEF k, w
  <2> DEFINE cold == level * k
             own == warm * k
             back == w * k
  <2>1. level * (6000 - k) = 6000 * level - cold /\ k * s = cold + own
       /\ w * k = back
    BY <1>2
  <2>2. cold \in Int /\ own \in Int /\ back \in Int /\ s \in 1..200
    BY <1>2, <1>3
  <2>3. w <= warm - 1 => back <= own - k
    BY <1>2, <1>3
  <2>4. w >= warm + 1 => back >= own + k
    BY <1>2, <1>3
  <2> HIDE DEF cold, own, back, s
  <2>5. own - back <= k - 1 /\ back - own <= k - 1
    BY <1>1, <1>2, <1>3, <2>1, <2>2
  <2> QED
    BY <1>2, <1>3, <2>2, <2>3, <2>4, <2>5
<1> QED
  BY <1>2, <1>4 DEF MinKelvin, MaxKelvin

-----------------------------------------------------------------------------
(* The inductive invariant, in parts *)

Lights == {l \in [on : BOOLEAN, level : 0..100, warm : 0..100, number : Nat \ {0}] :
             l.warm <= l.level /\ (l.on <=> l.level > 0)}

Calls ==
  [on : BOOLEAN, brightness : 1..255, kelvin : MinKelvin..MaxKelvin, dims : BOOLEAN,
   tints : BOOLEAN, from : Nat, wrote : Nat]

TypeInv ==
  /\ kind \in {"tw", "dw"}
  /\ attr \in [on : BOOLEAN, brightness : 1..255, kelvin : MinKelvin..MaxKelvin,
               available : BOOLEAN]
  /\ calls \in Seq(Calls)
  /\ holder \in Calls \union {NoCall}
  /\ lamp \in Lights /\ lit \in Lights
  /\ air \in Seq(Lights)
  /\ told \in [state : Nat, light : Nat]
  /\ excused \in BOOLEAN

\* Gives(b, k, l): a command for brightness and colour brings about this light.
Gives(b, k, l) == Light(TRUE, b, k) = [on |-> TRUE, level |-> l.level, warm |-> l.warm]

\* States are numbered, the last light is no later than the state, and is it when the lamp
\* is on.
Numbers ==
  /\ told.state <= lamp.number
  /\ told.light <= lit.number /\ lit.number <= lamp.number
  /\ lamp.on => lit = lamp
  /\ kind = "dw" => lamp.warm = 0 /\ lit.warm = 0

\* A push tells of a state the lamp was in.
Pushes ==
  \A i \in 1..Len(air) :
    /\ air[i].number <= lamp.number
    /\ air[i].number = lamp.number => air[i] = lamp
    /\ air[i].level > 0 => air[i].number <= lit.number
    /\ air[i].number = lit.number => air[i] = lit
    /\ kind = "dw" => air[i].warm = 0

\* A call that waits still knows the light of its from, or the lamp has had another.
StillKnows(c) ==
  /\ c.wrote = 0 /\ c.from <= lit.number
  /\ c.on /\ c.from = lit.number =>
       /\ ~c.dims => Percent(c.brightness) = lit.level
       /\ ~c.dims /\ ~c.tints /\ kind = "tw" => WarmShare(lit.level, c.kelvin) = lit.warm

Queue == \A i \in 1..Len(calls) : StillKnows(calls[i])

\* The call in the lock brought about the state it wrote, if it did.
Written ==
  /\ holder.wrote <= lamp.number
  /\ holder.on => holder.wrote <= lit.number
  /\ holder.on /\ holder.wrote = lit.number => Gives(holder.brightness, holder.kelvin, lit)
  /\ holder.wrote = lamp.number => holder.on = lamp.on

\* The attributes are those of the state and of the light they are from.
Shown ==
  /\ told.light = lit.number => Gives(attr.brightness, attr.kelvin, lit)
  /\ told.state = lamp.number => attr.on = lamp.on /\ (lamp.on => told.light = lamp.number)

\* Unless something went past the entity, the last word it will hear is of the lamp as it is;
\* of a command that has not returned, this is the lamp's own push, if it sends one.
Ahead ==
  ~excused =>
    /\ air # <<>> => air[Len(air)].number = lamp.number
    /\ holder # NoCall => holder.wrote = lamp.number
    /\ air = <<>> /\ (holder = NoCall \/ echoes) => told.state = lamp.number

IInv == TypeInv /\ Numbers /\ Pushes /\ Queue /\ Written /\ Shown /\ Ahead

-----------------------------------------------------------------------------
(* What a light is made of *)

Lamplights ==
  {l \in [on : BOOLEAN, level : 0..100, warm : 0..100] :
     /\ l.warm <= l.level
     /\ l.on <=> l.level > 0
     /\ kind = "dw" => l.warm = 0}

LEMMA PercentRange ==
  ASSUME NEW b \in 1..255
  PROVE  Percent(b) \in 1..100
<1> DEFINE p == Nearest(b * 100, 255)
<1>1. p \in Nat /\ 2 * (p * 255) - 255 <= 2 * (b * 100) /\ 2 * (b * 100) <= 2 * (p * 255) + 255
  <2>1. b * 100 \in Nat
    OBVIOUS
  <2> QED
    BY <2>1, NearestBounds
<1> HIDE DEF p
<1>2. p \in 0..100
  BY <1>1
<1> QED
  BY <1>2 DEF Percent, p

LEMMA WarmShareRange ==
  ASSUME NEW level \in 0..100, NEW k \in MinKelvin..MaxKelvin
  PROVE  WarmShare(level, k) \in 0..level
<1> DEFINE w == WarmShare(level, k)
           cold == level * k
           back == w * k
<1>1. k \in Nat /\ 3000 <= k /\ k <= 6000
  BY DEF MinKelvin, MaxKelvin
<1>2. level * (6000 - k) \in Nat /\ level * (6000 - k) = 6000 * level - cold /\ cold \in Nat
      /\ cold >= 3000 * level
  BY <1>1
<1>3. w \in Nat /\ 2 * (w * k) - k <= 2 * (level * (6000 - k))
  <2> DEFINE n == level * (6000 - k)
  <2>1. w = Nearest(n, k) /\ n \in Nat /\ k \in Nat \ {0}
    BY <1>1, <1>2 DEF WarmShare, MaxKelvin
  <2> HIDE DEF n, w
  <2>2. w \in Nat /\ 2 * (w * k) - k <= 2 * n
    BY <2>1, NearestBounds
  <2> QED
    BY <2>2 DEF n
<1>4. w >= level + 1 => back >= cold + k
  BY <1>1, <1>3
<1>5. back = w * k /\ back \in Nat
  BY <1>1, <1>3
<1> HIDE DEF w, cold, back
<1>6. 2 * back - k <= 2 * (6000 * level - cold)
  BY <1>2, <1>3, <1>5
<1>7. w \in 0..level
  BY <1>1, <1>2, <1>3, <1>4, <1>5, <1>6
<1> QED
  BY <1>7 DEF w

LEMMA LightRange ==
  ASSUME NEW on \in BOOLEAN, NEW b \in 1..255, NEW k \in MinKelvin..MaxKelvin
  PROVE  Light(on, b, k) \in Lamplights /\ Light(on, b, k).on = on
<1>1. Percent(b) \in 1..100
  BY PercentRange
<1>2. \A level \in 0..100 : WarmShare(level, k) \in 0..level
  BY WarmShareRange
<1> QED
  BY <1>1, <1>2 DEF Light, Lamplights

LEMMA PressedRange ==
  ASSUME NEW p \in Pressed
  PROVE  PressedLight(p) \in Lamplights
<1>1. p[1] \in 0..100 /\ p[2] \in 0..p[1]
  BY InputAssumption
<1> DEFINE level == p[1]
           on == p[1] > 0
           warm == IF kind = "tw" THEN p[2] ELSE 0
           light == PressedLight(p)
<1>2. light = [on |-> on, level |-> level, warm |-> warm]
  BY DEF PressedLight
<1>3. /\ on \in BOOLEAN /\ (on <=> level > 0)
      /\ level \in 0..100 /\ warm \in 0..level /\ (kind = "dw" => warm = 0)
  BY <1>1
<1> HIDE DEF on, level, warm, light
<1>4. light.on = on /\ light.level = level /\ light.warm = warm
  BY <1>2
<1>5. light \in [on : BOOLEAN, level : 0..100, warm : 0..100]
  BY <1>2, <1>3
<1>6. light \in Lamplights
  BY <1>3, <1>4, <1>5 DEF Lamplights
<1> QED
  BY <1>6 DEF light

\* What a push makes the entity show gives the light it told of.
LEMMA PushRoundTrip ==
  ASSUME TypeInv, NEW push \in Lights, push.level > 0, kind = "dw" => push.warm = 0,
         NEW b, NEW k,
         b = BrightnessOf(push.level), kind = "tw" => k = KelvinOf(push.level, push.warm)
  PROVE  Gives(b, k, push)
<1>1. push.level \in 1..100 /\ push.warm \in 0..push.level
  BY DEF Lights
<1>2. Percent(b) = push.level
  BY <1>1, LevelKept
<1>3. kind = "tw" => WarmShare(push.level, k) = push.warm
  BY <1>1, WarmthKept
<1> QED
  BY <1>2, <1>3 DEF Gives, Light, TypeInv

LEMMA BecomesEffect ==
  ASSUME TypeInv, Numbers, NEW light \in Lamplights, Becomes(light), kind' = kind
  PROVE  /\ lamp' \in Lights /\ lit' \in Lights
         /\ lamp'.number = lamp.number + 1
         /\ lamp'.on = light.on /\ lamp'.level = light.level /\ lamp'.warm = light.warm
         /\ lit' = IF light.on THEN lamp' ELSE lit
         /\ kind = "dw" => lamp'.warm = 0
<1>1. lamp' = [on |-> light.on, level |-> light.level, warm |-> light.warm,
               number |-> lamp.number + 1]
  BY DEF Becomes, Numbered
<1>2. lit' = IF light.on THEN lamp' ELSE lit
  BY DEF Becomes
<1>3. lamp.number \in Nat \ {0} /\ lit \in Lights
  BY DEF TypeInv, Lights
<1>4. lamp' \in Lights
  BY <1>1, <1>3 DEF Lights, Lamplights
<1> QED
  BY <1>1, <1>2, <1>3, <1>4 DEF Lamplights

LEMMA ExcusedMeans ==
  ASSUME TypeInv, NEW missed \in BOOLEAN, Excused(missed)
  PROVE  /\ excused' \in BOOLEAN
         /\ ~excused' => \/ ~excused /\ ~missed
                         \/ /\ air' = <<>> /\ holder' = NoCall
                            /\ told'.state = lamp'.number
BY DEF TypeInv, Excused, Quiet

-----------------------------------------------------------------------------
(* What keeps each part of the invariant. *)

LEMMA NumbersSame ==
  ASSUME Numbers, UNCHANGED <<kind, lamp, lit, told>>
  PROVE  Numbers'
BY DEF Numbers

LEMMA PushesSame ==
  ASSUME Pushes, UNCHANGED <<kind, lamp, lit>>, air' \in {air, <<>>}
  PROVE  Pushes'
<1>1. CASE air' = air
  BY <1>1 DEF Pushes
<1>2. CASE air' = <<>>
  BY <1>2 DEF Pushes
<1> QED
  BY <1>1, <1>2

LEMMA QueueSame ==
  ASSUME Queue, UNCHANGED <<kind, lit, calls>>
  PROVE  Queue'
BY DEF Queue, StillKnows

LEMMA WrittenSame ==
  ASSUME Written, UNCHANGED <<kind, lamp, lit, holder>>
  PROVE  Written'
BY DEF Written, Gives, Light

LEMMA ShownSame ==
  ASSUME Shown, UNCHANGED <<kind, lamp, lit, told>>,
         attr'.on = attr.on, attr'.brightness = attr.brightness, attr'.kelvin = attr.kelvin
  PROVE  Shown'
BY DEF Shown, Gives, Light

LEMMA AheadSame ==
  ASSUME TypeInv, Ahead, UNCHANGED <<echoes, lamp, told>>, holder' \in {holder, NoCall},
         NEW missed \in BOOLEAN, Excused(missed),
         air' = air \/ missed, holder' = holder \/ echoes \/ missed
  PROVE  Ahead'
<1>1. \/ ~excused' => ~excused /\ ~missed
      \/ air' = <<>> /\ holder' = NoCall /\ told'.state = lamp'.number
  BY ExcusedMeans
<1>2. CASE excused' \/ (air' = <<>> /\ holder' = NoCall /\ told'.state = lamp'.number)
  BY <1>2 DEF Ahead
<1>3. CASE ~excused' /\ ~excused /\ ~missed
  BY <1>3 DEF Ahead
<1> QED
  BY <1>1, <1>2, <1>3

LEMMA NumbersBecomes ==
  ASSUME TypeInv, Numbers, NEW light \in Lamplights, Becomes(light), kind' = kind, told' = told
  PROVE  Numbers'
<1>1. /\ lamp' \in Lights /\ lit' \in Lights /\ lamp'.number = lamp.number + 1
      /\ lamp'.on = light.on /\ lit' = IF light.on THEN lamp' ELSE lit
      /\ kind' = "dw" => lamp'.warm = 0
  BY BecomesEffect
<1>2. /\ told.state \in Nat /\ told.light \in Nat /\ lamp.number \in Nat /\ lit.number \in Nat
      /\ lamp'.number \in Nat
  BY <1>1 DEF TypeInv, Lights
<1>3. /\ told.state <= lamp.number /\ told.light <= lit.number /\ lit.number <= lamp.number
  BY DEF Numbers
<1>4. lit'.number \in {lit.number, lamp'.number}
  BY <1>1
<1>5. told'.state <= lamp'.number /\ told'.light <= lit'.number /\ lit'.number <= lamp'.number
  BY <1>1, <1>2, <1>3, <1>4
<1>6. lamp'.on => lit' = lamp'
  BY <1>1
<1>7. kind' = "dw" => lamp'.warm = 0 /\ lit'.warm = 0
  BY <1>1 DEF Numbers
<1> QED
  BY <1>5, <1>6, <1>7 DEF Numbers

LEMMA PushesBecomes ==
  ASSUME TypeInv, Numbers, Pushes, NEW light \in Lamplights, Becomes(light), kind' = kind,
         air' \in {air, Append(air, lamp')}
  PROVE  Pushes'
<1>1. /\ lamp' \in Lights /\ lit' \in Lights /\ lamp'.number = lamp.number + 1
      /\ lamp'.on = light.on /\ lit' = IF light.on THEN lamp' ELSE lit
      /\ kind' = "dw" => lamp'.warm = 0
  BY BecomesEffect
<1>2. ASSUME NEW push \in Lights,
             /\ push.number <= lamp.number
             /\ push.number = lamp.number => push = lamp
             /\ push.level > 0 => push.number <= lit.number
             /\ push.number = lit.number => push = lit
      PROVE  /\ push.number <= lamp'.number
             /\ push.number = lamp'.number => push = lamp'
             /\ push.level > 0 => push.number <= lit'.number
             /\ push.number = lit'.number => push = lit'
  BY <1>1, <1>2 DEF TypeInv, Numbers, Lights
<1>3. /\ lamp'.level > 0 => lamp'.number <= lit'.number
      /\ lamp'.number = lit'.number => lamp' = lit'
  BY <1>1 DEF TypeInv, Numbers, Lights
<1>4. air \in Seq(Lights)
  BY DEF TypeInv
<1>5. \A i \in 1..Len(air) :
        /\ air[i].number <= lamp'.number
        /\ air[i].number = lamp'.number => air[i] = lamp'
        /\ air[i].level > 0 => air[i].number <= lit'.number
        /\ air[i].number = lit'.number => air[i] = lit'
        /\ kind' = "dw" => air[i].warm = 0
  BY <1>2, <1>4 DEF Pushes
<1>6. CASE air' = air
  BY <1>5, <1>6 DEF Pushes
<1>7. CASE air' = Append(air, lamp')
  <2>1. Len(air') = Len(air) + 1 /\ air'[Len(air) + 1] = lamp'
        /\ \A i \in 1..Len(air) : air'[i] = air[i]
    BY <1>1, <1>4, <1>7
  <2>2. \A i \in 1..Len(air') : i \in 1..Len(air) \/ i = Len(air) + 1
    BY <1>4, <2>1
  <2>3. lamp'.number <= lamp'.number
    BY <1>1 DEF Lights
  <2> QED
    BY <1>1, <1>3, <1>5, <2>1, <2>2, <2>3 DEF Pushes
<1> QED
  BY <1>6, <1>7

LEMMA QueueBecomes ==
  ASSUME TypeInv, Numbers, Queue, NEW light \in Lamplights, Becomes(light), kind' = kind,
         \/ calls' = calls
         \/ calls # <<>> /\ calls' = Tail(calls)
  PROVE  Queue'
<1>1. lit' = lit \/ lit'.number = lamp.number + 1
  BY BecomesEffect
<1>2. lit.number <= lamp.number /\ lamp.number \in Nat /\ lit.number \in Nat
  BY DEF TypeInv, Numbers, Lights
<1>3. calls \in Seq(Calls) /\ \A i \in 1..Len(calls) : calls[i].from \in Nat
  <2>1. calls \in Seq(Calls)
    BY DEF TypeInv
  <2>2. \A i \in 1..Len(calls) : calls[i] \in Calls
    BY <2>1
  <2> QED
    BY <2>1, <2>2 DEF Calls
<1>4. \A i \in 1..Len(calls') : \E j \in 1..Len(calls) : calls'[i] = calls[j]
  BY <1>3
<1>5. ASSUME NEW c \in Calls, StillKnows(c) PROVE StillKnows(c)'
  <2>1. CASE lit' = lit
    BY <1>5, <2>1 DEF StillKnows
  <2>2. CASE lit'.number = lamp.number + 1
    <3>1. c.from \in Nat
      BY <1>5 DEF Calls
    <3> QED
      BY <1>2, <1>5, <2>2, <3>1 DEF StillKnows
  <2> QED
    BY <1>1, <2>1, <2>2
<1> SUFFICES ASSUME NEW i \in 1..Len(calls') PROVE StillKnows(calls[i])'
  BY DEF Queue
<1>6. PICK j \in 1..Len(calls) : calls'[i] = calls[j]
  BY <1>4
<1>7. calls[j] \in Calls /\ StillKnows(calls[j])
  BY <1>3 DEF Queue
<1> QED
  BY <1>5, <1>6, <1>7 DEF StillKnows

LEMMA ShownBecomes ==
  ASSUME TypeInv, Numbers, Shown, NEW light \in Lamplights, Becomes(light),
         UNCHANGED <<kind, attr, told>>
  PROVE  Shown'
<1>1. /\ lamp'.number = lamp.number + 1
      /\ lit' = lit \/ lit'.number = lamp.number + 1
  BY BecomesEffect
<1>2. told.state <= lamp.number /\ told.light <= lit.number /\ lit.number <= lamp.number
      /\ lamp.number \in Nat /\ lit.number \in Nat /\ told.state \in Nat /\ told.light \in Nat
  BY DEF TypeInv, Numbers, Lights
<1>3. told'.state # lamp'.number
  BY <1>1, <1>2
<1>4. CASE lit' = lit
  BY <1>3, <1>4 DEF Shown, Gives, Light
<1>5. CASE lit'.number = lamp.number + 1
  BY <1>2, <1>3, <1>5 DEF Shown
<1> QED
  BY <1>1, <1>4, <1>5

-----------------------------------------------------------------------------
(* The steps *)

LEMMA InitIInv == Init => IInv
<1> SUFFICES ASSUME Init PROVE IInv
  OBVIOUS
<1>1. PICK p \in Pressed : lamp = Numbered(PressedLight(p), 1) /\ lit = lamp
  BY DEF Init
<1>2. PressedLight(p) \in Lamplights
  BY PressedRange
<1>3. lamp \in Lights /\ lit = lamp /\ lamp.number = 1 /\ (kind = "dw" => lamp.warm = 0)
  BY <1>1, <1>2 DEF Numbered, Lights, Lamplights
<1>4. attr \in [on : BOOLEAN, brightness : 1..255, kelvin : MinKelvin..MaxKelvin,
                available : BOOLEAN]
  BY DEF Init, NewAttr, DefaultBrightness, DefaultKelvin, MinKelvin, MaxKelvin
<1>5. /\ calls = <<>> /\ air = <<>> /\ holder = NoCall /\ excused = TRUE
      /\ told = [state |-> 0, light |-> 0] /\ kind \in {"tw", "dw"}
  BY DEF Init
<1>6. TypeInv
  BY <1>3, <1>4, <1>5 DEF TypeInv
<1>7. Numbers /\ Pushes /\ Queue
  BY <1>3, <1>5 DEF Numbers, Pushes, Queue
<1>8. Written /\ Shown /\ Ahead
  BY <1>3, <1>5 DEF Written, Shown, Ahead, NoCall
<1> QED
  BY <1>6, <1>7, <1>8 DEF IInv

LEMMA AskStep ==
  ASSUME IInv, NEW call \in Calls, Ask(call), StillKnows(call)
  PROVE  IInv'
<1>1. UNCHANGED <<kind, echoes, attr, holder, lamp, air, lit, told>> /\ calls' = Append(calls, call)
  BY DEF Ask
<1>2. TypeInv'
  <2>1. calls' \in Seq(Calls)
    BY <1>1 DEF IInv, TypeInv
  <2>2. excused' \in BOOLEAN
    BY ExcusedMeans DEF IInv, Ask
  <2> QED
    BY <1>1, <2>1, <2>2 DEF IInv, TypeInv
<1>3. Queue'
  <2>1. calls \in Seq(Calls)
    BY DEF IInv, TypeInv
  <2> SUFFICES ASSUME NEW i \in 1..Len(calls') PROVE StillKnows(calls[i])'
    BY DEF Queue
  <2>2. \/ calls'[i] = call
        \/ i \in 1..Len(calls) /\ calls'[i] = calls[i]
    BY <1>1, <2>1
  <2>3. StillKnows(calls'[i])
    BY <2>2 DEF IInv, Queue
  <2> QED
    BY <1>1, <2>3 DEF StillKnows
<1>4. Numbers' /\ Pushes' /\ Written' /\ Shown'
  BY <1>1, NumbersSame, PushesSame, WrittenSame, ShownSame DEF IInv
<1>5. Ahead'
  BY <1>1, AheadSame DEF IInv, Ask
<1> QED
  BY <1>2, <1>3, <1>4, <1>5 DEF IInv

LEMMA TurnOnStep ==
  ASSUME IInv, NEW b \in Brightnesses \union {None}, NEW k \in Kelvins \union {None}, TurnOn(b, k)
  PROVE  IInv'
<1> DEFINE call == [on |-> TRUE, brightness |-> BrightnessFor(b), kelvin |-> KelvinFor(k),
                    dims |-> b # None, tints |-> k # None, from |-> told.light, wrote |-> 0]
<1>1. attr.brightness \in 1..255 /\ attr.kelvin \in MinKelvin..MaxKelvin /\ told.light \in Nat
  BY DEF IInv, TypeInv
<1>2. BrightnessFor(b) \in 1..255 /\ (b = None => BrightnessFor(b) = attr.brightness)
  BY <1>1, InputAssumption DEF BrightnessFor
<1>3. /\ KelvinFor(k) \in MinKelvin..MaxKelvin
      /\ k = None => KelvinFor(k) = attr.kelvin
  <2>1. MinKelvin = 3000 /\ MaxKelvin = 6000
    BY DEF MinKelvin, MaxKelvin
  <2>2. attr.kelvin \in Nat /\ attr.kelvin >= MinKelvin /\ attr.kelvin <= MaxKelvin
    <3>1. \A kelvin \in MinKelvin..MaxKelvin :
            kelvin \in Nat /\ kelvin >= MinKelvin /\ kelvin <= MaxKelvin
      BY DEF MinKelvin, MaxKelvin
    <3> QED
      BY <1>1, <3>1
  <2>3. \A kelvin \in Nat : Clamped(kelvin) \in MinKelvin..MaxKelvin
    BY <2>1 DEF Clamped
  <2>4. CASE k = None
    <3>1. KelvinFor(k) = attr.kelvin
      BY <2>1, <2>2, <2>4 DEF KelvinFor, Clamped
    <3> QED
      BY <1>1, <3>1
  <2>5. CASE k # None
    <3>1. k \in Nat
      BY <2>5, InputAssumption
    <3> QED
      BY <2>3, <2>5, <3>1 DEF KelvinFor
  <2> QED
    BY <2>4, <2>5
<1>4. (b # None) \in BOOLEAN /\ (k # None) \in BOOLEAN
  OBVIOUS
<1>5. call \in Calls
  BY <1>1, <1>2, <1>3, <1>4 DEF Calls
<1>6. told.light = lit.number => /\ Percent(attr.brightness) = lit.level
                                 /\ kind = "tw" => WarmShare(lit.level, attr.kelvin) = lit.warm
  BY DEF IInv, Shown, Gives, Light
<1>7. /\ call.brightness = BrightnessFor(b) /\ call.kelvin = KelvinFor(k)
      /\ call.from = told.light /\ call.wrote = 0
      /\ ~call.dims => b = None
      /\ ~call.tints => k = None
  OBVIOUS
<1>8. Ask(call)
  BY DEF TurnOn
<1> HIDE DEF call
<1>9. StillKnows(call)
  BY <1>2, <1>3, <1>6, <1>7 DEF IInv, Numbers, StillKnows
<1> QED
  BY <1>5, <1>8, <1>9, AskStep

LEMMA TurnOffStep ==
  ASSUME IInv, TurnOff
  PROVE  IInv'
<1> DEFINE call == [NoCall EXCEPT !.brightness = attr.brightness, !.kelvin = attr.kelvin,
                                  !.from = told.light]
<1>1. attr.brightness \in 1..255 /\ attr.kelvin \in MinKelvin..MaxKelvin /\ told.light \in Nat
  BY DEF IInv, TypeInv
<1>2. call.on = FALSE /\ call.wrote = 0 /\ call.from = told.light
  BY DEF NoCall
<1>3. Ask(call)
  BY DEF TurnOff
<1>4. call \in Calls
  BY <1>1 DEF Calls, NoCall
<1> HIDE DEF call
<1>5. StillKnows(call)
  BY <1>2 DEF IInv, Numbers, StillKnows
<1> QED
  BY <1>3, <1>4, <1>5, AskStep

LEMMA PressStep ==
  ASSUME IInv, NEW p \in Pressed, Press(p)
  PROVE  IInv'
<1> DEFINE light == PressedLight(p)
<1>1. /\ UNCHANGED <<kind, echoes, attr, calls, holder, told>> /\ Becomes(light)
      /\ air' = IF link = "up" THEN Append(air, lamp') ELSE air
      /\ Excused(link # "up" \/ holder # NoCall)
  BY DEF Press
<1>2. light \in Lamplights
  BY PressedRange
<1> HIDE DEF light
<1>3. /\ lamp' \in Lights /\ lit' \in Lights /\ lamp'.number = lamp.number + 1
      /\ lamp'.on = light.on /\ lit' = IF light.on THEN lamp' ELSE lit
  BY <1>1, <1>2, BecomesEffect DEF IInv
<1>4. /\ excused' \in BOOLEAN
      /\ ~excused' => \/ ~excused /\ link = "up" /\ holder = NoCall
                      \/ /\ air' = <<>> /\ holder' = NoCall
                         /\ told'.state = lamp'.number
  <2>1. (link # "up" \/ holder # NoCall) \in BOOLEAN
    OBVIOUS
  <2> QED
    BY <1>1, <2>1, ExcusedMeans DEF IInv
<1>5. air' \in Seq(Lights) /\ (link = "up" => air' # <<>> /\ air'[Len(air')] = lamp')
  <2>1. air \in Seq(Lights)
    BY DEF IInv, TypeInv
  <2>2. CASE link = "up"
    BY <1>1, <1>3, <2>1, <2>2
  <2>3. CASE link # "up"
    BY <1>1, <2>1, <2>3
  <2> QED
    BY <2>2, <2>3
<1>6. TypeInv'
  BY <1>1, <1>3, <1>4, <1>5 DEF IInv, TypeInv
<1>7. Numbers' /\ Pushes' /\ Queue' /\ Shown'
  BY <1>1, <1>2, NumbersBecomes, PushesBecomes, QueueBecomes, ShownBecomes DEF IInv
<1>8. Written'
  <2>1. /\ holder.wrote \in Nat /\ lamp.number \in Nat /\ lit.number \in Nat
        /\ lit.number <= lamp.number
    BY DEF IInv, TypeInv, Calls, NoCall, Lights, Numbers
  <2>2. holder.wrote <= lamp.number /\ (holder.on => holder.wrote <= lit.number)
        /\ (holder.on /\ holder.wrote = lit.number => Gives(holder.brightness, holder.kelvin, lit))
    BY DEF IInv, Written
  <2>3. CASE lit' = lit
    <3>1. Gives(holder.brightness, holder.kelvin, lit)
            => Gives(holder.brightness, holder.kelvin, lit)'
      BY <1>1, <2>3 DEF Gives, Light
    <3> QED
      BY <1>1, <1>3, <2>1, <2>2, <2>3, <3>1 DEF Written
  <2>4. CASE lit' = lamp'
    BY <1>1, <1>3, <2>1, <2>2, <2>4 DEF Written
  <2> QED
    BY <1>3, <2>3, <2>4
<1>9. Ahead'
  BY <1>1, <1>4, <1>5 DEF Ahead
<1> QED
  BY <1>6, <1>7, <1>8, <1>9 DEF IInv

\* What a call writes, and what of it RestKept is about.
LEMMA WriteStep ==
  ASSUME IInv, Write
  PROVE  /\ IInv'
         /\ holder'.on /\ holder'.wrote = lamp'.number /\ holder'.from = lit.number =>
              /\ ~holder'.dims => lamp'.level = lit.level
              /\ ~holder'.dims /\ ~holder'.tints => lamp'.warm = lit.warm
<1> DEFINE call == Head(calls)
           light == Light(call.on, call.brightness, call.kelvin)
<1>1. /\ holder = NoCall /\ calls # <<>> /\ calls' = Tail(calls)
      /\ UNCHANGED <<kind, echoes, attr, told>>
      /\ Excused(link = "dead" \/ (air # <<>> /\ ~echoes))
  BY DEF Write
<1>2. calls \in Seq(Calls) /\ kind \in {"tw", "dw"}
  BY DEF IInv, TypeInv
<1>3. /\ call \in Calls /\ StillKnows(call) /\ calls' \in Seq(Calls)
      /\ \A i \in 1..Len(calls') : calls'[i] = calls[i + 1] /\ i + 1 \in 1..Len(calls)
  <2>1. call = calls[1] /\ 1 \in 1..Len(calls)
    BY <1>1, <1>2
  <2> QED
    BY <1>1, <1>2, <2>1 DEF IInv, Queue
<1>4. light \in Lamplights /\ light.on = call.on
  <2>1. call.on \in BOOLEAN /\ call.brightness \in 1..255 /\ call.kelvin \in MinKelvin..MaxKelvin
    BY <1>3 DEF Calls
  <2> QED
    BY <2>1, LightRange
<1>5. /\ excused' \in BOOLEAN
      /\ ~excused' => \/ ~excused /\ link # "dead" /\ (air # <<>> => echoes)
                      \/ /\ air' = <<>> /\ holder' = NoCall
                         /\ told'.state = lamp'.number
  <2>1. (link = "dead" \/ (air # <<>> /\ ~echoes)) \in BOOLEAN
    OBVIOUS
  <2> QED
    BY <1>1, <2>1, ExcusedMeans DEF IInv
<1>6. CASE /\ link # "dead"
           /\ Becomes(light)
           /\ holder' = [call EXCEPT !.wrote = lamp'.number]
           /\ air' = IF echoes THEN Append(air, lamp') ELSE air
  <2>1. call.on => light = [on |-> TRUE, level |-> Percent(call.brightness),
                            warm |-> IF kind = "tw"
                                     THEN WarmShare(Percent(call.brightness), call.kelvin) ELSE 0]
    BY DEF Light
  <2>2. call.on => Gives(call.brightness, call.kelvin, light)
    BY <2>1 DEF Gives, Light
  <2> HIDE DEF light, call
  <2>3. /\ lamp' \in Lights /\ lit' \in Lights /\ lamp'.number = lamp.number + 1
        /\ lamp'.on = light.on /\ lamp'.level = light.level /\ lamp'.warm = light.warm
        /\ lit' = IF light.on THEN lamp' ELSE lit
    BY <1>1, <1>4, <1>6, BecomesEffect DEF IInv
  <2>4. lamp'.number \in Nat /\ lamp'.number # 0
    BY <2>3 DEF Lights
  <2>5. /\ holder' \in Calls /\ holder'.wrote = lamp'.number
        /\ holder'.on = call.on /\ holder'.brightness = call.brightness
        /\ holder'.kelvin = call.kelvin /\ holder'.from = call.from
        /\ holder'.dims = call.dims /\ holder'.tints = call.tints
    BY <1>3, <1>6, <2>4 DEF Calls
  <2>6. air' \in Seq(Lights) /\ (echoes => air' # <<>> /\ air'[Len(air')] = lamp')
    <3>1. air \in Seq(Lights)
      BY DEF IInv, TypeInv
    <3>2. CASE echoes
      BY <1>6, <2>3, <3>1, <3>2
    <3>3. CASE ~echoes
      BY <1>6, <3>1, <3>3
    <3> QED
      BY <3>2, <3>3
  <2>7. TypeInv'
    BY <1>1, <1>3, <1>5, <2>3, <2>5, <2>6 DEF IInv, TypeInv
  <2>8. Numbers' /\ Pushes' /\ Queue' /\ Shown'
    BY <1>1, <1>4, <1>6, NumbersBecomes, PushesBecomes, QueueBecomes, ShownBecomes DEF IInv
  <2>9. Written'
    <3>1. lit.number <= lamp.number /\ lamp.number \in Nat /\ lit.number \in Nat
      BY DEF IInv, Numbers, TypeInv, Lights
    <3>2. CASE call.on
      <4>1. lit' = lamp'
        BY <1>4, <2>3, <3>2
      <4>2. Gives(holder.brightness, holder.kelvin, lit)'
        BY <1>1, <2>2, <2>3, <2>5, <3>2, <4>1 DEF Gives, Light
      <4> QED
        BY <1>4, <2>3, <2>4, <2>5, <3>2, <4>1, <4>2 DEF Written
    <3>3. CASE ~call.on
      BY <1>3, <1>4, <2>3, <2>4, <2>5, <3>3 DEF Written, Calls
    <3> QED
      BY <3>2, <3>3
  <2>10. Ahead'
    BY <1>1, <1>5, <1>6, <2>4, <2>5, <2>6 DEF Ahead, NoCall
  <2>11. holder'.on /\ holder'.from = lit.number =>
           /\ ~holder'.dims => lamp'.level = lit.level
           /\ ~holder'.dims /\ ~holder'.tints => lamp'.warm = lit.warm
    <3> SUFFICES ASSUME call.on, call.from = lit.number, ~call.dims
                 PROVE  /\ lamp'.level = lit.level
                        /\ ~call.tints => lamp'.warm = lit.warm
      BY <2>5
    <3>1. Percent(call.brightness) = lit.level
      BY <1>3 DEF StillKnows
    <3>2. light.level = lit.level
          /\ light.warm = IF kind = "tw" THEN WarmShare(lit.level, call.kelvin) ELSE 0
      BY <2>1, <3>1
    <3>3. CASE kind = "tw"
      BY <1>3, <2>3, <3>2, <3>3 DEF StillKnows
    <3>4. CASE kind = "dw"
      BY <2>3, <3>2, <3>4 DEF IInv, Numbers
    <3> QED
      BY <1>2, <3>3, <3>4
  <2> QED
    BY <2>7, <2>8, <2>9, <2>10, <2>11 DEF IInv
<1>7. CASE link = "dead" /\ holder' = call /\ UNCHANGED <<lamp, air, lit>>
  <2> HIDE DEF call
  <2>1. TypeInv'
    BY <1>1, <1>3, <1>5, <1>7 DEF IInv, TypeInv
  <2>2. Queue'
    <3> SUFFICES ASSUME NEW i \in 1..Len(calls') PROVE StillKnows(calls[i])'
      BY DEF Queue
    <3>1. StillKnows(calls'[i])
      BY <1>3 DEF IInv, Queue
    <3> QED
      BY <1>1, <1>7, <3>1 DEF StillKnows
  <2>3. Numbers' /\ Pushes' /\ Shown'
    BY <1>1, <1>7, NumbersSame, PushesSame, ShownSame DEF IInv
  <2>4. call.wrote = 0 /\ lamp.number \in Nat \ {0} /\ lit.number \in Nat \ {0}
    BY <1>3 DEF IInv, TypeInv, Lights, StillKnows
  <2>5. Written'
    BY <1>7, <2>4 DEF Written
  <2>6. Ahead'
    BY <1>1, <1>5, <1>7 DEF Ahead
  <2> QED
    BY <1>7, <2>1, <2>2, <2>3, <2>4, <2>5, <2>6 DEF IInv
<1> QED
  BY <1>6, <1>7 DEF Write

LEMMA FinishStep ==
  ASSUME IInv, Finish
  PROVE  IInv'
<1>1. /\ holder # NoCall /\ holder' = NoCall
      /\ attr' = IF holder.on THEN ShownAfter(holder)
                 ELSE [attr EXCEPT !.on = FALSE, !.available = TRUE]
      /\ told' = [state |-> holder.wrote, light |-> IF holder.on THEN holder.wrote ELSE told.light]
      /\ UNCHANGED <<kind, echoes, calls, lamp, air, lit>>
      /\ Excused(FALSE)
  BY DEF Finish
<1>2. holder \in Calls
  BY <1>1 DEF IInv, TypeInv
<1>3. /\ holder.on \in BOOLEAN /\ holder.brightness \in 1..255
      /\ holder.kelvin \in MinKelvin..MaxKelvin /\ holder.wrote \in Nat
  BY <1>2 DEF Calls
<1>4. /\ attr'.on = holder.on
      /\ holder.on => attr'.brightness = holder.brightness /\ attr'.kelvin = holder.kelvin
      /\ ~holder.on => attr'.brightness = attr.brightness /\ attr'.kelvin = attr.kelvin
      /\ attr' \in [on : BOOLEAN, brightness : 1..255, kelvin : MinKelvin..MaxKelvin,
                    available : BOOLEAN]
  <2>1. attr \in [on : BOOLEAN, brightness : 1..255, kelvin : MinKelvin..MaxKelvin,
                  available : BOOLEAN]
    BY DEF IInv, TypeInv
  <2>2. CASE holder.on
    <3>1. attr' = [attr EXCEPT !.on = holder.on, !.brightness = holder.brightness,
                               !.kelvin = holder.kelvin, !.available = TRUE]
      BY <1>1, <2>2 DEF ShownAfter
    <3> QED
      BY <1>3, <2>1, <2>2, <3>1
  <2>3. CASE ~holder.on
    <3>1. attr' = [attr EXCEPT !.on = FALSE, !.available = TRUE]
      BY <1>1, <2>3
    <3>2. attr'.on = FALSE /\ attr'.brightness = attr.brightness /\ attr'.kelvin = attr.kelvin
          /\ attr' \in [on : BOOLEAN, brightness : 1..255, kelvin : MinKelvin..MaxKelvin,
                        available : BOOLEAN]
      BY <2>1, <3>1
    <3> QED
      BY <1>3, <2>3, <3>2
  <2> QED
    BY <1>3, <2>2, <2>3
<1>5. /\ told'.state = holder.wrote
      /\ told'.light = IF holder.on THEN holder.wrote ELSE told.light
      /\ told' \in [state : Nat, light : Nat]
  BY <1>1, <1>3 DEF IInv, TypeInv
<1>6. /\ excused' \in BOOLEAN
      /\ ~excused' => \/ ~excused
                      \/ air' = <<>> /\ told'.state = lamp'.number
  BY <1>1, ExcusedMeans DEF IInv
<1>7. TypeInv'
  BY <1>1, <1>4, <1>5, <1>6 DEF IInv, TypeInv
<1>8. Pushes' /\ Queue'
  BY <1>1, PushesSame, QueueSame DEF IInv
<1>9. Numbers'
  BY <1>1, <1>5 DEF IInv, Numbers, Written
<1>10. Written'
  <2>1. lamp.number \in Nat \ {0} /\ lit.number \in Nat \ {0}
    BY DEF IInv, TypeInv, Lights
  <2>2. holder'.on = FALSE /\ holder'.wrote = 0
    BY <1>1 DEF NoCall
  <2> QED
    BY <1>1, <2>1, <2>2 DEF Written
<1>11. Shown'
  <2>1. told'.light = lit.number => Gives(attr'.brightness, attr'.kelvin, lit)
    BY <1>4, <1>5 DEF IInv, Written, Shown
  <2>2. told'.state = lamp.number => attr'.on = lamp.on /\ (lamp.on => told'.light = lamp.number)
    BY <1>4, <1>5 DEF IInv, Written
  <2> QED
    BY <1>1, <2>1, <2>2 DEF Shown, Gives, Light
<1>12. Ahead'
  BY <1>1, <1>5, <1>6 DEF IInv, Ahead
<1> QED
  BY <1>7, <1>8, <1>9, <1>10, <1>11, <1>12 DEF IInv

\* Steps that leave the lamp and what was told as they are, and take calls away at most.
LEMMA AsideStep ==
  ASSUME IInv, UNCHANGED <<kind, echoes, lamp, lit, told>>,
         calls' \in Seq(Calls),
         \A i \in 1..Len(calls') : \E j \in 1..Len(calls) : calls'[i] = calls[j],
         holder' \in {holder, NoCall},
         air' \in {air, <<>>},
         attr'.on = attr.on, attr'.brightness = attr.brightness, attr'.kelvin = attr.kelvin,
         attr' \in [on : BOOLEAN, brightness : 1..255, kelvin : MinKelvin..MaxKelvin,
                    available : BOOLEAN],
         NEW missed \in BOOLEAN, Excused(missed),
         air' = air \/ missed, holder' = holder \/ echoes \/ missed
  PROVE  IInv'
<1>1. air \in Seq(Lights)
  BY DEF IInv, TypeInv
<1>2. holder' \in Calls \union {NoCall}
  BY DEF IInv, TypeInv
<1>3. air' \in Seq(Lights)
  <2>1. CASE air' = air
    BY <1>1, <2>1
  <2>2. CASE air' = <<>>
    BY <2>2
  <2> QED
    BY <2>1, <2>2
<1>4. excused' \in BOOLEAN
  BY ExcusedMeans DEF IInv
<1>5. TypeInv'
  BY <1>2, <1>3, <1>4 DEF IInv, TypeInv
<1>6. Queue'
  <2> SUFFICES ASSUME NEW i \in 1..Len(calls') PROVE StillKnows(calls[i])'
    BY DEF Queue
  <2>1. StillKnows(calls'[i])
    BY DEF IInv, Queue
  <2> QED
    BY <2>1 DEF StillKnows
<1>7. Numbers' /\ Pushes' /\ Shown' /\ Ahead'
  BY NumbersSame, PushesSame, ShownSame, AheadSame DEF IInv
<1>8. Written'
  <2>1. CASE holder' = holder
    BY <2>1, WrittenSame DEF IInv
  <2>2. CASE holder' = NoCall
    <3>1. lamp.number \in Nat \ {0} /\ lit.number \in Nat \ {0}
      BY DEF IInv, TypeInv, Lights
    <3>2. holder'.on = FALSE /\ holder'.wrote = 0
      BY <2>2 DEF NoCall
    <3> QED
      BY <3>1, <3>2 DEF Written
  <2> QED
    BY <2>1, <2>2
<1> QED
  BY <1>5, <1>6, <1>7, <1>8 DEF IInv

\* What AsideStep asks of the queue, for each way a call leaves it.
LEMMA CallsLeave ==
  ASSUME IInv,
         \/ calls' = calls
         \/ calls # <<>> /\ calls' = Tail(calls)
         \/ \E i \in 1..Len(calls) : calls' = Without(i)
  PROVE  /\ calls' \in Seq(Calls)
         /\ \A i \in 1..Len(calls') : \E j \in 1..Len(calls) : calls'[i] = calls[j]
<1>1. calls \in Seq(Calls)
  BY DEF IInv, TypeInv
<1>2. CASE calls' = calls
  BY <1>1, <1>2
<1>3. CASE calls # <<>> /\ calls' = Tail(calls)
  <2>1. calls' \in Seq(Calls)
    BY <1>1, <1>3
  <2>2. \A i \in 1..Len(calls') : i + 1 \in 1..Len(calls) /\ calls'[i] = calls[i + 1]
    BY <1>1, <1>3
  <2> QED
    BY <2>1, <2>2
<1>4. CASE \E i \in 1..Len(calls) : calls' = Without(i)
  <2>1. PICK i \in 1..Len(calls) : calls' = Without(i)
    BY <1>4
  <2> DEFINE left == Len(calls) - 1
             from(j) == IF j < i THEN j ELSE j + 1
  <2>2. left \in Nat /\ \A j \in 1..left : from(j) \in 1..Len(calls)
    BY <1>1
  <2>3. calls' = [j \in 1..left |-> calls[from(j)]]
    BY <2>1 DEF Without
  <2>4. \A j \in 1..left : calls[from(j)] \in Calls
    BY <1>1, <2>2
  <2> HIDE DEF left, from
  <2>5. calls' \in [1..left -> Calls]
    BY <2>3, <2>4
  <2>6. calls' \in Seq(Calls) /\ Len(calls') = left
    BY <2>2, <2>5
  <2> QED
    BY <2>2, <2>3, <2>6
<1> QED
  BY <1>2, <1>3, <1>4

LEMMA AvailableEffect ==
  ASSUME IInv, NEW a \in BOOLEAN, attr' = [attr EXCEPT !.available = a]
  PROVE  /\ attr'.on = attr.on /\ attr'.brightness = attr.brightness /\ attr'.kelvin = attr.kelvin
         /\ attr' \in [on : BOOLEAN, brightness : 1..255, kelvin : MinKelvin..MaxKelvin,
                       available : BOOLEAN]
BY DEF IInv, TypeInv

LEMMA FailStep ==
  ASSUME IInv, Fail
  PROVE  IInv'
<1> DEFINE missed == air' # air \/ (holder # NoCall /\ ~echoes)
<1>1. /\ UNCHANGED <<kind, echoes, lamp, lit, told>>
      /\ \/ calls # <<>> /\ calls' = Tail(calls) /\ UNCHANGED holder
         \/ holder # NoCall /\ holder' = NoCall /\ UNCHANGED calls
      /\ air' \in {air, <<>>} /\ attr' = [attr EXCEPT !.available = FALSE]
      /\ Excused(missed)
  BY DEF Fail, LinkLost, ShownOnFailure
<1>2. missed \in BOOLEAN /\ (air' = air \/ missed) /\ (holder' = holder \/ echoes \/ missed)
  BY <1>1
<1> HIDE DEF missed
<1>3. /\ calls' \in Seq(Calls)
      /\ \A i \in 1..Len(calls') : \E j \in 1..Len(calls) : calls'[i] = calls[j]
  BY <1>1, CallsLeave
<1>4. holder' \in {holder, NoCall}
  BY <1>1
<1> QED
  BY <1>1, <1>2, <1>3, <1>4, AvailableEffect, AsideStep

LEMMA CancelStep ==
  ASSUME IInv, Cancel
  PROVE  IInv'
<1> DEFINE missed == holder # holder' /\ ~echoes
<1>1. /\ UNCHANGED <<kind, echoes, attr, lamp, air, lit, told>>
      /\ \/ (\E i \in 1..Len(calls) : calls' = Without(i)) /\ UNCHANGED holder
         \/ holder # NoCall /\ holder' = NoCall /\ UNCHANGED calls
      /\ Excused(missed)
  BY DEF Cancel
<1>2. missed \in BOOLEAN /\ (holder' = holder \/ echoes \/ missed)
  OBVIOUS
<1> HIDE DEF missed
<1>3. /\ calls' \in Seq(Calls)
      /\ \A i \in 1..Len(calls') : \E j \in 1..Len(calls) : calls'[i] = calls[j]
  BY <1>1, CallsLeave
<1>4. holder' \in {holder, NoCall}
  BY <1>1
<1>5. attr \in [on : BOOLEAN, brightness : 1..255, kelvin : MinKelvin..MaxKelvin,
                available : BOOLEAN]
  BY DEF IInv, TypeInv
<1> QED
  BY <1>1, <1>2, <1>3, <1>4, <1>5, AsideStep

LEMMA CheckInStep ==
  ASSUME IInv, CheckIn
  PROVE  IInv'
<1>1. /\ UNCHANGED <<kind, echoes, calls, lamp, lit, holder, told>> /\ Excused(air' # air)
      /\ air' \in {air, <<>>}
      /\ \E a \in BOOLEAN : attr' = [attr EXCEPT !.available = a]
  BY DEF CheckIn, LinkLost
<1>2. (air' # air) \in BOOLEAN
  OBVIOUS
<1>3. /\ calls' \in Seq(Calls)
      /\ \A i \in 1..Len(calls') : \E j \in 1..Len(calls) : calls'[i] = calls[j]
  BY <1>1, CallsLeave
<1> QED
  BY <1>1, <1>2, <1>3, AvailableEffect, AsideStep

LEMMA LinkStep ==
  ASSUME IInv, LinkEnds \/ SessionDies \/ UNCHANGED vars
  PROVE  IInv'
<1>1. attr \in [on : BOOLEAN, brightness : 1..255, kelvin : MinKelvin..MaxKelvin,
                available : BOOLEAN]
  BY DEF IInv, TypeInv
<1>2. UNCHANGED <<kind, echoes, attr, calls, lamp, lit, holder, told>> /\ air' \in {air, <<>>}
  BY DEF LinkEnds, LinkLost, SessionDies, vars
<1>3. /\ calls' \in Seq(Calls)
      /\ \A i \in 1..Len(calls') : \E j \in 1..Len(calls) : calls'[i] = calls[j]
  BY <1>2, CallsLeave
<1>4. CASE LinkEnds
  <2>1. Excused(air' # air) /\ (air' # air) \in BOOLEAN
    BY <1>4 DEF LinkEnds
  <2> QED
    BY <1>1, <1>2, <1>3, <2>1, AsideStep
<1>5. CASE SessionDies
  <2>1. Excused(FALSE) /\ air' = air
    BY <1>5 DEF SessionDies
  <2> QED
    BY <1>1, <1>2, <1>3, <2>1, AsideStep
<1>6. CASE UNCHANGED vars
  <2>1. UNCHANGED <<kind, echoes, attr, calls, lamp, lit, holder, told, air, excused>>
    BY <1>6 DEF vars
  <2>2. TypeInv'
    BY <2>1 DEF IInv, TypeInv
  <2>3. Numbers' /\ Pushes' /\ Queue' /\ Written' /\ Shown'
    BY <2>1, NumbersSame, PushesSame, QueueSame, WrittenSame, ShownSame DEF IInv
  <2>4. Ahead'
    BY <2>1 DEF IInv, Ahead
  <2> QED
    BY <2>2, <2>3, <2>4 DEF IInv
<1> QED
  BY <1>4, <1>5, <1>6

LEMMA ReloadStep ==
  ASSUME IInv, Reload
  PROVE  IInv'
<1>1. /\ attr' = NewAttr /\ told' = [state |-> 0, light |-> 0] /\ air' = <<>>
      /\ UNCHANGED <<kind, calls, holder, lamp, lit>> /\ Excused(TRUE)
  BY DEF Reload
<1>2. attr' \in [on : BOOLEAN, brightness : 1..255, kelvin : MinKelvin..MaxKelvin,
                 available : BOOLEAN]
  BY <1>1 DEF NewAttr, DefaultBrightness, DefaultKelvin, MinKelvin, MaxKelvin
<1>3. excused' \in BOOLEAN
      /\ (~excused' => air' = <<>> /\ holder' = NoCall /\ told'.state = lamp'.number)
  BY <1>1, ExcusedMeans DEF IInv
<1>4. lamp.number \in Nat \ {0} /\ lit.number \in Nat \ {0}
  BY DEF IInv, TypeInv, Lights
<1>5. told'.state = 0 /\ told'.light = 0 /\ told' \in [state : Nat, light : Nat]
  BY <1>1
<1>6. TypeInv'
  BY <1>1, <1>2, <1>3, <1>5 DEF IInv, TypeInv
<1>7. Numbers'
  BY <1>1, <1>4, <1>5 DEF IInv, Numbers
<1>8. Pushes' /\ Queue' /\ Written'
  BY <1>1, PushesSame, QueueSame, WrittenSame DEF IInv
<1>9. Shown' /\ Ahead'
  BY <1>1, <1>3, <1>4, <1>5 DEF Shown, Ahead
<1> QED
  BY <1>6, <1>7, <1>8, <1>9 DEF IInv

LEMMA DispatchStep ==
  ASSUME IInv, Dispatch
  PROVE  IInv'
<1> DEFINE push == Head(air)
<1>1. /\ air # <<>> /\ air' = Tail(air) /\ attr' = ShownFrom(push)
      /\ told' = [state |-> push.number,
                  light |-> IF push.level > 0 THEN push.number ELSE told.light]
      /\ UNCHANGED <<kind, echoes, calls, holder, lamp, lit>> /\ Excused(FALSE)
  BY DEF Dispatch
<1>2. air \in Seq(Lights)
  BY DEF IInv, TypeInv
<1>3. /\ push = air[1] /\ 1 \in 1..Len(air) /\ push \in Lights /\ air' \in Seq(Lights)
      /\ \A i \in 1..Len(air') : air'[i] = air[i + 1] /\ i + 1 \in 1..Len(air)
      /\ Len(air') = Len(air) - 1
  BY <1>1, <1>2
<1>4. /\ push.number <= lamp.number
      /\ push.number = lamp.number => push = lamp
      /\ push.level > 0 => push.number <= lit.number
      /\ push.number = lit.number => push = lit
      /\ kind = "dw" => push.warm = 0
  BY <1>3 DEF IInv, Pushes
<1> HIDE DEF push
<1>5. /\ push.on \in BOOLEAN /\ push.level \in 0..100 /\ push.warm \in 0..push.level
      /\ push.number \in Nat /\ (push.on <=> push.level > 0)
  <2>1. /\ push \in [on : BOOLEAN, level : 0..100, warm : 0..100, number : Nat \ {0}]
        /\ push.warm <= push.level /\ (push.on <=> push.level > 0)
    BY <1>3 DEF Lights
  <2> QED
    BY <2>1
<1>6. /\ attr'.on = push.on
      /\ attr'.brightness = IF push.level > 0 THEN BrightnessOf(push.level) ELSE attr.brightness
      /\ attr'.kelvin = IF kind = "tw" /\ push.level > 0 THEN KelvinOf(push.level, push.warm)
                        ELSE attr.kelvin
      /\ attr' \in [on : BOOLEAN, brightness : 1..255, kelvin : MinKelvin..MaxKelvin,
                    available : BOOLEAN]
  <2> DEFINE b == IF push.level > 0 THEN BrightnessOf(push.level) ELSE attr.brightness
             k == IF kind = "tw" /\ push.level > 0 THEN KelvinOf(push.level, push.warm)
                  ELSE attr.kelvin
  <2>1. attr \in [on : BOOLEAN, brightness : 1..255, kelvin : MinKelvin..MaxKelvin,
                  available : BOOLEAN]
    BY DEF IInv, TypeInv
  <2>2. attr.brightness \in 1..255 /\ attr.kelvin \in MinKelvin..MaxKelvin
    BY <2>1
  <2>3. push.level > 0 => push.level \in 1..100
    BY <1>5
  <2>4. b \in 1..255 /\ k \in MinKelvin..MaxKelvin
    BY <1>5, <2>2, <2>3, LevelKept, WarmthKept
  <2>5. attr' = [attr EXCEPT !.on = push.on, !.available = TRUE, !.brightness = b, !.kelvin = k]
    BY <1>1 DEF ShownFrom
  <2> HIDE DEF b, k
  <2>6. attr'.on = push.on /\ attr'.brightness = b /\ attr'.kelvin = k
        /\ attr' \in [on : BOOLEAN, brightness : 1..255, kelvin : MinKelvin..MaxKelvin,
                      available : BOOLEAN]
    BY <1>5, <2>1, <2>4, <2>5
  <2> QED
    BY <2>6 DEF b, k
<1>7. /\ told'.state = push.number
      /\ told'.light = IF push.level > 0 THEN push.number ELSE told.light
      /\ told' \in [state : Nat, light : Nat]
  BY <1>1, <1>5 DEF IInv, TypeInv
<1>8. /\ excused' \in BOOLEAN
      /\ ~excused' => \/ ~excused
                      \/ air' = <<>> /\ holder' = NoCall /\ told'.state = lamp'.number
  BY <1>1, ExcusedMeans DEF IInv
<1>9. TypeInv'
  BY <1>1, <1>3, <1>6, <1>7, <1>8 DEF IInv, TypeInv
<1>10. Numbers'
  BY <1>1, <1>4, <1>7 DEF IInv, Numbers
<1>11. Pushes'
  BY <1>1, <1>3 DEF IInv, Pushes
<1>12. Queue' /\ Written'
  BY <1>1, QueueSame, WrittenSame DEF IInv
<1>13. Shown'
  <2>1. ASSUME told'.light = lit.number PROVE Gives(attr'.brightness, attr'.kelvin, lit)
    <3>1. CASE push.level > 0
      <4>1. push = lit
        BY <1>4, <1>7, <2>1, <3>1
      <4>2. Gives(attr'.brightness, attr'.kelvin, push)
        BY <1>3, <1>4, <1>6, <3>1, PushRoundTrip DEF IInv
      <4> QED
        BY <4>1, <4>2
    <3>2. CASE ~(push.level > 0)
      BY <1>6, <1>7, <2>1, <3>2 DEF IInv, Shown
    <3> QED
      BY <3>1, <3>2
  <2>2. told'.state = lamp.number => attr'.on = lamp.on /\ (lamp.on => told'.light = lamp.number)
    BY <1>4, <1>5, <1>6, <1>7
  <2> QED
    BY <1>1, <2>1, <2>2 DEF Shown, Gives, Light
<1>14. Ahead'
  <2>1. CASE air' # <<>>
    <3>1. Len(air') \in 1..Len(air') /\ air'[Len(air')] = air[Len(air)]
      BY <1>2, <1>3, <2>1
    <3> QED
      BY <1>1, <1>8, <2>1, <3>1 DEF IInv, Ahead
  <2>2. CASE air' = <<>>
    <3>1. Len(air) = 1
      BY <1>2, <1>3, <2>2
    <3>2. air[Len(air)] = push
      BY <1>3, <3>1
    <3>3. ~excused => push.number = lamp.number
      BY <1>1, <3>2 DEF IInv, Ahead
    <3>4. ~excused => /\ told'.state = lamp.number
                      /\ holder # NoCall => holder.wrote = lamp.number
      BY <1>7, <3>3 DEF IInv, Ahead
    <3> QED
      BY <1>1, <1>8, <2>2, <3>4 DEF Ahead
  <2> QED
    BY <2>1, <2>2
<1> QED
  BY <1>9, <1>10, <1>11, <1>12, <1>13, <1>14 DEF IInv

LEMMA StepIInv == IInv /\ [Next]_vars => IInv'
<1> SUFFICES ASSUME IInv, [Next]_vars PROVE IInv'
  OBVIOUS
<1>1. ASSUME NEW b \in Brightnesses \union {None}, NEW k \in Kelvins \union {None}, TurnOn(b, k)
      PROVE  IInv'
  BY <1>1, TurnOnStep
<1>2. ASSUME NEW p \in Pressed, Press(p) PROVE IInv'
  BY <1>2, PressStep
<1>3. CASE TurnOff
  BY <1>3, TurnOffStep
<1>4. CASE Write
  BY <1>4, WriteStep
<1>5. CASE Finish
  BY <1>5, FinishStep
<1>6. CASE Fail
  BY <1>6, FailStep
<1>7. CASE Dispatch
  BY <1>7, DispatchStep
<1>8. CASE CheckIn
  BY <1>8, CheckInStep
<1>9. CASE LinkEnds \/ SessionDies \/ UNCHANGED vars
  BY <1>9, LinkStep
<1>10. CASE Reload
  BY <1>10, ReloadStep
<1>11. CASE Cancel
  BY <1>11, CancelStep
<1> QED
  BY <1>1, <1>2, <1>3, <1>4, <1>5, <1>6, <1>7, <1>8, <1>9, <1>10, <1>11 DEF Next

\* Only a write puts a call into the lock.
LEMMA HolderFromWrite ==
  ASSUME [Next]_vars, holder' # holder, holder' # NoCall
  PROVE  Write
BY DEF Next, vars, TurnOn, TurnOff, Ask, Finish, Fail, Cancel, Dispatch, Press, CheckIn, LinkEnds,
       SessionDies, Reload

-----------------------------------------------------------------------------
(* The theorems *)

\* What the other theorems rest on, an inductive invariant of the module.
THEOREM Invariance == Spec => []IInv
<1> QED
  BY InitIInv, StepIInv, PTL DEF Spec

\* No level and no mix of the channels that a lamp can be in is changed by showing it in
\* Home Assistant's numbers and sending that back (_kelvin_to_channels and the conversions
\* of on_lamp_state_change and async_turn_on): whichever way the halves are rounded.
THEOREM NoDrift ==
  ASSUME NEW level \in 1..100, NEW warm \in 0..level
  PROVE  /\ Percent(BrightnessOf(level)) = level
         /\ WarmShare(level, KelvinOf(level, warm)) = warm
BY LevelKept, WarmthKept

\* The brightness and colour the entity keeps for its next turn_on are those of the light
\* they come from, however often the two sides have taken turns to set it.
THEOREM RememberedLight == Spec => []LightRemembered
<1>1. IInv => LightRemembered
  BY DEF IInv, Shown, Gives, LightRemembered
<1> QED
  BY <1>1, Invariance, PTL

\* When nothing is under way and nothing has gone past the entity, it shows what the lamp
\* does, for any interleaving of its commands with the lamp's pushes.
THEOREM LampFollowed == Spec => []FollowsLamp
<1>1. IInv => FollowsLamp
  <2> SUFFICES ASSUME IInv, Quiet, ~excused
               PROVE  /\ told.state = lamp.number
                      /\ attr.on = lamp.on
                      /\ lamp.on => Light(TRUE, attr.brightness, attr.kelvin)
                                      = [on |-> TRUE, level |-> lamp.level, warm |-> lamp.warm]
    BY DEF FollowsLamp
  <2>1. told.state = lamp.number
    BY DEF IInv, Ahead, Quiet
  <2>2. attr.on = lamp.on /\ (lamp.on => told.light = lamp.number)
    BY <2>1 DEF IInv, Shown
  <2>3. lamp.on => lit = lamp
    BY DEF IInv, Numbers
  <2>4. lamp.on => Gives(attr.brightness, attr.kelvin, lamp)
    BY <2>2, <2>3 DEF IInv, Shown
  <2> QED
    BY <2>1, <2>2, <2>4 DEF Gives
<1> QED
  BY <1>1, Invariance, PTL

\* A turn_on that leaves out the brightness, or all it could name, takes it from the lamp's
\* last light, through any number of calls, pushes and failures before it.
THEOREM RestIsKept == Spec => RestKept
<1>1. IInv /\ [Next]_vars =>
        [holder' # holder /\ holder'.on /\ holder'.wrote = lamp'.number /\ holder'.from = lit.number =>
           /\ ~holder'.dims => lamp'.level = lit.level
           /\ ~holder'.dims /\ ~holder'.tints => lamp'.warm = lit.warm]_vars
  <2> SUFFICES ASSUME IInv, [Next]_vars, holder' # holder, holder'.on,
                      holder'.wrote = lamp'.number, holder'.from = lit.number
               PROVE  /\ ~holder'.dims => lamp'.level = lit.level
                      /\ ~holder'.dims /\ ~holder'.tints => lamp'.warm = lit.warm
    OBVIOUS
  <2>1. holder' # NoCall
    BY DEF NoCall
  <2>2. Write
    BY <2>1, HolderFromWrite
  <2> QED
    BY <2>2, WriteStep
<1> QED
  BY Invariance, <1>1, PTL DEF Spec, RestKept
=============================================================================
