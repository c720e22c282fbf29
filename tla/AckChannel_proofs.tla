--------------------------- MODULE AckChannel_proofs ---------------------------
(***************************************************************************)
(* Theorems about AckChannel, for any number of sequence ids, any lateness    *)
(* below it, and any number of requests, pushes and links.                   *)
(*                                                                         *)
(* What makes them hold: an answer on its way has the sequence id of its      *)
(* request, counted back from the last one by no more than Patience; frames  *)
(* of one answer agree on how many they are; and a push is in the air, held,  *)
(* or handled, with those in the air the newest.                            *)
(***************************************************************************)
EXTENDS AckChannel, FiniteSetTheorems, TLAPS

-----------------------------------------------------------------------------
(* Sequences as what they hold *)

Elems(q) == {q[i] : i \in 1..Len(q)}

LEMMA ElemsEmpty == Elems(<<>>) = {}
BY DEF Elems

LEMMA ElemsAppend ==
  ASSUME NEW S, NEW q \in Seq(S), NEW x \in S
  PROVE  Elems(Append(q, x)) = Elems(q) \union {x}
<1>1. Len(Append(q, x)) = Len(q) + 1 /\ Append(q, x)[Len(q) + 1] = x
      /\ \A i \in 1..Len(q) : Append(q, x)[i] = q[i]
  OBVIOUS
<1>2. ASSUME NEW y \in Elems(Append(q, x)) PROVE y \in Elems(q) \union {x}
  <2>1. PICK i \in 1..(Len(q) + 1) : y = Append(q, x)[i]
    BY <1>1, <1>2 DEF Elems
  <2>2. i \in 1..Len(q) \/ i = Len(q) + 1
    OBVIOUS
  <2> QED
    BY <1>1, <2>1, <2>2 DEF Elems
<1>3. ASSUME NEW y \in Elems(q) \union {x} PROVE y \in Elems(Append(q, x))
  <2>1. CASE y \in Elems(q)
    <3>1. PICK i \in 1..Len(q) : y = q[i]
      BY <2>1 DEF Elems
    <3>2. i \in 1..(Len(q) + 1) /\ y = Append(q, x)[i]
      BY <1>1, <3>1
    <3> QED
      BY <1>1, <3>2 DEF Elems
  <2>2. CASE y = x
    <3>1. Len(q) + 1 \in 1..(Len(q) + 1)
      OBVIOUS
    <3> QED
      BY <1>1, <2>2, <3>1 DEF Elems
  <2> QED
    BY <1>3, <2>1, <2>2
<1> QED
  BY <1>2, <1>3

LEMMA ElemsTail ==
  ASSUME NEW S, NEW q \in Seq(S), q # <<>>
  PROVE  /\ Tail(q) \in Seq(S) /\ Head(q) \in S
         /\ Elems(q) = {Head(q)} \union Elems(Tail(q))
<1>1. /\ Head(q) = q[1] /\ Len(Tail(q)) = Len(q) - 1 /\ Len(q) \in Nat /\ Len(q) # 0
      /\ \A i \in 1..(Len(q) - 1) : Tail(q)[i] = q[i + 1]
      /\ Tail(q) \in Seq(S) /\ Head(q) \in S
  OBVIOUS
<1>2. ASSUME NEW y \in Elems(q) PROVE y \in {Head(q)} \union Elems(Tail(q))
  <2>1. PICK i \in 1..Len(q) : y = q[i]
    BY <1>2 DEF Elems
  <2>2. CASE i = 1
    BY <1>1, <2>1, <2>2
  <2>3. CASE i # 1
    <3>1. i - 1 \in 1..(Len(q) - 1) /\ (i - 1) + 1 = i
      BY <1>1, <2>3
    <3>2. y = Tail(q)[i - 1]
      BY <1>1, <2>1, <3>1
    <3> QED
      BY <1>1, <3>1, <3>2 DEF Elems
  <2> QED
    BY <2>2, <2>3
<1>3. ASSUME NEW y \in {Head(q)} \union Elems(Tail(q)) PROVE y \in Elems(q)
  <2>1. CASE y = Head(q)
    <3>1. 1 \in 1..Len(q)
      BY <1>1
    <3> QED
      BY <1>1, <2>1, <3>1 DEF Elems
  <2>2. CASE y \in Elems(Tail(q))
    <3>1. PICK i \in 1..(Len(q) - 1) : y = Tail(q)[i]
      BY <1>1, <2>2 DEF Elems
    <3>2. i + 1 \in 1..Len(q) /\ y = q[i + 1]
      BY <1>1, <3>1
    <3> QED
      BY <3>2 DEF Elems
  <2> QED
    BY <1>3, <2>1, <2>2
<1> QED
  BY <1>1, <1>2, <1>3

LEMMA ElemsConcat ==
  ASSUME NEW S, NEW q \in Seq(S), NEW r \in Seq(S)
  PROVE  q \o r \in Seq(S) /\ Elems(q \o r) = Elems(q) \union Elems(r)
<1>1. /\ Len(q \o r) = Len(q) + Len(r) /\ Len(q) \in Nat /\ Len(r) \in Nat
      /\ \A i \in 1..(Len(q) + Len(r)) :
           (q \o r)[i] = IF i <= Len(q) THEN q[i] ELSE r[i - Len(q)]
      /\ q \o r \in Seq(S)
  OBVIOUS
<1>2. ASSUME NEW y \in Elems(q \o r) PROVE y \in Elems(q) \union Elems(r)
  <2>1. PICK i \in 1..(Len(q) + Len(r)) : y = (q \o r)[i]
    BY <1>1, <1>2 DEF Elems
  <2>2. CASE i <= Len(q)
    <3>1. i \in 1..Len(q) /\ y = q[i]
      BY <1>1, <2>1, <2>2
    <3> QED
      BY <3>1 DEF Elems
  <2>3. CASE ~(i <= Len(q))
    <3>1. i - Len(q) \in 1..Len(r) /\ y = r[i - Len(q)]
      BY <1>1, <2>1, <2>3
    <3> QED
      BY <3>1 DEF Elems
  <2> QED
    BY <2>2, <2>3
<1>3. ASSUME NEW y \in Elems(q) \union Elems(r) PROVE y \in Elems(q \o r)
  <2>1. CASE y \in Elems(q)
    <3>1. PICK i \in 1..Len(q) : y = q[i]
      BY <2>1 DEF Elems
    <3>2. i \in 1..(Len(q) + Len(r)) /\ y = (q \o r)[i]
      BY <1>1, <3>1
    <3> QED
      BY <1>1, <3>2 DEF Elems
  <2>2. CASE y \in Elems(r)
    <3>1. PICK i \in 1..Len(r) : y = r[i]
      BY <2>2 DEF Elems
    <3>2. Len(q) + i \in 1..(Len(q) + Len(r)) /\ ~(Len(q) + i <= Len(q)) /\ (Len(q) + i) - Len(q) = i
      BY <1>1, <3>1
    <3>3. y = (q \o r)[Len(q) + i]
      BY <1>1, <3>1, <3>2
    <3> QED
      BY <1>1, <3>2, <3>3 DEF Elems
  <2> QED
    BY <1>3, <2>1, <2>2
<1> QED
  BY <1>1, <1>2, <1>3

LEMMA ElemsIn ==
  ASSUME NEW S, NEW q \in Seq(S)
  PROVE  Elems(q) \subseteq S
BY DEF Elems

LEMMA HeldElems ==
  ASSUME NEW S, NEW q \in Seq(S)
  PROVE  Held(q) = {f.n : f \in {g \in Elems(q) : g.kind = "push"}}
<1>1. DOMAIN q = 1..Len(q)
  OBVIOUS
<1>2. ASSUME NEW y \in Held(q) PROVE y \in {f.n : f \in {g \in Elems(q) : g.kind = "push"}}
  <2>1. PICK i \in 1..Len(q) : q[i].kind = "push" /\ y = q[i].n
    BY <1>1, <1>2 DEF Held
  <2>2. q[i] \in Elems(q)
    BY DEF Elems
  <2> QED
    BY <2>1, <2>2
<1>3. ASSUME NEW y \in {f.n : f \in {g \in Elems(q) : g.kind = "push"}} PROVE y \in Held(q)
  <2>1. PICK f \in Elems(q) : f.kind = "push" /\ y = f.n
    BY <1>3
  <2>2. PICK i \in 1..Len(q) : f = q[i]
    BY DEF Elems
  <2> QED
    BY <1>1, <2>1, <2>2 DEF Held
<1> QED
  BY <1>2, <1>3

-----------------------------------------------------------------------------
(* The inductive invariant, in parts *)

\* Frames as Push, Answers and Notify make them.
Frames ==
  {f \in [kind : {"push", "single", "nak", "bad", "start", "more"}, n : Nat, seq : Nat,
          idx : 0..1, total : 0..2] :
     /\ f.kind \in {"single", "nak", "bad"} => f.idx = 0 /\ f.total = 1
     /\ f.kind = "start" => f.idx = 0 /\ f.total = 2
     /\ f.kind = "more" => f.idx = 1 /\ f.total = 2}

Requests == [kind : {"request"}, n : Nat, seq : Nat]

ConnType == [link : BOOLEAN, ready : BOOLEAN, seq : 0..(SeqMod - 1)]
WaitType ==
  [for : {"nothing", "ack", "event"}, frags : SUBSET Frames, total : 0..2, deferred : Seq(Frames)]
LastType == [request : Nat, push : Nat, link : Nat]
SeenType == [arrived : SUBSET Nat, early : SUBSET Nat, handled : SUBSET Nat]
AnswerType == [n : Nat, frags : SUBSET Frames]

TypeInv ==
  /\ conn \in ConnType
  /\ inbox \in Seq(Frames) /\ air \in Seq(Frames) /\ asked \in Seq(Requests)
  /\ wait \in WaitType /\ last \in LastType /\ seen \in SeenType /\ answer \in AnswerType
  /\ shown \in Nat /\ shown <= last.push
  /\ conn.ready => conn.link
  /\ wait.for # "ack" => wait.frags = {} /\ wait.total = 0 /\ wait.deferred = <<>>
  /\ wait.for # "nothing" => conn.link

\* Answers that have not been looked at, and those and the ones collected.
Under(q) == {f \in Elems(q) : f.kind # "push"}
Pending == Under(air) \union Under(inbox)
Known == Pending \union wait.frags

\* The request of this number is no older than the answers are awaited, and it has the
\* sequence id that so many requests ago was the next.
Aged(x, now, seq) ==
  LET age == now - x.n IN
  /\ x.n <= now /\ age <= Patience
  /\ x.seq = IF age <= seq THEN seq - age ELSE (seq - age) + SeqMod

InStep ==
  \A x \in Pending \union Elems(asked) : Aged(x, last.request, conn.seq)

\* The fragments of an answer agree on how many they are, and come once.
Matched ==
  /\ \A f, g \in Known : f.n = g.n => f.total = g.total
  /\ \A f \in Known, r \in Elems(asked) : f.n # r.n
  /\ \A i, j \in 1..Len(asked) : i # j => asked[i].n # asked[j].n

\* What is collected answers the request that is waited for.
Collected ==
  /\ \A f \in wait.frags : f.n = last.request /\ f.kind \notin {"push", "bad"}
  /\ IsFiniteSet(wait.frags)
  /\ \A f, g \in wait.frags : f.idx = g.idx => f = g
  /\ wait.total # 0 => \E f \in wait.frags : f.total = wait.total
  /\ \A f \in Elems(wait.deferred) : f.kind = "push"

\* Pushes that are held came while the link was set up; those on their way are newer than
\* all that came before, and in order.
Increasing(q) ==
  \A i, j \in 1..Len(q) : i < j /\ q[i].kind = "push" /\ q[j].kind = "push" => q[i].n < q[j].n

InOrder ==
  /\ conn.link => Held(inbox) \union Held(wait.deferred) \subseteq seen.early
  /\ \A m \in seen.arrived : m <= last.push
  /\ \A f \in Elems(air) : f.kind = "push" =>
       /\ f.n <= last.push /\ shown < f.n
       /\ \A m \in seen.arrived : m < f.n
  /\ Increasing(air)

IInv ==
  /\ TypeInv /\ InStep /\ Matched /\ Collected /\ InOrder
  /\ OwnAnswer /\ WholeAnswer /\ PushKept

-----------------------------------------------------------------------------
(* What taking a frame from a queue, and adding to one, does *)

LEMMA TakeHead ==
  ASSUME NEW q \in Seq(Frames), q # <<>>
  PROVE  /\ Tail(q) \in Seq(Frames) /\ Head(q) \in Frames /\ Head(q) \in Elems(q)
         /\ Elems(Tail(q)) \subseteq Elems(q)
         /\ Under(Tail(q)) \subseteq Under(q)
         /\ Head(q).kind # "push" => Head(q) \in Under(q) /\ Held(Tail(q)) = Held(q)
         /\ Head(q).kind = "push" => Held(q) = {Head(q).n} \union Held(Tail(q))
         /\ Held(Tail(q)) \subseteq Held(q)
         /\ Increasing(q) => /\ Increasing(Tail(q))
                             /\ Head(q).kind = "push" =>
                                  \A f \in Elems(Tail(q)) : f.kind = "push" => Head(q).n < f.n
<1>1. /\ Tail(q) \in Seq(Frames) /\ Head(q) \in Frames
      /\ Elems(q) = {Head(q)} \union Elems(Tail(q))
  BY ElemsTail
<1>2. /\ Held(q) = {f.n : f \in {g \in Elems(q) : g.kind = "push"}}
      /\ Held(Tail(q)) = {f.n : f \in {g \in Elems(Tail(q)) : g.kind = "push"}}
  BY <1>1, HeldElems
<1>3. Head(q).kind # "push" => Held(Tail(q)) = Held(q)
  BY <1>1, <1>2
<1>4. Head(q).kind = "push" => Held(q) = {Head(q).n} \union Held(Tail(q))
  BY <1>1, <1>2
<1>5. ASSUME Increasing(q)
      PROVE  /\ Increasing(Tail(q))
             /\ Head(q).kind = "push" =>
                  \A f \in Elems(Tail(q)) : f.kind = "push" => Head(q).n < f.n
  <2>1. /\ Head(q) = q[1] /\ Len(Tail(q)) = Len(q) - 1 /\ Len(q) \in Nat /\ Len(q) # 0
        /\ \A i \in 1..(Len(q) - 1) : Tail(q)[i] = q[i + 1]
    OBVIOUS
  <2>2. \A i \in 1..(Len(q) - 1) : i + 1 \in 1..Len(q) /\ 1 < i + 1
    BY <2>1
  <2>3. Increasing(Tail(q))
    <3> SUFFICES ASSUME NEW i \in 1..(Len(q) - 1), NEW j \in 1..(Len(q) - 1), i < j,
                        Tail(q)[i].kind = "push", Tail(q)[j].kind = "push"
                 PROVE  Tail(q)[i].n < Tail(q)[j].n
      BY <2>1 DEF Increasing
    <3>1. i + 1 < j + 1 /\ i + 1 \in 1..Len(q) /\ j + 1 \in 1..Len(q)
      BY <2>1
    <3> QED
      BY <1>5, <2>1, <3>1 DEF Increasing
  <2>4. ASSUME Head(q).kind = "push", NEW f \in Elems(Tail(q)), f.kind = "push"
        PROVE  Head(q).n < f.n
    <3>1. PICK i \in 1..(Len(q) - 1) : f = Tail(q)[i]
      BY <2>1, <2>4 DEF Elems
    <3>2. 1 \in 1..Len(q) /\ f = q[i + 1]
      BY <2>1, <3>1
    <3> QED
      BY <1>5, <2>1, <2>2, <2>4, <3>1, <3>2 DEF Increasing
  <2> QED
    BY <2>3, <2>4
<1> QED
  BY <1>1, <1>2, <1>3, <1>4, <1>5 DEF Under

LEMMA AddFrame ==
  ASSUME NEW q \in Seq(Frames), NEW f \in Frames
  PROVE  /\ Append(q, f) \in Seq(Frames)
         /\ Elems(Append(q, f)) = Elems(q) \union {f}
         /\ Under(Append(q, f)) = IF f.kind = "push" THEN Under(q) ELSE Under(q) \union {f}
         /\ Held(Append(q, f)) = IF f.kind = "push" THEN Held(q) \union {f.n} ELSE Held(q)
         /\ Increasing(q) /\ (\A g \in Elems(q) : g.kind = "push" => g.n < f.n)
              => Increasing(Append(q, f))
<1>1. Append(q, f) \in Seq(Frames) /\ Elems(Append(q, f)) = Elems(q) \union {f}
  BY ElemsAppend
<1>2. /\ Held(q) = {h.n : h \in {g \in Elems(q) : g.kind = "push"}}
      /\ Held(Append(q, f)) = {h.n : h \in {g \in Elems(Append(q, f)) : g.kind = "push"}}
  BY <1>1, HeldElems
<1>3. Held(Append(q, f)) = IF f.kind = "push" THEN Held(q) \union {f.n} ELSE Held(q)
  BY <1>1, <1>2
<1>4. Under(Append(q, f)) = IF f.kind = "push" THEN Under(q) ELSE Under(q) \union {f}
  BY <1>1 DEF Under
<1>5. ASSUME Increasing(q), \A g \in Elems(q) : g.kind = "push" => g.n < f.n
      PROVE  Increasing(Append(q, f))
  <2>1. Len(Append(q, f)) = Len(q) + 1 /\ Append(q, f)[Len(q) + 1] = f
        /\ \A i \in 1..Len(q) : Append(q, f)[i] = q[i] /\ q[i] \in Elems(q)
    BY DEF Elems
  <2> SUFFICES ASSUME NEW i \in 1..(Len(q) + 1), NEW j \in 1..(Len(q) + 1), i < j,
                      Append(q, f)[i].kind = "push", Append(q, f)[j].kind = "push"
               PROVE  Append(q, f)[i].n < Append(q, f)[j].n
    BY <2>1 DEF Increasing
  <2>2. i \in 1..Len(q) /\ (j \in 1..Len(q) \/ j = Len(q) + 1)
    OBVIOUS
  <2> QED
    BY <1>5, <2>1, <2>2 DEF Increasing
<1> QED
  BY <1>1, <1>3, <1>4, <1>5

LEMMA AddFrames ==
  ASSUME NEW q \in Seq(Frames), NEW r \in Seq(Frames)
  PROVE  /\ q \o r \in Seq(Frames)
         /\ Elems(q \o r) = Elems(q) \union Elems(r)
         /\ Under(q \o r) = Under(q) \union Under(r)
         /\ Held(q \o r) = Held(q) \union Held(r)
         /\ Increasing(q) /\ (\A g \in Elems(r) : g.kind # "push") => Increasing(q \o r)
<1>1. q \o r \in Seq(Frames) /\ Elems(q \o r) = Elems(q) \union Elems(r)
  BY ElemsConcat
<1>2. /\ Held(q) = {h.n : h \in {g \in Elems(q) : g.kind = "push"}}
      /\ Held(r) = {h.n : h \in {g \in Elems(r) : g.kind = "push"}}
      /\ Held(q \o r) = {h.n : h \in {g \in Elems(q \o r) : g.kind = "push"}}
  BY <1>1, HeldElems
<1>3. Held(q \o r) = Held(q) \union Held(r)
  BY <1>1, <1>2
<1>4. Under(q \o r) = Under(q) \union Under(r)
  BY <1>1 DEF Under
<1>5. ASSUME Increasing(q), \A g \in Elems(r) : g.kind # "push" PROVE Increasing(q \o r)
  <2>1. /\ Len(q \o r) = Len(q) + Len(r) /\ Len(q) \in Nat /\ Len(r) \in Nat
        /\ \A i \in 1..(Len(q) + Len(r)) :
             (q \o r)[i] = IF i <= Len(q) THEN q[i] ELSE r[i - Len(q)]
    OBVIOUS
  <2>2. ASSUME NEW i \in 1..(Len(q) + Len(r)), (q \o r)[i].kind = "push"
        PROVE  i \in 1..Len(q) /\ (q \o r)[i] = q[i]
    <3>1. CASE i <= Len(q)
      BY <2>1, <3>1
    <3>2. CASE ~(i <= Len(q))
      <4>1. i - Len(q) \in 1..Len(r) /\ (q \o r)[i] = r[i - Len(q)]
        BY <2>1, <3>2
      <4> QED
        BY <1>5, <2>2, <4>1 DEF Elems
    <3> QED
      BY <3>1, <3>2
  <2> QED
    BY <1>5, <2>1, <2>2 DEF Increasing
<1> QED
  BY <1>1, <1>3, <1>4, <1>5

LEMMA NoFrames == /\ Elems(<<>>) = {} /\ Under(<<>>) = {} /\ Held(<<>>) = {}
                  /\ Increasing(<<>>) /\ <<>> \in Seq(Frames) /\ <<>> \in Seq(Requests)
<1>1. <<>> \in Seq(Frames) /\ <<>> \in Seq(Requests)
  OBVIOUS
<1>2. Held(<<>>) = {}
  BY <1>1, ElemsEmpty, HeldElems
<1>3. Under(<<>>) = {}
  BY ElemsEmpty DEF Under
<1>4. Increasing(<<>>)
  BY DEF Increasing
<1> QED
  BY <1>1, <1>2, <1>3, <1>4, ElemsEmpty

-----------------------------------------------------------------------------
(* What keeps each part *)

LEMMA AnswersShrink ==
  ASSUME InStep, Matched, Pending' \subseteq Pending, asked' \in {asked, <<>>},
         last'.request = last.request, conn'.seq = conn.seq, wait'.frags \subseteq wait.frags
  PROVE  InStep' /\ Matched'
<1>1. Elems(asked') \subseteq Elems(asked)
  BY ElemsEmpty
<1>2. InStep'
  BY <1>1 DEF InStep
<1>3. \A i, j \in 1..Len(asked') : i # j => asked'[i].n # asked'[j].n
  <2>1. CASE asked' = asked
    BY <2>1 DEF Matched
  <2>2. CASE asked' = <<>>
    BY <2>2
  <2> QED
    BY <2>1, <2>2
<1>4. Known' \subseteq Known
  BY DEF Known
<1>5. Matched'
  BY <1>1, <1>3, <1>4 DEF Matched
<1> QED
  BY <1>2, <1>5

LEMMA NothingCollected ==
  ASSUME wait' \in {NotWaiting, Waiting("ack"), Waiting("event")}
  PROVE  /\ Collected' /\ wait'.frags = {} /\ wait'.total = 0 /\ wait'.deferred = <<>>
         /\ wait' \in WaitType /\ Held(wait'.deferred) = {}
<1>1. wait'.frags = {} /\ wait'.total = 0 /\ wait'.deferred = <<>>
  BY DEF NotWaiting, Waiting
<1>2. wait' \in WaitType
  <2>1. \A what \in {"nothing", "ack", "event"} :
          [for |-> what, frags |-> {}, total |-> 0, deferred |-> <<>>] \in WaitType
    BY NoFrames DEF WaitType
  <2>2. NotWaiting \in WaitType
    BY <2>1 DEF NotWaiting
  <2>3. Waiting("ack") \in WaitType /\ Waiting("event") \in WaitType
    BY <2>2 DEF Waiting, WaitType
  <2> QED
    BY <2>2, <2>3
<1>3. Collected'
  BY <1>1, NoFrames, FS_EmptySet DEF Collected
<1> QED
  BY <1>1, <1>2, <1>3, NoFrames

LEMMA SameCollected ==
  ASSUME Collected, UNCHANGED wait, last'.request = last.request
  PROVE  Collected'
BY DEF Collected

LEMMA SamePushes ==
  ASSUME TypeInv, InOrder, PushKept, UNCHANGED <<seen, shown>>, conn'.link = conn.link,
         last'.push = last.push,
         Held(inbox') \union Held(wait'.deferred) = Held(inbox) \union Held(wait.deferred),
         Elems(air') \subseteq Elems(air), Increasing(air')
  PROVE  InOrder' /\ PushKept'
BY DEF InOrder, PushKept

-----------------------------------------------------------------------------
(* The steps *)

LEMMA InitIInv == Init => IInv
<1> SUFFICES ASSUME Init PROVE IInv
  OBVIOUS
<1>1. /\ conn = [link |-> FALSE, ready |-> FALSE, seq |-> 0]
      /\ inbox = <<>> /\ air = <<>> /\ asked = <<>> /\ wait = NotWaiting
      /\ last = [request |-> 0, push |-> 0, link |-> 0] /\ shown = 0
      /\ seen = NothingSeen /\ answer = [n |-> 0, frags |-> {}]
  BY DEF Init
<1>2. conn \in ConnType
  BY <1>1, PatienceAssumption DEF ConnType
<1>3. wait.for = "nothing" /\ wait.frags = {} /\ wait.total = 0 /\ wait.deferred = <<>>
      /\ wait \in WaitType
  BY <1>1, NoFrames DEF NotWaiting, WaitType
<1>4. last \in LastType /\ seen \in SeenType /\ answer \in AnswerType
  BY <1>1 DEF LastType, SeenType, AnswerType, NothingSeen
<1>5. TypeInv
  BY <1>1, <1>2, <1>3, <1>4, NoFrames DEF TypeInv
<1>6. Pending = {} /\ Known = {} /\ Elems(asked) = {}
  BY <1>1, <1>3, NoFrames DEF Pending, Known
<1>7. InStep /\ Matched
  BY <1>1, <1>6 DEF InStep, Matched
<1>8. Collected
  BY <1>3, NoFrames, FS_EmptySet DEF Collected
<1>9. InOrder /\ OwnAnswer /\ WholeAnswer /\ PushKept
  BY <1>1, NoFrames DEF InOrder, OwnAnswer, WholeAnswer, PushKept, NothingSeen
<1> QED
  BY <1>5, <1>7, <1>8, <1>9 DEF IInv

LEMMA SameAnswer ==
  ASSUME IInv, UNCHANGED answer
  PROVE  OwnAnswer' /\ WholeAnswer'
BY DEF IInv, OwnAnswer, WholeAnswer

\* The link comes and goes: nothing is left of the last one but the queue, and not for long.
LEMMA OpenLinkStep ==
  ASSUME IInv, OpenLink
  PROVE  IInv'
<1>1. /\ ~conn.link /\ conn' = [conn EXCEPT !.link = TRUE]
      /\ inbox' = <<>> /\ air' = <<>> /\ asked' = <<>>
      /\ last' = [last EXCEPT !.link = @ + 1] /\ seen' = NothingSeen
      /\ UNCHANGED <<wait, shown, answer>>
  BY DEF OpenLink, Flushed
<1>2. conn' \in ConnType /\ conn'.link /\ conn'.seq = conn.seq
  BY <1>1 DEF IInv, TypeInv, ConnType
<1>3. last' \in LastType /\ last'.request = last.request /\ last'.push = last.push
  BY <1>1 DEF IInv, TypeInv, LastType
<1>4. seen' \in SeenType /\ seen'.arrived = {} /\ seen'.handled = {}
  BY <1>1 DEF NothingSeen, SeenType
<1>5. wait.for = "nothing" /\ wait.deferred = <<>>
  BY <1>1 DEF IInv, TypeInv, WaitType
<1>6. TypeInv'
  BY <1>1, <1>2, <1>3, <1>4, NoFrames DEF IInv, TypeInv
<1>7. Pending' = {}
  BY <1>1, NoFrames DEF Pending
<1>8. InStep' /\ Matched' /\ Collected'
  BY <1>1, <1>2, <1>3, <1>7, AnswersShrink, SameCollected DEF IInv
<1>9. InOrder' /\ PushKept'
  BY <1>1, <1>4, <1>5, NoFrames DEF InOrder, PushKept
<1> QED
  BY <1>1, <1>6, <1>8, <1>9, SameAnswer DEF IInv

LEMMA DisconnectStep ==
  ASSUME IInv, Disconnect
  PROVE  IInv'
<1>1. /\ conn' = [conn EXCEPT !.link = FALSE, !.ready = FALSE]
      /\ wait = NotWaiting /\ air' = <<>> /\ asked' = <<>>
      /\ UNCHANGED <<inbox, wait, last, shown, seen, answer>>
  BY DEF Disconnect
<1>2. conn' \in ConnType /\ ~conn'.link /\ ~conn'.ready /\ conn'.seq = conn.seq
  BY <1>1 DEF IInv, TypeInv, ConnType
<1>3. wait.for = "nothing"
  BY <1>1 DEF NotWaiting
<1>4. TypeInv'
  BY <1>1, <1>2, <1>3, NoFrames DEF IInv, TypeInv
<1>5. Pending' \subseteq Pending
  BY <1>1, NoFrames DEF Pending
<1>6. InStep' /\ Matched' /\ Collected'
  BY <1>1, <1>2, <1>5, AnswersShrink, SameCollected DEF IInv
<1>7. InOrder' /\ PushKept'
  BY <1>1, <1>2, NoFrames DEF IInv, InOrder, PushKept
<1> QED
  BY <1>1, <1>4, <1>6, <1>7, SameAnswer DEF IInv

LEMMA BecomeReadyStep ==
  ASSUME IInv, BecomeReady
  PROVE  IInv'
<1>1. /\ conn.link /\ conn' = [conn EXCEPT !.ready = TRUE]
      /\ UNCHANGED <<inbox, wait, air, asked, last, shown, seen, answer>>
  BY DEF BecomeReady
<1>2. conn' \in ConnType /\ conn'.link = conn.link /\ conn'.seq = conn.seq
  BY <1>1 DEF IInv, TypeInv, ConnType
<1>3. TypeInv'
  BY <1>1, <1>2 DEF IInv, TypeInv
<1>4. InStep' /\ Matched' /\ Collected'
  BY <1>1, <1>2, AnswersShrink, SameCollected DEF IInv, Pending
<1>5. InOrder' /\ PushKept'
  BY <1>1, <1>2, SamePushes DEF IInv, InOrder
<1> QED
  BY <1>1, <1>3, <1>4, <1>5, SameAnswer DEF IInv

LEMMA NotifyStep ==
  ASSUME IInv, Notify
  PROVE  IInv'
<1> DEFINE f == Head(air)
           pushes == IF f.kind = "push" THEN {f.n} ELSE {}
<1>1. /\ conn.link /\ air # <<>> /\ air' = Tail(air)
      /\ inbox' = IF Dispatched(f) THEN inbox ELSE Append(inbox, f)
      /\ shown' = IF Dispatched(f) THEN f.n ELSE shown
      /\ seen' = [arrived |-> seen.arrived \union pushes,
                  early |-> IF conn.ready THEN seen.early ELSE seen.early \union pushes,
                  handled |-> IF Dispatched(f) THEN seen.handled \union pushes ELSE seen.handled]
      /\ UNCHANGED <<conn, wait, asked, last, answer>>
  BY DEF Notify
<1>2. air \in Seq(Frames) /\ inbox \in Seq(Frames)
  BY DEF IInv, TypeInv
<1>3. /\ f \in Frames /\ f \in Elems(air) /\ air' \in Seq(Frames)
      /\ Elems(air') \subseteq Elems(air) /\ Under(air') \subseteq Under(air)
      /\ f.kind # "push" => f \in Under(air)
      /\ Increasing(air')
      /\ f.kind = "push" => \A g \in Elems(air') : g.kind = "push" => f.n < g.n
  BY <1>1, <1>2, TakeHead DEF IInv, InOrder
<1>4. Dispatched(f) <=> f.kind = "push" /\ conn.ready
  BY DEF Dispatched
<1> HIDE DEF f
<1>5. /\ Append(inbox, f) \in Seq(Frames)
      /\ Under(Append(inbox, f)) = IF f.kind = "push" THEN Under(inbox) ELSE Under(inbox) \union {f}
      /\ Held(Append(inbox, f)) = IF f.kind = "push" THEN Held(inbox) \union {f.n} ELSE Held(inbox)
  BY <1>2, <1>3, AddFrame
<1>6. f.n \in Nat /\ pushes \subseteq {f.n}
  BY <1>3 DEF Frames
<1>7. f.kind = "push" => f.n <= last.push /\ shown < f.n /\ \A m \in seen.arrived : m < f.n
  BY <1>3 DEF IInv, InOrder
<1>8. TypeInv'
  <2>1. inbox' \in Seq(Frames)
    BY <1>1, <1>2, <1>5
  <2>2. seen' \in SeenType
    BY <1>1, <1>6 DEF IInv, TypeInv, SeenType
  <2>3. shown' \in Nat /\ shown' <= last'.push
    BY <1>1, <1>4, <1>6, <1>7 DEF IInv, TypeInv
  <2> QED
    BY <1>1, <1>3, <2>1, <2>2, <2>3 DEF IInv, TypeInv
<1>9. Pending' \subseteq Pending
  <2>1. Under(inbox') \subseteq Under(inbox) \union Under(air)
    BY <1>1, <1>3, <1>5
  <2> QED
    BY <1>3, <2>1 DEF Pending
<1>10. InStep' /\ Matched' /\ Collected'
  BY <1>1, <1>9, AnswersShrink, SameCollected DEF IInv
<1>11. PushKept'
  <2>1. seen.arrived = seen.handled \union Held(inbox) \union Held(wait.deferred)
    BY <1>1 DEF IInv, PushKept
  <2>2. /\ seen'.arrived = seen.arrived \union pushes
        /\ seen'.handled = IF Dispatched(f) THEN seen.handled \union pushes ELSE seen.handled
    BY <1>1
  <2>3. CASE Dispatched(f)
    BY <1>1, <2>1, <2>2, <2>3 DEF PushKept
  <2>4. CASE ~Dispatched(f)
    BY <1>1, <1>5, <2>1, <2>2, <2>4 DEF PushKept
  <2> QED
    BY <2>3, <2>4
<1>12. InOrder'
  <2>1. /\ seen'.arrived = seen.arrived \union pushes
        /\ seen'.early = IF conn.ready THEN seen.early ELSE seen.early \union pushes
    BY <1>1
  <2>2. Held(inbox') \union Held(wait'.deferred) \subseteq seen'.early
    <3>1. Held(inbox) \union Held(wait.deferred) \subseteq seen.early
      BY <1>1 DEF IInv, InOrder
    <3>2. CASE f.kind = "push"
      BY <1>1, <1>4, <1>5, <2>1, <3>1, <3>2
    <3>3. CASE f.kind # "push"
      BY <1>1, <1>4, <1>5, <2>1, <3>1, <3>3
    <3> QED
      BY <3>2, <3>3
  <2>3. \A m \in seen'.arrived : m <= last'.push
    BY <1>1, <1>7, <2>1 DEF IInv, InOrder
  <2>4. ASSUME NEW g \in Elems(air'), g.kind = "push"
        PROVE  g.n <= last'.push /\ shown' < g.n /\ \A m \in seen'.arrived : m < g.n
    <3>1. g \in Elems(air)
      BY <1>3
    <3>2. g.n <= last.push /\ shown < g.n /\ \A m \in seen.arrived : m < g.n
      BY <2>4, <3>1 DEF IInv, InOrder
    <3>3. f.kind = "push" => f.n < g.n
      BY <1>3, <2>4
    <3> QED
      BY <1>1, <1>4, <2>1, <3>2, <3>3
  <2> QED
    BY <1>3, <2>2, <2>3, <2>4 DEF InOrder
<1> QED
  BY <1>1, <1>8, <1>10, <1>11, <1>12, SameAnswer DEF IInv

\* A new request is one older than everything before it, sequence ids included.
LEMMA Older ==
  ASSUME NEW n \in Nat, NEW now \in Nat, NEW seq \in 0..(SeqMod - 1), NEW s \in Nat,
         NEW x, x.n = n, x.seq = s, Aged(x, now, seq), ~(n + Patience <= now)
  PROVE  Aged(x, now + 1, NextSeq(seq))
<1>1. SeqMod \in Nat /\ Patience \in Nat /\ Patience < SeqMod
  BY PatienceAssumption
<1>2. NextSeq(seq) = IF seq = SeqMod - 1 THEN 0 ELSE seq + 1
  <2>1. CASE seq = SeqMod - 1
    BY <1>1, <2>1 DEF NextSeq
  <2>2. CASE seq # SeqMod - 1
    <3>1. seq + 1 \in 0..(SeqMod - 1)
      BY <1>1, <2>2
    <3> QED
      BY <1>1, <2>2, <3>1 DEF NextSeq
  <2> QED
    BY <2>1, <2>2
<1>3. /\ n <= now /\ now - n < Patience
      /\ s = IF now - n <= seq THEN seq - (now - n) ELSE (seq - (now - n)) + SeqMod
  BY <1>1 DEF Aged
<1>4. n <= now + 1 /\ (now + 1) - n <= Patience
  BY <1>1, <1>3
<1>5. s = IF (now + 1) - n <= NextSeq(seq) THEN NextSeq(seq) - ((now + 1) - n)
          ELSE (NextSeq(seq) - ((now + 1) - n)) + SeqMod
  BY <1>1, <1>2, <1>3
<1> QED
  BY <1>4, <1>5 DEF Aged

LEMMA SendStep ==
  ASSUME IInv, NEW waits \in BOOLEAN, Send(waits)
  PROVE  IInv'
<1>1. /\ conn.link /\ wait = NotWaiting /\ InTime
      /\ conn' = [conn EXCEPT !.seq = NextSeq(@)]
      /\ last' = [last EXCEPT !.request = @ + 1]
      /\ wait' = IF waits THEN Waiting("ack") ELSE wait
      /\ asked' = IF waits THEN Append(asked, Request) ELSE asked
      /\ UNCHANGED <<inbox, air, shown, seen, answer>>
  BY DEF Send
<1>2. SeqMod \in Nat /\ Patience \in Nat /\ Patience < SeqMod
  BY PatienceAssumption
<1>3. conn.seq \in 0..(SeqMod - 1) /\ last.request \in Nat
  BY DEF IInv, TypeInv, ConnType, LastType
<1>4. NextSeq(conn.seq) \in 0..(SeqMod - 1)
  BY <1>2, <1>3 DEF NextSeq
<1>5. conn' \in ConnType /\ conn'.link = conn.link /\ conn'.ready = conn.ready
      /\ conn'.seq = NextSeq(conn.seq)
  BY <1>1, <1>4 DEF IInv, TypeInv, ConnType
<1>6. last' \in LastType /\ last'.request = last.request + 1 /\ last'.push = last.push
  BY <1>1 DEF IInv, TypeInv, LastType
<1>7. /\ Collected' /\ wait'.frags = {} /\ wait'.total = 0 /\ wait'.deferred = <<>>
      /\ wait' \in WaitType
  BY <1>1, NothingCollected
<1>8. asked \in Seq(Requests) /\ inbox \in Seq(Frames) /\ air \in Seq(Frames)
  BY DEF IInv, TypeInv
<1>9. Request \in Requests /\ Request.n = last.request + 1 /\ Request.seq = NextSeq(conn.seq)
  BY <1>3, <1>4 DEF Request, Requests
<1>10. asked' \in Seq(Requests)
       /\ Elems(asked') = IF waits THEN Elems(asked) \union {Request} ELSE Elems(asked)
  <2>1. CASE waits
    <3>1. asked' = Append(asked, Request)
      BY <1>1, <2>1
    <3> QED
      BY <1>8, <1>9, <2>1, <3>1, ElemsAppend
  <2>2. CASE ~waits
    BY <1>1, <1>8, <2>2
  <2> QED
    BY <2>1, <2>2
<1>11. TypeInv'
  BY <1>1, <1>5, <1>6, <1>7, <1>10 DEF IInv, TypeInv
<1>12. Pending' = Pending /\ Known' = Pending
  BY <1>1, <1>7 DEF Pending, Known
<1>13. ASSUME NEW x \in Pending \union Elems(asked) PROVE Aged(x, last'.request, conn'.seq)
  <2>1. x.n \in Nat /\ x.seq \in Nat
    BY <1>8, <1>13, ElemsIn DEF Pending, Under, Frames, Requests
  <2>2. ~(x.n + Patience <= last.request)
    <3>1. CASE x \in Under(air)
      <4>1. PICK i \in 1..Len(air) : x = air[i] /\ air[i].kind # "push"
        BY <3>1 DEF Under, Elems
      <4>2. DOMAIN air = 1..Len(air)
        BY <1>8
      <4> QED
        BY <1>1, <4>1, <4>2 DEF InTime
    <3>2. CASE x \in Under(inbox)
      <4>1. PICK i \in 1..Len(inbox) : x = inbox[i] /\ inbox[i].kind # "push"
        BY <3>2 DEF Under, Elems
      <4>2. DOMAIN inbox = 1..Len(inbox)
        BY <1>8
      <4> QED
        BY <1>1, <4>1, <4>2 DEF InTime
    <3>3. CASE x \in Elems(asked)
      <4>1. PICK i \in 1..Len(asked) : x = asked[i]
        BY <3>3 DEF Elems
      <4>2. DOMAIN asked = 1..Len(asked) /\ asked[i] \in Requests
        BY <1>8
      <4>3. asked[i].kind = "request"
        BY <4>2 DEF Requests
      <4> QED
        BY <1>1, <4>1, <4>2, <4>3 DEF InTime
    <3> QED
      BY <1>13, <3>1, <3>2, <3>3 DEF Pending
  <2>3. Aged(x, last.request, conn.seq)
    BY <1>13 DEF IInv, InStep
  <2> QED
    BY <1>3, <1>5, <1>6, <2>1, <2>2, <2>3, Older
<1>14. Aged(Request, last'.request, conn'.seq)
  BY <1>2, <1>3, <1>4, <1>5, <1>6, <1>9 DEF Aged
<1>15. InStep'
  BY <1>10, <1>12, <1>13, <1>14 DEF InStep
<1>16. \A x \in Pending \union Elems(asked) : x.n \in Nat /\ x.n <= last.request
  BY <1>3, <1>8, ElemsIn DEF IInv, InStep, Aged, Pending, Under, Frames, Requests
<1>17. Matched'
  <2>1. \A f, g \in Known' : f.n = g.n => f.total = g.total
    BY <1>12 DEF IInv, Matched, Known
  <2>2. \A f \in Known', r \in Elems(asked') : f.n # r.n
    <3>1. \A f \in Pending, r \in Elems(asked) : f.n # r.n
      BY DEF IInv, Matched, Known
    <3>2. \A f \in Pending : f.n # Request.n
      BY <1>3, <1>9, <1>16
    <3> QED
      BY <1>10, <1>12, <3>1, <3>2
  <2>3. \A i, j \in 1..Len(asked') : i # j => asked'[i].n # asked'[j].n
    <3>1. CASE ~waits
      BY <1>1, <3>1 DEF IInv, Matched
    <3>2. CASE waits
      <4>1. Len(asked') = Len(asked) + 1 /\ asked'[Len(asked) + 1] = Request
            /\ \A i \in 1..Len(asked) : asked'[i] = asked[i] /\ asked[i] \in Elems(asked)
        BY <1>1, <1>8, <1>9, <3>2 DEF Elems
      <4>2. \A i \in 1..Len(asked) : asked[i].n # Request.n
        BY <1>3, <1>9, <1>16, <4>1
      <4> SUFFICES ASSUME NEW i \in 1..(Len(asked) + 1), NEW j \in 1..(Len(asked) + 1), i # j
                   PROVE  asked'[i].n # asked'[j].n
        BY <4>1
      <4>3. (i \in 1..Len(asked) \/ i = Len(asked) + 1) /\ (j \in 1..Len(asked) \/ j = Len(asked) + 1)
        OBVIOUS
      <4> QED
        BY <4>1, <4>2, <4>3 DEF IInv, Matched
    <3> QED
      BY <3>1, <3>2
  <2> QED
    BY <2>1, <2>2, <2>3 DEF Matched
<1>18. InOrder' /\ PushKept'
  <2>1. wait.deferred = <<>>
    BY <1>1 DEF NotWaiting
  <2> QED
    BY <1>1, <1>5, <1>6, <1>7, <2>1, SamePushes DEF IInv, InOrder
<1> QED
  BY <1>1, <1>7, <1>11, <1>15, <1>17, <1>18, SameAnswer DEF IInv

\* A queued push: shown, or put aside for later.
LEMMA TakePushStep ==
  ASSUME IInv, TakePush
  PROVE  IInv'
<1> DEFINE f == Head(inbox)
<1>1. /\ wait.for = "ack" /\ inbox # <<>> /\ f.kind = "push" /\ inbox' = Tail(inbox)
      /\ UNCHANGED <<conn, air, asked, last, answer>>
      /\ IF conn.ready
         THEN shown' = f.n /\ seen' = [seen EXCEPT !.handled = @ \union {f.n}] /\ UNCHANGED wait
         ELSE wait' = [wait EXCEPT !.deferred = Append(@, f)] /\ UNCHANGED <<shown, seen>>
  BY DEF TakePush
<1>2. inbox \in Seq(Frames) /\ air \in Seq(Frames)
  BY DEF IInv, TypeInv
<1>3. /\ f \in Frames /\ inbox' \in Seq(Frames) /\ Under(inbox') \subseteq Under(inbox)
      /\ Held(inbox) = {f.n} \union Held(inbox')
  BY <1>1, <1>2, TakeHead
<1> HIDE DEF f
<1>4. f.n \in Nat /\ conn.link
  BY <1>1, <1>3 DEF IInv, TypeInv, Frames
<1>5. seen.arrived = seen.handled \union Held(inbox) \union Held(wait.deferred)
  BY <1>4 DEF IInv, PushKept
<1>6. Pending' \subseteq Pending
  BY <1>1, <1>3 DEF Pending
<1>7. CASE conn.ready
  <2>1. seen' = [seen EXCEPT !.handled = @ \union {f.n}] /\ shown' = f.n /\ wait' = wait
    BY <1>1, <1>7
  <2>2. seen' \in SeenType /\ seen'.arrived = seen.arrived /\ seen'.early = seen.early
        /\ seen'.handled = seen.handled \union {f.n}
    BY <1>4, <2>1 DEF IInv, TypeInv, SeenType
  <2>3. f.n \in seen.arrived /\ f.n <= last.push
    BY <1>3, <1>5 DEF IInv, InOrder
  <2>4. TypeInv'
    BY <1>1, <1>3, <1>4, <2>1, <2>2, <2>3 DEF IInv, TypeInv
  <2>5. InStep' /\ Matched' /\ Collected'
    BY <1>1, <1>6, <2>1, AnswersShrink, SameCollected DEF IInv
  <2>6. PushKept'
    BY <1>1, <1>3, <1>5, <2>1, <2>2 DEF PushKept
  <2>7. InOrder'
    BY <1>1, <1>3, <2>1, <2>2, <2>3 DEF IInv, InOrder
  <2> QED
    BY <1>1, <2>4, <2>5, <2>6, <2>7, SameAnswer DEF IInv
<1>8. CASE ~conn.ready
  <2>1. wait' = [wait EXCEPT !.deferred = Append(@, f)] /\ UNCHANGED <<shown, seen>>
    BY <1>1, <1>8
  <2>2. wait.deferred \in Seq(Frames)
    BY DEF IInv, TypeInv, WaitType
  <2>3. /\ Append(wait.deferred, f) \in Seq(Frames)
        /\ Elems(Append(wait.deferred, f)) = Elems(wait.deferred) \union {f}
        /\ Held(Append(wait.deferred, f)) = Held(wait.deferred) \union {f.n}
    BY <1>1, <1>3, <2>2, AddFrame
  <2>4. wait' \in WaitType /\ wait'.for = wait.for /\ wait'.frags = wait.frags
        /\ wait'.total = wait.total /\ wait'.deferred = Append(wait.deferred, f)
    BY <2>1, <2>3 DEF IInv, TypeInv, WaitType
  <2>5. TypeInv'
    BY <1>1, <1>3, <2>1, <2>4 DEF IInv, TypeInv
  <2>6. InStep' /\ Matched'
    BY <1>1, <1>6, <2>4, AnswersShrink DEF IInv
  <2>7. Collected'
    BY <1>1, <2>3, <2>4 DEF IInv, Collected
  <2>8. Held(inbox') \union Held(wait'.deferred) = Held(inbox) \union Held(wait.deferred)
    BY <1>3, <2>3, <2>4
  <2>9. InOrder' /\ PushKept'
    BY <1>1, <2>1, <2>8, SamePushes DEF IInv, InOrder
  <2> QED
    BY <1>1, <2>5, <2>6, <2>7, <2>9, SameAnswer DEF IInv
<1> QED
  BY <1>7, <1>8

\* A frame of no interest is taken from the queue.
LEMMA TakeStrayStep ==
  ASSUME IInv, TakeStray
  PROVE  IInv'
<1>1. /\ inbox # <<>> /\ Head(inbox).kind # "push" /\ inbox' = Tail(inbox)
      /\ UNCHANGED <<conn, wait, air, asked, last, shown, seen, answer>>
  BY DEF TakeStray, Stray
<1>2. inbox \in Seq(Frames)
  BY DEF IInv, TypeInv
<1>3. /\ inbox' \in Seq(Frames) /\ Under(inbox') \subseteq Under(inbox)
      /\ Held(inbox') = Held(inbox)
  BY <1>1, <1>2, TakeHead
<1>4. TypeInv'
  BY <1>1, <1>3 DEF IInv, TypeInv
<1>5. Pending' \subseteq Pending
  BY <1>1, <1>3 DEF Pending
<1>6. InStep' /\ Matched' /\ Collected'
  BY <1>1, <1>5, AnswersShrink, SameCollected DEF IInv
<1>7. InOrder' /\ PushKept'
  BY <1>1, <1>3, SamePushes DEF IInv, InOrder
<1> QED
  BY <1>1, <1>4, <1>6, <1>7, SameAnswer DEF IInv

\* A wait that ends without an answer gives back what it has put aside.
LEMMA GivenBack ==
  ASSUME IInv, NEW q \in Seq(Frames), Under(q) \subseteq Under(inbox), Held(q) = Held(inbox),
         inbox' = Drained(q), wait' = NotWaiting,
         UNCHANGED <<conn, air, asked, last, shown, seen>>
  PROVE  /\ answer' \in AnswerType => TypeInv'
         /\ InStep' /\ Matched' /\ Collected' /\ InOrder' /\ PushKept'
<1>1. wait.deferred \in Seq(Frames) /\ \A f \in Elems(wait.deferred) : f.kind = "push"
  BY DEF IInv, TypeInv, WaitType, Collected
<1>2. /\ inbox' \in Seq(Frames) /\ Under(inbox') = Under(q) \union Under(wait.deferred)
      /\ Held(inbox') = Held(q) \union Held(wait.deferred)
  BY <1>1, AddFrames DEF Drained
<1>3. Under(wait.deferred) = {}
  BY <1>1 DEF Under
<1>4. /\ Collected' /\ wait'.frags = {} /\ wait'.total = 0 /\ wait'.deferred = <<>>
      /\ wait' \in WaitType /\ Held(wait'.deferred) = {} /\ wait'.for = "nothing"
  BY NothingCollected DEF NotWaiting
<1>5. Pending' \subseteq Pending
  BY <1>2, <1>3 DEF Pending
<1>6. InStep' /\ Matched'
  BY <1>4, <1>5, AnswersShrink DEF IInv
<1>7. InOrder' /\ PushKept'
  BY <1>2, <1>4, SamePushes DEF IInv, InOrder
<1>8. answer' \in AnswerType => TypeInv'
  BY <1>2, <1>4 DEF IInv, TypeInv
<1> QED
  BY <1>4, <1>6, <1>7, <1>8

LEMMA TimeOutStep ==
  ASSUME IInv, TimeOut \/ TakeBad
  PROVE  IInv'
<1>1. inbox \in Seq(Frames) /\ answer \in AnswerType
  BY DEF IInv, TypeInv
<1>2. UNCHANGED <<conn, air, asked, last, shown, seen, answer>> /\ wait' = NotWaiting
  BY DEF TimeOut, TakeBad
<1>3. CASE TimeOut
  <2>1. inbox' = Drained(inbox)
    BY <1>3 DEF TimeOut
  <2> QED
    BY <1>1, <1>2, <2>1, GivenBack, SameAnswer DEF IInv
<1>4. CASE TakeBad
  <2>1. inbox # <<>> /\ Head(inbox).kind = "bad" /\ inbox' = Drained(Tail(inbox))
    BY <1>4 DEF TakeBad
  <2>2. /\ Tail(inbox) \in Seq(Frames) /\ Under(Tail(inbox)) \subseteq Under(inbox)
        /\ Held(Tail(inbox)) = Held(inbox)
    BY <1>1, <2>1, TakeHead
  <2> QED
    BY <1>1, <1>2, <2>1, <2>2, GivenBack, SameAnswer DEF IInv
<1> QED
  BY <1>3, <1>4

\* The fragments of one answer: two that agree on their number, and differ in index.
LEMMA TwoOrOne ==
  ASSUME NEW frags \in SUBSET Frames, IsFiniteSet(frags), NEW total \in 1..2,
         \A f \in frags : f.kind # "push" /\ f.total = total,
         \A f, g \in frags : f.idx = g.idx => f = g,
         Cardinality(frags) >= total
  PROVE  {g.idx : g \in frags} = 0..(total - 1)
<1>1. \A f \in frags : f.idx \in 0..1 /\ (total = 1 => f.idx = 0)
  BY DEF Frames
<1>2. frags # {}
  BY FS_EmptySet
<1>3. CASE total = 1
  BY <1>1, <1>2, <1>3
<1>4. CASE total = 2
  <2>1. PICK f \in frags : TRUE
    BY <1>2
  <2>2. frags # {f}
    <3>1. Cardinality({f}) = 1
      BY FS_Singleton
    <3> QED
      BY <1>4, <3>1
  <2>3. PICK g \in frags : g # f
    BY <2>1, <2>2
  <2>4. f.idx # g.idx
    BY <2>1, <2>3
  <2>5. {0, 1} \subseteq {h.idx : h \in frags}
    BY <1>1, <2>1, <2>3, <2>4
  <2>6. 0..(total - 1) = {0, 1}
    BY <1>4
  <2>7. {h.idx : h \in frags} \subseteq {0, 1}
    BY <1>1
  <2> QED
    BY <2>5, <2>6, <2>7
<1> QED
  BY <1>3, <1>4

LEMMA TakeFragmentStep ==
  ASSUME IInv, TakeFragment
  PROVE  IInv'
<1> DEFINE f == Head(inbox)
           frags == {g \in wait.frags : g.idx # f.idx} \union {f}
           total == IF f.kind = "more" THEN wait.total ELSE f.total
<1>1. /\ wait.for = "ack" /\ inbox # <<>> /\ Mine(f) /\ f.kind # "bad"
      /\ UNCHANGED <<conn, air, asked, last, shown, seen>>
      /\ IF Complete(frags, total)
         THEN /\ answer' = [n |-> last.request, frags |-> frags]
              /\ wait' = NotWaiting
              /\ inbox' = Drained(Tail(inbox))
         ELSE /\ wait' = [wait EXCEPT !.frags = frags, !.total = total]
              /\ inbox' = Tail(inbox)
              /\ UNCHANGED answer
  BY DEF TakeFragment
<1>2. f.kind # "push" /\ f.seq = conn.seq
  BY <1>1 DEF Mine
<1>3. inbox \in Seq(Frames) /\ wait.frags \subseteq Frames /\ wait.total \in 0..2
      /\ conn.link /\ last.request \in Nat /\ conn.seq \in 0..(SeqMod - 1)
  BY <1>1 DEF IInv, TypeInv, WaitType, LastType, ConnType
<1>4. /\ f \in Frames /\ f \in Under(inbox) /\ Tail(inbox) \in Seq(Frames)
      /\ Under(Tail(inbox)) \subseteq Under(inbox) /\ Held(Tail(inbox)) = Held(inbox)
  BY <1>1, <1>2, <1>3, TakeHead
<1> HIDE DEF f
<1>5. f.n = last.request
  <2>1. Aged(f, last.request, conn.seq)
    BY <1>4 DEF IInv, InStep, Pending
  <2>2. f.n \in Nat /\ Patience \in Nat /\ SeqMod \in Nat /\ Patience < SeqMod
    BY <1>4, PatienceAssumption DEF Frames
  <2> QED
    BY <1>2, <1>3, <2>1, <2>2 DEF Aged
<1>6. /\ f.total \in {1, 2} /\ f.kind \notin {"push", "bad"}
      /\ f.kind # "more" => total = f.total
  BY <1>1, <1>2, <1>4 DEF Frames
<1>7. frags \subseteq Known /\ frags \subseteq Frames /\ f \in frags
  BY <1>3, <1>4 DEF Known, Pending
<1>8. \A g \in frags : g.n = last.request /\ g.kind \notin {"push", "bad"} /\ g.total = f.total
  BY <1>4, <1>5, <1>6, <1>7 DEF IInv, Collected, Matched, Known, Pending
<1>9. \A g, h \in frags : g.idx = h.idx => g = h
  BY DEF IInv, Collected
<1>10. IsFiniteSet(frags)
  <2>1. {g \in wait.frags : g.idx # f.idx} \subseteq wait.frags /\ IsFiniteSet(wait.frags)
    BY DEF IInv, Collected
  <2>2. IsFiniteSet({g \in wait.frags : g.idx # f.idx})
    BY <2>1, FS_Subset
  <2> QED
    BY <2>2, FS_AddElement
<1>11. total # 0 => total = f.total
  <2>1. CASE f.kind = "more" /\ wait.total # 0
    <3>1. PICK g \in wait.frags : g.total = wait.total
      BY <2>1 DEF IInv, Collected
    <3>2. g.n = f.n
      BY <1>5 DEF IInv, Collected
    <3>3. g \in Known /\ f \in Known
      BY <1>7 DEF Known
    <3>4. g.total = f.total
      BY <3>2, <3>3 DEF IInv, Matched
    <3> QED
      BY <2>1, <3>1, <3>4
  <2>2. CASE f.kind = "more" /\ wait.total = 0
    BY <2>2
  <2>3. CASE f.kind # "more"
    BY <2>3
  <2> QED
    BY <2>1, <2>2, <2>3
<1>12. CASE Complete(frags, total)
  <2>1. /\ answer' = [n |-> last.request, frags |-> frags] /\ wait' = NotWaiting
        /\ inbox' = Drained(Tail(inbox))
    BY <1>1, <1>12
  <2> HIDE DEF frags, total
  <2>2. answer'.n = last.request /\ answer'.frags = frags /\ answer' \in AnswerType
    BY <1>3, <1>7, <2>1 DEF AnswerType
  <2>3. OwnAnswer'
    BY <1>8, <2>2 DEF OwnAnswer
  <2>4. {g.idx : g \in frags} = 0..(total - 1)
    <3>1. total # 0 /\ Cardinality(frags) >= total
      BY <1>12 DEF Complete
    <3>2. total = f.total /\ total \in 1..2
      BY <1>6, <1>11, <3>1
    <3>3. \A g \in frags : g.kind # "push" /\ g.total = total
      BY <1>8, <3>2
    <3> QED
      BY <1>7, <1>9, <1>10, <3>1, <3>2, <3>3, TwoOrOne
  <2>5. WholeAnswer'
    <3>1. total = f.total
      BY <1>11, <1>12 DEF Complete
    <3> QED
      BY <1>8, <2>2, <2>4, <3>1 DEF WholeAnswer
  <2> QED
    BY <1>1, <1>4, <2>1, <2>2, <2>3, <2>5, GivenBack DEF IInv
<1>13. CASE ~Complete(frags, total)
  <2>1. /\ wait' = [wait EXCEPT !.frags = frags, !.total = total] /\ inbox' = Tail(inbox)
        /\ UNCHANGED answer
    BY <1>1, <1>13
  <2>2. total \in 0..2
    BY <1>3, <1>6
  <2> HIDE DEF frags, total
  <2>3. wait' \in WaitType /\ wait'.for = wait.for /\ wait'.frags = frags /\ wait'.total = total
        /\ wait'.deferred = wait.deferred
    BY <1>7, <2>1, <2>2 DEF IInv, TypeInv, WaitType
  <2>4. TypeInv'
    BY <1>1, <1>4, <2>1, <2>3 DEF IInv, TypeInv
  <2>5. Pending' \subseteq Pending /\ Known' \subseteq Known
    BY <1>1, <1>4, <1>7, <2>1, <2>3 DEF Pending, Known
  <2>6. InStep' /\ Matched'
    BY <1>1, <2>5 DEF IInv, InStep, Matched
  <2>7. Collected'
    BY <1>1, <1>7, <1>8, <1>9, <1>10, <1>11, <2>3 DEF IInv, Collected
  <2>8. InOrder' /\ PushKept'
    BY <1>1, <1>4, <2>1, <2>3, SamePushes DEF IInv, InOrder
  <2> QED
    BY <2>1, <2>4, <2>6, <2>7, <2>8, SameAnswer DEF IInv
<1> QED
  BY <1>12, <1>13

LEMMA EventStep ==
  ASSUME IInv, AwaitEvent \/ TakeEvent \/ NoEvent
  PROVE  IInv'
<1>1. UNCHANGED <<conn, air, asked, last, shown, answer>>
  BY DEF AwaitEvent, TakeEvent, NoEvent
<1>2. inbox \in Seq(Frames) /\ (wait.for # "ack" => wait.deferred = <<>> /\ wait.frags = {})
  BY DEF IInv, TypeInv
<1>3. CASE AwaitEvent \/ NoEvent
  <2>1. wait.for # "ack" /\ UNCHANGED <<inbox, seen>> /\ wait' \in {NotWaiting, Waiting("event")}
        /\ (wait' # NotWaiting => conn.link)
    BY <1>3 DEF AwaitEvent, NoEvent, NotWaiting
  <2>2. /\ Collected' /\ wait'.frags = {} /\ wait'.total = 0 /\ wait'.deferred = <<>>
        /\ wait' \in WaitType /\ Held(wait'.deferred) = {}
    BY <2>1, NothingCollected
  <2>3. wait'.for # "nothing" => conn.link
    BY <2>1 DEF NotWaiting
  <2>4. TypeInv'
    BY <1>1, <2>1, <2>2, <2>3 DEF IInv, TypeInv
  <2>5. InStep' /\ Matched'
    BY <1>1, <1>2, <2>1, <2>2, AnswersShrink DEF IInv, Pending
  <2>6. InOrder' /\ PushKept'
    BY <1>1, <1>2, <2>1, <2>2, SamePushes DEF IInv, InOrder
  <2> QED
    BY <1>1, <2>2, <2>4, <2>5, <2>6, SameAnswer DEF IInv
<1>4. CASE TakeEvent
  <2> DEFINE f == Head(inbox)
  <2>1. /\ wait.for = "event" /\ inbox # <<>> /\ inbox' = Tail(inbox)
        /\ IF f.kind = "push"
           THEN /\ wait' \in {NotWaiting, Waiting("event")}
                /\ seen' = [seen EXCEPT !.handled = @ \union {f.n}]
           ELSE UNCHANGED <<wait, seen>>
    BY <1>4 DEF TakeEvent
  <2>2. /\ f \in Frames /\ inbox' \in Seq(Frames) /\ Under(inbox') \subseteq Under(inbox)
        /\ f.kind # "push" => Held(inbox') = Held(inbox)
        /\ f.kind = "push" => Held(inbox) = {f.n} \union Held(inbox')
    BY <1>2, <2>1, TakeHead
  <2> HIDE DEF f
  <2>3. Pending' \subseteq Pending
    BY <1>1, <2>2 DEF Pending
  <2>4. conn.link /\ wait.deferred = <<>> /\ wait.frags = {} /\ f.n \in Nat
    BY <1>2, <2>1, <2>2 DEF IInv, TypeInv, Frames
  <2>5. CASE f.kind = "push"
    <3>1. /\ wait' \in {NotWaiting, Waiting("event")}
          /\ seen' = [seen EXCEPT !.handled = @ \union {f.n}]
      BY <2>1, <2>5
    <3>2. seen' \in SeenType /\ seen'.arrived = seen.arrived /\ seen'.early = seen.early
          /\ seen'.handled = seen.handled \union {f.n}
      BY <2>4, <3>1 DEF IInv, TypeInv, SeenType
    <3>3. /\ Collected' /\ wait'.frags = {} /\ wait'.total = 0 /\ wait'.deferred = <<>>
          /\ wait' \in WaitType /\ Held(wait'.deferred) = {}
          /\ wait'.for \in {"nothing", "event"}
      BY <3>1, NothingCollected DEF NotWaiting, Waiting
    <3>4. TypeInv'
      BY <1>1, <2>2, <2>4, <3>2, <3>3 DEF IInv, TypeInv
    <3>5. InStep' /\ Matched'
      BY <1>1, <2>3, <3>3, AnswersShrink DEF IInv
    <3>6. seen.arrived = seen.handled \union Held(inbox) \union Held(wait.deferred)
      BY <2>4 DEF IInv, PushKept
    <3>7. PushKept'
      BY <2>2, <2>4, <2>5, <3>2, <3>3, <3>6, NoFrames DEF PushKept
    <3>8. InOrder'
      BY <1>1, <2>2, <2>4, <2>5, <3>2, <3>3 DEF IInv, InOrder
    <3> QED
      BY <1>1, <3>3, <3>4, <3>5, <3>7, <3>8, SameAnswer DEF IInv
  <2>6. CASE f.kind # "push"
    <3>1. UNCHANGED <<wait, seen>>
      BY <2>1, <2>6
    <3>2. TypeInv'
      BY <1>1, <2>2, <3>1 DEF IInv, TypeInv
    <3>3. InStep' /\ Matched' /\ Collected'
      BY <1>1, <2>3, <3>1, AnswersShrink, SameCollected DEF IInv
    <3>4. InOrder' /\ PushKept'
      BY <1>1, <2>2, <2>6, <3>1, SamePushes DEF IInv, InOrder
    <3> QED
      BY <1>1, <3>2, <3>3, <3>4, SameAnswer DEF IInv
  <2> QED
    BY <2>5, <2>6
<1> QED
  BY <1>3, <1>4

\* The lamp answers each request at most once, with frames that belong together.
LEMMA LampAnswersStep ==
  ASSUME IInv, LampAnswers
  PROVE  IInv'
<1> DEFINE r == Head(asked)
<1>1. /\ asked # <<>> /\ asked' = Tail(asked)
      /\ UNCHANGED <<conn, inbox, wait, last, shown, seen, answer>>
  BY DEF LampAnswers
<1>2. PICK frames \in Answers(r) \union {<<>>} : air' = air \o frames
  BY DEF LampAnswers
<1>3. asked \in Seq(Requests) /\ air \in Seq(Frames) /\ inbox \in Seq(Frames)
  BY DEF IInv, TypeInv
<1>4. /\ r \in Requests /\ asked' \in Seq(Requests) /\ Elems(asked) = {r} \union Elems(asked')
      /\ r = asked[1] /\ Len(asked') = Len(asked) - 1 /\ Len(asked) \in Nat /\ Len(asked) # 0
      /\ \A i \in 1..(Len(asked) - 1) : asked'[i] = asked[i + 1]
  BY <1>1, <1>3, ElemsTail
<1> HIDE DEF r
<1>5. r.n \in Nat /\ r.seq \in Nat
  BY <1>4 DEF Requests
<1>6. /\ frames \in Seq(Frames)
      /\ \A f \in Elems(frames) : f.kind # "push" /\ f.n = r.n /\ f.seq = r.seq
      /\ \A f, g \in Elems(frames) : f.total = g.total
  <2>1. \A kind \in {"single", "nak", "bad"} : Ack(kind, r, 0, 1) \in Frames
    BY <1>5 DEF Ack, Frames
  <2>2. Ack("start", r, 0, 2) \in Frames /\ Ack("more", r, 1, 2) \in Frames
    BY <1>5 DEF Ack, Frames
  <2>3. CASE frames = <<>>
    BY <2>3, NoFrames
  <2>4. ASSUME NEW kind \in {"single", "nak", "bad"}, frames = <<Ack(kind, r, 0, 1)>>
        PROVE  <1>6!1 /\ <1>6!2 /\ <1>6!3
    <3>1. Elems(frames) = {Ack(kind, r, 0, 1)}
      BY <2>4 DEF Elems
    <3> QED
      BY <2>1, <2>4, <3>1 DEF Ack
  <2>5. CASE frames = <<Ack("start", r, 0, 2), Ack("more", r, 1, 2)>>
    <3>1. Elems(frames) = {Ack("start", r, 0, 2), Ack("more", r, 1, 2)}
      <4>1. Len(frames) = 2 /\ frames[1] = Ack("start", r, 0, 2) /\ frames[2] = Ack("more", r, 1, 2)
        BY <2>5
      <4>2. 1..2 = {1, 2}
        OBVIOUS
      <4> QED
        BY <4>1, <4>2 DEF Elems
    <3>2. frames \in Seq(Frames)
      BY <2>2, <2>5
    <3> QED
      BY <3>1, <3>2 DEF Ack
  <2> QED
    BY <1>2, <2>3, <2>4, <2>5 DEF Answers
<1>7. /\ air' \in Seq(Frames) /\ Elems(air') = Elems(air) \union Elems(frames)
      /\ Under(air') = Under(air) \union Elems(frames) /\ Held(air') = Held(air)
      /\ Increasing(air')
  <2>1. Under(frames) = Elems(frames)
    BY <1>6 DEF Under
  <2>2. Held(frames) = {}
    BY <1>6, HeldElems
  <2>3. Increasing(air)
    BY DEF IInv, InOrder
  <2>4. \A g \in Elems(frames) : g.kind # "push"
    BY <1>6
  <2>5. /\ air \o frames \in Seq(Frames)
        /\ Elems(air \o frames) = Elems(air) \union Elems(frames)
        /\ Under(air \o frames) = Under(air) \union Under(frames)
        /\ Held(air \o frames) = Held(air) \union Held(frames)
        /\ Increasing(air \o frames)
    BY <1>3, <1>6, <2>3, <2>4, AddFrames
  <2> QED
    BY <1>2, <2>1, <2>2, <2>5
<1>8. TypeInv'
  BY <1>1, <1>4, <1>7 DEF IInv, TypeInv
<1>9. Pending' = Pending \union Elems(frames) /\ Known' = Known \union Elems(frames)
  BY <1>1, <1>7 DEF Pending, Known
<1>10. InStep'
  <2>1. Aged(r, last.request, conn.seq)
    BY <1>4 DEF IInv, InStep
  <2>2. \A f \in Elems(frames) : Aged(f, last.request, conn.seq)
    BY <1>6, <2>1 DEF Aged
  <2> QED
    BY <1>1, <1>4, <1>9, <2>2 DEF IInv, InStep
<1>11. Matched'
  <2>1. \A f \in Known : f.n # r.n
    BY <1>4 DEF IInv, Matched
  <2>2. \A f, g \in Known' : f.n = g.n => f.total = g.total
    BY <1>6, <1>9, <2>1 DEF IInv, Matched
  <2>3. \A q \in Elems(asked') : q.n # r.n
    <3> SUFFICES ASSUME NEW i \in 1..(Len(asked) - 1) PROVE asked'[i].n # r.n
      BY <1>4 DEF Elems
    <3>1. asked'[i] = asked[i + 1] /\ i + 1 \in 1..Len(asked) /\ 1 \in 1..Len(asked) /\ i + 1 # 1
      BY <1>4
    <3> QED
      BY <1>4, <3>1 DEF IInv, Matched
  <2>4. \A f \in Known', q \in Elems(asked') : f.n # q.n
    <3>1. \A f \in Known, q \in Elems(asked') : f.n # q.n
      BY <1>4 DEF IInv, Matched
    <3> QED
      BY <1>6, <1>9, <2>3, <3>1
  <2>5. \A i, j \in 1..Len(asked') : i # j => asked'[i].n # asked'[j].n
    <3> SUFFICES ASSUME NEW i \in 1..(Len(asked) - 1), NEW j \in 1..(Len(asked) - 1), i # j
                 PROVE  asked'[i].n # asked'[j].n
      BY <1>4
    <3>1. i + 1 \in 1..Len(asked) /\ j + 1 \in 1..Len(asked) /\ i + 1 # j + 1
      BY <1>4
    <3> QED
      BY <1>4, <3>1 DEF IInv, Matched
  <2> QED
    BY <2>2, <2>4, <2>5 DEF Matched
<1>12. Collected'
  BY <1>1, SameCollected DEF IInv
<1>13. InOrder' /\ PushKept'
  <2>1. \A f \in Elems(air') : f.kind = "push" => f \in Elems(air)
    BY <1>6, <1>7
  <2> QED
    BY <1>1, <1>7, <2>1 DEF IInv, InOrder, PushKept
<1> QED
  BY <1>1, <1>8, <1>10, <1>11, <1>12, <1>13, SameAnswer DEF IInv

LEMMA LampPushesStep ==
  ASSUME IInv, LampPushes
  PROVE  IInv'
<1> DEFINE f == Push(last.push + 1)
<1>1. /\ last' = [last EXCEPT !.push = @ + 1] /\ air' = Append(air, f)
      /\ UNCHANGED <<conn, inbox, wait, asked, shown, seen, answer>>
  BY DEF LampPushes
<1>2. last.push \in Nat /\ air \in Seq(Frames) /\ shown \in Nat /\ shown <= last.push
      /\ seen.arrived \subseteq Nat
  BY DEF IInv, TypeInv, LastType, SeenType
<1>3. f \in Frames /\ f.kind = "push" /\ f.n = last.push + 1
  BY <1>2 DEF Push, Frames
<1> HIDE DEF f
<1>4. \A g \in Elems(air) : g.kind = "push" => g.n < f.n
  <2>1. \A g \in Elems(air) : g.n \in Nat
    BY <1>2, ElemsIn DEF Frames
  <2>2. \A g \in Elems(air) : g.kind = "push" => g.n <= last.push
    BY DEF IInv, InOrder
  <2> QED
    BY <1>2, <1>3, <2>1, <2>2
<1>5. /\ air' \in Seq(Frames) /\ Elems(air') = Elems(air) \union {f} /\ Under(air') = Under(air)
      /\ Increasing(air')
  <2>1. Increasing(air)
    BY DEF IInv, InOrder
  <2> QED
    BY <1>1, <1>2, <1>3, <1>4, <2>1, AddFrame
<1>6. last' \in LastType /\ last'.request = last.request /\ last'.push = last.push + 1
  <2>1. last \in LastType /\ last' = [last EXCEPT !.push = @ + 1]
    BY <1>1 DEF IInv, TypeInv
  <2> QED
    BY <2>1 DEF LastType
<1>7. TypeInv'
  BY <1>1, <1>2, <1>5, <1>6 DEF IInv, TypeInv
<1>8. InStep' /\ Matched' /\ Collected'
  BY <1>1, <1>5, <1>6, AnswersShrink, SameCollected DEF IInv, Pending
<1>9. \A m \in seen.arrived : m \in Nat /\ m <= last.push
  BY <1>2 DEF IInv, InOrder
<1>10. \A g \in Elems(air') : g.kind = "push" =>
         g.n <= last'.push /\ shown < g.n /\ \A m \in seen.arrived : m < g.n
  <2>1. f.n <= last'.push /\ shown < f.n /\ \A m \in seen.arrived : m < f.n
    BY <1>2, <1>3, <1>6, <1>9
  <2>2. ASSUME NEW g \in Elems(air), g.kind = "push"
        PROVE  g.n <= last'.push /\ shown < g.n /\ \A m \in seen.arrived : m < g.n
    <3>1. g.n \in Nat
      BY <1>2, ElemsIn DEF Frames
    <3>2. g.n <= last.push /\ shown < g.n /\ \A m \in seen.arrived : m < g.n
      BY <2>2 DEF IInv, InOrder
    <3> QED
      BY <1>2, <1>6, <3>1, <3>2
  <2> QED
    BY <1>5, <2>1, <2>2
<1>11. InOrder' /\ PushKept'
  <2>1. \A m \in seen'.arrived : m <= last'.push
    BY <1>1, <1>2, <1>6, <1>9
  <2> QED
    BY <1>1, <1>5, <1>10, <2>1 DEF IInv, InOrder, PushKept
<1> QED
  BY <1>1, <1>7, <1>8, <1>11, SameAnswer DEF IInv

LEMMA FrameLostStep ==
  ASSUME IInv, FrameLost
  PROVE  IInv'
<1>1. /\ air # <<>> /\ air' = Tail(air)
      /\ UNCHANGED <<conn, inbox, wait, asked, last, shown, seen, answer>>
  BY DEF FrameLost
<1>2. air \in Seq(Frames) /\ Increasing(air)
  BY DEF IInv, TypeInv, InOrder
<1>3. /\ air' \in Seq(Frames) /\ Elems(air') \subseteq Elems(air) /\ Under(air') \subseteq Under(air)
      /\ Increasing(air')
  BY <1>1, <1>2, TakeHead
<1>4. TypeInv'
  BY <1>1, <1>3 DEF IInv, TypeInv
<1>5. Pending' \subseteq Pending
  BY <1>1, <1>3 DEF Pending
<1>6. InStep' /\ Matched' /\ Collected' /\ InOrder' /\ PushKept'
  BY <1>1, <1>3, <1>5, AnswersShrink, SameCollected, SamePushes DEF IInv
<1> QED
  BY <1>1, <1>4, <1>6, SameAnswer DEF IInv

LEMMA StutterStep ==
  ASSUME IInv, UNCHANGED vars
  PROVE  IInv'
<1>1. UNCHANGED <<conn, inbox, wait, air, asked, last, shown, seen, answer>>
  BY DEF vars
<1>2. TypeInv'
  BY <1>1 DEF IInv, TypeInv
<1>3. InStep' /\ Matched' /\ Collected' /\ InOrder' /\ PushKept'
  BY <1>1, AnswersShrink, SameCollected, SamePushes DEF IInv, InOrder, Pending
<1> QED
  BY <1>1, <1>2, <1>3, SameAnswer DEF IInv

LEMMA StepIInv == IInv /\ [Next]_vars => IInv'
<1> SUFFICES ASSUME IInv, [Next]_vars PROVE IInv'
  OBVIOUS
<1>1. CASE OpenLink \/ BecomeReady \/ Disconnect
  BY <1>1, OpenLinkStep, BecomeReadyStep, DisconnectStep
<1>2. CASE Notify
  BY <1>2, NotifyStep
<1>3. ASSUME NEW waits \in BOOLEAN, Send(waits) PROVE IInv'
  BY <1>3, SendStep
<1>4. CASE TakePush \/ TakeStray \/ TakeFragment
  BY <1>4, TakePushStep, TakeStrayStep, TakeFragmentStep
<1>5. CASE TimeOut \/ TakeBad
  BY <1>5, TimeOutStep
<1>6. CASE AwaitEvent \/ TakeEvent \/ NoEvent
  BY <1>6, EventStep
<1>7. CASE LampAnswers
  BY <1>7, LampAnswersStep
<1>8. CASE LampPushes \/ FrameLost
  BY <1>8, LampPushesStep, FrameLostStep
<1>9. CASE UNCHANGED vars
  BY <1>9, StutterStep
<1> QED
  BY <1>1, <1>2, <1>3, <1>4, <1>5, <1>6, <1>7, <1>8, <1>9 DEF Next

-----------------------------------------------------------------------------
(* The theorems *)

\* What the other theorems rest on, an inductive invariant of the module.
THEOREM Invariance == Spec => []IInv
<1> QED
  BY InitIInv, StepIInv, PTL DEF Spec

\* Type correctness, with no wait that has anything left over from the one before it.
THEOREM TypeCorrect == Spec => []TypeOK
<1>1. IInv => TypeOK
  <2> SUFFICES ASSUME IInv PROVE TypeOK
    OBVIOUS
  <2>1. SeqMod \in Nat
    BY PatienceAssumption
  <2>2. last.push \in Nat /\ shown \in Nat /\ shown <= last.push
    BY DEF IInv, TypeInv, LastType
  <2> QED
    BY <2>1, <2>2 DEF IInv, TypeInv, ConnType, WaitType, TypeOK
<1> QED
  BY <1>1, Invariance, PTL

\* With any number of sequence ids, no answer that is late by fewer requests is taken for
\* the answer to a later one (_await_ack): Patience < SeqMod is what it takes.
THEOREM AnswersAreOwn == Spec => []OwnAnswer
<1>1. IInv => OwnAnswer
  BY DEF IInv
<1> QED
  BY <1>1, Invariance, PTL

\* An answer in fragments is handed on whole, whichever of them arrive, and in whichever
\* order the wait meets them.
THEOREM AnswersAreWhole == Spec => []WholeAnswer
<1>1. IInv => WholeAnswer
  BY DEF IInv
<1> QED
  BY <1>1, Invariance, PTL

\* No push gets lost between _notif_handler and the entity, however many requests wait,
\* time out and fail in between.
THEOREM PushesAreKept == Spec => []PushKept
<1>1. IInv => PushKept
  BY DEF IInv
<1> QED
  BY <1>1, Invariance, PTL

\* Whatever was in the air, in the queue or put aside, an older state is shown after a newer
\* one only if it came while the link was being set up.
THEOREM InOrderOnceReady == Spec => LateOnlyFromSetUp
<1>1. IInv /\ [Next]_vars => [shown' < shown => shown' \in seen.early]_vars
  <2> SUFFICES ASSUME IInv, [Next]_vars, shown' # shown, shown' < shown
               PROVE  shown' \in seen.early
    BY DEF IInv, TypeInv
  <2>1. Notify \/ TakePush
    BY DEF Next, vars, OpenLink, BecomeReady, Disconnect, Send, TakeStray, TakeFragment, TakeBad,
           TimeOut, AwaitEvent, TakeEvent, NoEvent, LampAnswers, LampPushes, FrameLost
  <2>2. inbox \in Seq(Frames) /\ air \in Seq(Frames)
    BY DEF IInv, TypeInv
  <2>3. CASE Notify
    <3>1. air # <<>> /\ Dispatched(Head(air)) /\ shown' = Head(air).n
      BY <2>3 DEF Notify
    <3>2. Head(air) \in Elems(air) /\ Head(air) \in Frames /\ Head(air).kind = "push"
      BY <2>2, <3>1, TakeHead DEF Dispatched
    <3>3. shown < Head(air).n /\ Head(air).n \in Nat /\ shown \in Nat
      BY <3>2 DEF IInv, InOrder, TypeInv, Frames
    <3> QED
      BY <3>1, <3>3
  <2>4. CASE TakePush
    <3>1. /\ wait.for = "ack" /\ inbox # <<>> /\ Head(inbox).kind = "push"
          /\ shown' = Head(inbox).n
      BY <2>4 DEF TakePush
    <3>2. Head(inbox).n \in Held(inbox)
      BY <2>2, <3>1, TakeHead
    <3>3. conn.link
      BY <3>1 DEF IInv, TypeInv
    <3> QED
      BY <3>1, <3>2, <3>3 DEF IInv, InOrder
  <2> QED
    BY <2>1, <2>3, <2>4
<1> QED
  BY <1>1, Invariance, PTL DEF Spec, LateOnlyFromSetUp
=============================================================================
