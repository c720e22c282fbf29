----------------------------- MODULE AckChannel -----------------------------
(***************************************************************************)
(* What the connection hears from the lamp: _notif_handler() and            *)
(* _dispatch_event(), the acknowledgement a request waits for in            *)
(* _send_frames() and _await_ack(), _wait_for_event(), and the one queue    *)
(* between them. Notifications arrive in the order the lamp sent them, at   *)
(* any moment, some never; the code that waits sees them later.            *)
(*                                                                         *)
(* A state push is a number, counting the changes of the lamp's state. A    *)
(* request is a number too, which the frames of its answer carry beside the *)
(* sequence id, for the properties to look at. What is encrypted, and how,  *)
(* is left out; a frame the decryption raises on is "bad".                  *)
(***************************************************************************)
EXTENDS Naturals, Sequences, FiniteSets

CONSTANTS
  SeqMod,       \* sequence ids: 256 in the program
  Patience,     \* how many requests an answer may be late by
  MaxRequests, MaxPushes, MaxLinks     \* bounds

ASSUME PatienceAssumption == SeqMod \in Nat /\ Patience \in Nat /\ Patience < SeqMod

VARIABLES
  conn,      \* _client, _ready, _seq
  inbox,     \* _ack_queue
  wait,      \* the code that awaits a frame, and its locals
  air,       \* frames on their way from the lamp
  asked,     \* requests the lamp has not answered yet
  last,      \* the number of the last request, push and link
  shown,     \* the push the entity shows
  seen,      \* history: pushes that arrived on this link, on it while not ready, and
             \* pushes of it that reached a consumer
  answer     \* history: what the last request to be answered got

vars == <<conn, inbox, wait, air, asked, last, shown, seen, answer>>

Push(n) == [kind |-> "push", n |-> n, seq |-> 0, idx |-> 0, total |-> 0]
Ack(kind, r, idx, total) ==
  [kind |-> kind, n |-> r.n, seq |-> r.seq, idx |-> idx, total |-> total]

NotWaiting == [for |-> "nothing", frags |-> {}, total |-> 0, deferred |-> <<>>]
Waiting(what) == [NotWaiting EXCEPT !.for = what]
NothingSeen == [arrived |-> {}, early |-> {}, handled |-> {}]

Init ==
  /\ conn = [link |-> FALSE, ready |-> FALSE, seq |-> 0]
  /\ inbox = <<>> /\ air = <<>> /\ asked = <<>>
  /\ wait = NotWaiting
  /\ last = [request |-> 0, push |-> 0, link |-> 0]
  /\ shown = 0
  /\ seen = NothingSeen
  /\ answer = [n |-> 0, frags |-> {}]

-----------------------------------------------------------------------------
(* The link. *)

\* Mutant: frames of the last link stay in the queue.
NotFlushed == inbox

\* What _open_link() leaves of the queue.
Flushed == <<>>

OpenLink ==
  /\ ~conn.link /\ last.link < MaxLinks
  /\ conn' = [conn EXCEPT !.link = TRUE]
  /\ inbox' = Flushed
  /\ air' = <<>> /\ asked' = <<>>
  /\ last' = [last EXCEPT !.link = @ + 1]
  /\ seen' = NothingSeen
  /\ UNCHANGED <<wait, shown, answer>>

\* The link is set up: from here pushes go to the entity.
BecomeReady ==
  /\ conn.link /\ ~conn.ready /\ wait = NotWaiting
  /\ conn' = [conn EXCEPT !.ready = TRUE]
  /\ UNCHANGED <<inbox, wait, air, asked, last, shown, seen, answer>>

Disconnect ==
  /\ conn.link /\ wait = NotWaiting
  /\ conn' = [conn EXCEPT !.link = FALSE, !.ready = FALSE]
  /\ air' = <<>> /\ asked' = <<>>
  /\ UNCHANGED <<inbox, wait, last, shown, seen, answer>>

-----------------------------------------------------------------------------
(* _notif_handler() *)

\* A push is dispatched as it arrives once the session is ready.
Dispatched(f) == f.kind = "push" /\ conn.ready

Notify ==
  /\ conn.link /\ air # <<>>
  /\ LET f == Head(air)
         pushes == IF f.kind = "push" THEN {f.n} ELSE {}
     IN /\ inbox' = IF Dispatched(f) THEN inbox ELSE Append(inbox, f)
        /\ shown' = IF Dispatched(f) THEN f.n ELSE shown
        /\ seen' = [arrived |-> seen.arrived \union pushes,
                    early |-> IF conn.ready THEN seen.early ELSE seen.early \union pushes,
                    handled |-> IF Dispatched(f) THEN seen.handled \union pushes
                                ELSE seen.handled]
  /\ air' = Tail(air)
  /\ UNCHANGED <<conn, wait, asked, last, answer>>

-----------------------------------------------------------------------------
(* _send_frames() and _await_ack() *)

\* Mutant: a retry uses the sequence id of the request it repeats.
SameSeq(s) == s

\* _next_seq()
NextSeq(s) == (s + 1) % SeqMod

\* No answer that is still on its way is older than Patience requests.
InTime ==
  LET Late(s) == \E i \in DOMAIN s : s[i].kind # "push" /\ s[i].n + Patience <= last.request
  IN ~Late(air) /\ ~Late(inbox) /\ ~Late(asked)

Request ==
  [kind |-> "request", n |-> last.request + 1, seq |-> NextSeq(conn.seq)]

\* A request that waits for its answer, and one that does not: send_led() and
\* set_module_time().
Send(waits) ==
  /\ conn.link /\ wait = NotWaiting
  /\ last.request < MaxRequests /\ InTime
  /\ conn' = [conn EXCEPT !.seq = NextSeq(@)]
  /\ last' = [last EXCEPT !.request = @ + 1]
  /\ wait' = IF waits THEN Waiting("ack") ELSE wait
  /\ asked' = IF waits THEN Append(asked, Request) ELSE asked
  /\ UNCHANGED <<inbox, air, shown, seen, answer>>

\* Mutant: what was deferred is dropped with the exception.
DroppedWith(q) == q

\* The finally clause: deferred pushes go back, behind what is in the queue by now.
Drained(q) == q \o wait.deferred

\* A queued push met while an answer is awaited: dispatched, or deferred.
TakePush ==
  /\ wait.for = "ack" /\ inbox # <<>>
  /\ LET f == Head(inbox)
     IN /\ f.kind = "push"
        /\ IF conn.ready
           THEN shown' = f.n /\ seen' = [seen EXCEPT !.handled = @ \union {f.n}]
                /\ UNCHANGED wait
           ELSE wait' = [wait EXCEPT !.deferred = Append(@, f)] /\ UNCHANGED <<shown, seen>>
  /\ inbox' = Tail(inbox)
  /\ UNCHANGED <<conn, air, asked, last, answer>>

\* The answer to another request is no answer.
Stray(f) == f.kind # "push" /\ f.seq # conn.seq

TakeStray ==
  /\ wait.for = "ack" /\ inbox # <<>> /\ Stray(Head(inbox))
  /\ inbox' = Tail(inbox)
  /\ UNCHANGED <<conn, wait, air, asked, last, shown, seen, answer>>

Mine(f) == f.kind # "push" /\ f.seq = conn.seq

\* Mutant: the first fragment is the answer.
AnyFragment(frags, total) == frags # {}

\* Every fragment that the start frame has announced.
Complete(frags, total) == total # 0 /\ Cardinality(frags) >= total

TakeFragment ==
  /\ wait.for = "ack" /\ inbox # <<>> /\ Mine(Head(inbox)) /\ Head(inbox).kind # "bad"
  /\ LET f == Head(inbox)
         frags == {g \in wait.frags : g.idx # f.idx} \union {f}
         total == IF f.kind = "more" THEN wait.total ELSE f.total
     IN IF Complete(frags, total)
        THEN /\ answer' = [n |-> last.request, frags |-> frags]
             /\ wait' = NotWaiting
             /\ inbox' = Drained(Tail(inbox))
        ELSE /\ wait' = [wait EXCEPT !.frags = frags, !.total = total]
             /\ inbox' = Tail(inbox)
             /\ UNCHANGED answer
  /\ UNCHANGED <<conn, air, asked, last, shown, seen>>

\* decode_fragment() raises: the request fails.
TakeBad ==
  /\ wait.for = "ack" /\ inbox # <<>> /\ Mine(Head(inbox)) /\ Head(inbox).kind = "bad"
  /\ inbox' = Drained(Tail(inbox))
  /\ wait' = NotWaiting
  /\ UNCHANGED <<conn, air, asked, last, shown, seen, answer>>

\* Mutant: the fragments outlive the wait they were for.
TimeOutKeepsFragments ==
  /\ wait.for = "ack"
  /\ inbox' = Drained(inbox)
  /\ wait' = [wait EXCEPT !.for = "nothing", !.deferred = <<>>]
  /\ UNCHANGED <<conn, air, asked, last, shown, seen, answer>>

\* No complete answer within three seconds.
TimeOut ==
  /\ wait.for = "ack"
  /\ inbox' = Drained(inbox)
  /\ wait' = NotWaiting
  /\ UNCHANGED <<conn, air, asked, last, shown, seen, answer>>

-----------------------------------------------------------------------------
(* _wait_for_event(), at the end of a pairing: takes frames from the queue up to the *)
(* first push that tells of the light, or until its time is up. What it takes it logs  *)
(* at most, and a push that tells of something else, or nothing, does not end it.     *)

AwaitEvent ==
  /\ conn.link /\ ~conn.ready /\ wait = NotWaiting
  /\ wait' = Waiting("event")
  /\ UNCHANGED <<conn, inbox, air, asked, last, shown, seen, answer>>

TakeEvent ==
  /\ wait.for = "event" /\ inbox # <<>>
  /\ LET f == Head(inbox)
     IN IF f.kind = "push"
        THEN /\ wait' \in {NotWaiting, Waiting("event")}
             /\ seen' = [seen EXCEPT !.handled = @ \union {f.n}]
        ELSE UNCHANGED <<wait, seen>>
  /\ inbox' = Tail(inbox)
  /\ UNCHANGED <<conn, air, asked, last, shown, answer>>

NoEvent ==
  /\ wait.for = "event"
  /\ wait' = NotWaiting
  /\ UNCHANGED <<conn, inbox, air, asked, last, shown, seen, answer>>

-----------------------------------------------------------------------------
(* The lamp and the radio. *)

\* An answer in one frame, a refusal, one that cannot be decoded, or one in two frames.
Answers(r) ==
  {<<Ack("single", r, 0, 1)>>, <<Ack("nak", r, 0, 1)>>, <<Ack("bad", r, 0, 1)>>,
   <<Ack("start", r, 0, 2), Ack("more", r, 1, 2)>>}

LampAnswers ==
  /\ asked # <<>>
  /\ \E frames \in Answers(Head(asked)) \union {<<>>} : air' = air \o frames
  /\ asked' = Tail(asked)
  /\ UNCHANGED <<conn, inbox, wait, last, shown, seen, answer>>

LampPushes ==
  /\ conn.link /\ last.push < MaxPushes
  /\ last' = [last EXCEPT !.push = @ + 1]
  /\ air' = Append(air, Push(last.push + 1))
  /\ UNCHANGED <<conn, inbox, wait, asked, shown, seen, answer>>

FrameLost ==
  /\ air # <<>>
  /\ air' = Tail(air)
  /\ UNCHANGED <<conn, inbox, wait, asked, last, shown, seen, answer>>

Next ==
  \/ OpenLink \/ BecomeReady \/ Disconnect \/ Notify
  \/ \E waits \in BOOLEAN : Send(waits)
  \/ TakePush \/ TakeStray \/ TakeFragment \/ TakeBad \/ TimeOut
  \/ AwaitEvent \/ TakeEvent \/ NoEvent
  \/ LampAnswers \/ LampPushes \/ FrameLost

Spec == Init /\ [][Next]_vars

-----------------------------------------------------------------------------
(* Properties *)

Held(q) == {q[i].n : i \in {j \in DOMAIN q : q[j].kind = "push"}}

\* Every variable holds a value of its kind, and a wait has nothing left over from the
\* one before it.
TypeOK ==
  /\ conn.link \in BOOLEAN /\ conn.ready \in BOOLEAN /\ conn.seq \in 0..SeqMod - 1
  /\ conn.ready => conn.link
  /\ wait.for \in {"nothing", "ack", "event"} /\ wait.total \in 0..2
  /\ wait.for # "ack" => wait.frags = {} /\ wait.total = 0 /\ wait.deferred = <<>>
  /\ shown \in 0..last.push

\* Whatever a request is answered with was sent in answer to that request: not to one
\* that timed out before it, though the lamp may still be busy with that one.
OwnAnswer == \A f \in answer.frags : f.n = answer.n

\* A long answer is handed on whole: its fragments are those its start frame announced.
WholeAnswer ==
  \A f \in answer.frags : {g.idx : g \in answer.frags} = 0..f.total - 1

\* No push gets lost inside the connection: what arrived on this link has been handed
\* on, or taken by the wait at the end of a pairing, or is still held, and will be looked at
\* by the next request.
PushKept ==
  seen.arrived = seen.handled \union Held(inbox) \union Held(wait.deferred)
  \/ ~conn.link

\* Only pushes that arrived while this link was being set up can be late: none that an
\* earlier link has left behind, and afterwards the entity follows the lamp in the lamp's
\* order, whatever else is under way.
LateOnlyFromSetUp == [][shown' < shown => shown' \in seen.early]_vars

\* The entity "can be trusted to follow the lamp": it never goes back to an older state.
NeverBackwards == [][shown' >= shown]_vars
=============================================================================
