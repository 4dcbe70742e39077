----------------------------- MODULE ByteQueue -----------------------------
(***************************************************************************)
(* What a receiving UART promises its readers: bytes come out in the order *)
(* in which they came in, each to one reader and once, and none comes out  *)
(* that did not come in.  Bytes disappear only while the port is lossy:    *)
(* being flushed, or overrun.  Bytes are numbered modulo Marks.            *)
(***************************************************************************)
EXTENDS Naturals, Sequences

CONSTANTS Tasks, Marks

VARIABLES queue,        \* bytes received and not yet read
          buf,          \* what each task's call in progress has got
          next,         \* the byte that comes next
          lossy         \* a flush or an overrun is under way

queueVars == <<queue, buf, next, lossy>>

Cut(s, i, j) == SubSeq(s, 1, i - 1) \o SubSeq(s, j + 1, Len(s))

QueueInit ==
  queue = << >> /\ buf = [t \in Tasks |-> << >>] /\ next = 0 /\ lossy = FALSE

Comes  == next' = (next + 1) % Marks /\ UNCHANGED buf
Arrive == Comes /\ queue' = Append(queue, next)

\* A byte that finds no room is lost, and the port overrun.
Overrun == Comes /\ lossy' /\ UNCHANGED queue

Deliver(t) ==
  /\ \E n \in 1 .. Len(queue) :
       /\ buf' = [buf EXCEPT ![t] = @ \o SubSeq(queue, 1, n)]
       /\ queue' = Cut(queue, 1, n)
  /\ UNCHANGED next

Return(t) == buf' = [buf EXCEPT ![t] = << >>] /\ UNCHANGED <<queue, next>>

Lose ==
  /\ lossy
  /\ \E i, j \in 1 .. Len(queue) : i <= j /\ queue' = Cut(queue, i, j)
  /\ UNCHANGED <<buf, next>>

\* Flushes and overruns begin and end at any time.
Change == lossy' # lossy /\ UNCHANGED <<queue, buf, next>>

QueueNext == \/ Arrive \/ Overrun \/ Lose \/ Change
             \/ \E t \in Tasks : Deliver(t) \/ Return(t)

QueueSpec == QueueInit /\ [][QueueNext]_queueVars

=============================================================================
