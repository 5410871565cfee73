-------------------------- MODULE ChannelPipeline --------------------------
(***************************************************************************)
(* The program of test/channel.cpp: t0 sends N strings through ch1, t1     *)
(* processes each of them and forwards it through ch2, t2 collects them.   *)
(* Both channels are instances of Channel with a single producer and a     *)
(* single consumer; a stage that has seen the end of its input closes its  *)
(* output.  This composes two channels, and a thread (t1) that is the      *)
(* consumer of one and the producer of the other.                          *)
(***************************************************************************)
EXTENDS Naturals, Sequences

CONSTANTS N,            \* nb_items
          Max1, Max2,   \* the sizes of ch1 and ch2
          t0, t1, t2,   \* the threads
          None          \* t1 holds no string

Raw == 0 .. N - 1
Processed(i) == <<i, "processed">>

(* Three threads, and the precondition that Channel's constructor asserts. *)
ASSUME PipelineAssumption ==
    /\ N \in Nat
    /\ Max1 \in Nat \ {0} /\ Max2 \in Nat \ {0}
    /\ t0 # t1 /\ t0 # t2 /\ t1 # t2
    /\ None \notin {Processed(i) : i \in Raw}

VARIABLES items1, closed1, pc1,     \* ch1
          items2, closed2, pc2,     \* ch2
          sent,                     \* t0: the loop counter i
          hand,                     \* t1: the string s, None before a pop()
          drained,                  \* the threads whose pop() returned false
          result                    \* t2: the vector result

vars1 == <<items1, closed1, pc1>>
vars2 == <<items2, closed2, pc2>>
vars == <<vars1, vars2, sent, hand, drained, result>>

Ch1 == INSTANCE Channel WITH
    Threads <- {t0, t1}, Producers <- {t0}, Consumers <- {t1}, Closers <- {t0},
    Clearers <- {}, Values <- Raw, Bounded <- TRUE, Sp <- TRUE, Sc <- TRUE,
    Max <- Max1, Backlog <- 0, MayThrow <- {},
    items <- items1, closed <- closed1, pc <- pc1

Ch2 == INSTANCE Channel WITH
    Threads <- {t1, t2}, Producers <- {t1}, Consumers <- {t2}, Closers <- {t1},
    Clearers <- {}, Values <- {Processed(i) : i \in Raw}, Bounded <- TRUE,
    Sp <- TRUE, Sc <- TRUE, Max <- Max2, Backlog <- 0, MayThrow <- {},
    items <- items2, closed <- closed2, pc <- pc2

Init ==
    /\ Ch1!Init /\ Ch2!Init
    /\ sent = 0 /\ hand = None /\ drained = {} /\ result = <<>>

(* t0: for (i...) ch1.emplace(data i);  ch1.close()                        *)
T0 ==
    /\ UNCHANGED <<vars2, hand, drained, result>>
    /\ \/ sent < N /\ Ch1!CallEmplace(t0) /\ UNCHANGED sent
       \/ Ch1!EmplacePush(t0, sent) /\ sent' = sent + 1
       \/ sent = N /\ ~closed1 /\ Ch1!CallClose(t0) /\ UNCHANGED sent
       \/ Ch1!Inside(t0) /\ UNCHANGED sent

(* t1: while (ch1.pop(s)) ch2.emplace(s processed);  ch2.close()           *)
T1Receive ==
    /\ pc2[t1] = "idle"
    /\ UNCHANGED <<vars2, sent, result>>
    /\ \/ hand = None /\ t1 \notin drained /\ Ch1!CallPop(t1) /\ UNCHANGED <<hand, drained>>
       \/ Ch1!PopTake(t1) /\ hand' = Processed(Head(items1)) /\ UNCHANGED drained
       \/ Ch1!PopEnd(t1) /\ drained' = drained \cup {t1} /\ UNCHANGED hand
       \/ Ch1!Inside(t1) /\ UNCHANGED <<hand, drained>>

T1Forward ==
    /\ pc1[t1] = "idle"
    /\ UNCHANGED <<vars1, sent, drained, result>>
    /\ \/ hand # None /\ Ch2!CallEmplace(t1) /\ UNCHANGED hand
       \/ Ch2!EmplacePush(t1, hand) /\ hand' = None
       \/ t1 \in drained /\ ~closed2 /\ Ch2!CallClose(t1) /\ UNCHANGED hand
       \/ Ch2!Inside(t1) /\ UNCHANGED hand

T1 == T1Receive \/ T1Forward

(* t2: while (ch2.pop(s)) result.push_back(s)                              *)
T2 ==
    /\ UNCHANGED <<vars1, sent, hand>>
    /\ \/ t2 \notin drained /\ Ch2!CallPop(t2) /\ UNCHANGED <<drained, result>>
       \/ Ch2!PopTake(t2) /\ result' = Append(result, Head(items2)) /\ UNCHANGED drained
       \/ Ch2!PopEnd(t2) /\ drained' = drained \cup {t2} /\ UNCHANGED result
       \/ Ch2!Inside(t2) /\ UNCHANGED <<drained, result>>

SpuriousWake ==
    /\ UNCHANGED <<sent, hand, drained, result>>
    /\ \/ (\E t \in {t0, t1} : Ch1!SpuriousWake(t)) /\ UNCHANGED vars2
       \/ (\E t \in {t1, t2} : Ch2!SpuriousWake(t)) /\ UNCHANGED vars1

Next == T0 \/ T1 \/ T2 \/ SpuriousWake

Spec == Init /\ [][Next]_vars /\ WF_vars(T0) /\ WF_vars(T1) /\ WF_vars(T2)

-----------------------------------------------------------------------------
(* Types, those of the two channels included.                              *)
TypeOK ==
    /\ Ch1!TypeOK /\ Ch2!TypeOK
    /\ sent \in 0 .. N
    /\ hand \in {Processed(i) : i \in Raw} \cup {None}
    /\ drained \subseteq {t1, t2}

Expected(n) == [i \in 1 .. n |-> Processed(i - 1)]

(* At every moment the strings in the two queues, the one in t1's hand and *)
(* those collected are exactly the strings sent so far, each of them once  *)
(* and in the order they were sent; and when t2's loop has ended, at the   *)
(* first pop() of ch2 that says false, all of them have arrived: no stage  *)
(* takes a queue that is empty for a while, or a close() that comes while  *)
(* items are left, for the end (test/channel.cpp:43-49).                   *)
NothingLostOrReordered ==
    LET inHand == IF hand = None THEN <<>> ELSE <<hand>>
        inCh1 == [i \in 1 .. Len(items1) |-> Processed(items1[i])]
    IN  /\ result \o items2 \o inHand \o inCh1 = Expected(sent)
        /\ t2 \in drained => result = Expected(N)

(* The three join() calls return, and the assertion of test/channel.cpp:46 *)
(* finds nb_items results: no stage sleeps for ever on either channel.     *)
Joined == drained = {t1, t2} /\ closed1 /\ closed2
Terminates == <>[](Joined /\ result = Expected(N))

=============================================================================
