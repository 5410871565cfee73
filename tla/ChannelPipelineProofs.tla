----------------------- MODULE ChannelPipelineProofs -----------------------
(***************************************************************************)
(* Proofs about ChannelPipeline, for any number of strings and any sizes   *)
(* of the two channels.                                                    *)
(***************************************************************************)
EXTENDS ChannelPipeline, SequenceTheorems, TLAPS

Strings == {Processed(i) : i \in Raw}

-----------------------------------------------------------------------------
(* Sequences.                                                              *)

(* Concatenation and one-element sequences under names of their own, so    *)
(* that only the laws stated here are used of them.                        *)
Cat(s, t) == s \o t
One(e) == <<e>>
Appends(s, e, t) == t = Append(s, e)

LEMMA CatIsSeq ==
    ASSUME NEW S, NEW s \in Seq(S), NEW t \in Seq(S)
    PROVE  Cat(s, t) \in Seq(S)
<1>. QED BY ConcatProperties DEF Cat

LEMMA CatAssociative ==
    ASSUME NEW S, NEW s \in Seq(S), NEW t \in Seq(S), NEW u \in Seq(S)
    PROVE  Cat(Cat(s, t), u) = Cat(s, Cat(t, u))
<1>. QED BY ConcatAssociative DEF Cat

LEMMA CatOfNothing ==
    ASSUME NEW S, NEW s \in Seq(S)
    PROVE  Cat(<<>>, s) = s /\ <<>> \in Seq(S)
<1>. QED BY ConcatEmptySeq, EmptySeq DEF Cat

LEMMA AppendIsCat ==
    ASSUME NEW S, NEW s \in Seq(S), NEW e \in S, NEW t, Appends(s, e, t)
    PROVE  t = Cat(s, One(e)) /\ t \in Seq(S) /\ One(e) \in Seq(S)
<1>1. Append(s, e) = s \o <<e>> /\ Append(s, e) \in Seq(S) /\ <<e>> \in Seq(S)
  BY AppendIsConcat, AppendProperties
<1>. QED BY <1>1 DEF Cat, One, Appends

LEMMA CatOneAppends ==
    ASSUME NEW S, NEW s \in Seq(S), NEW e \in S
    PROVE  Appends(s, e, Cat(s, One(e)))
<1>1. Append(s, e) = s \o <<e>>
  BY AppendIsConcat
<1>. QED BY <1>1 DEF Cat, One, Appends

(* What was collected, what ch2 holds, what is in the hand, and what is to *)
(* come.                                                                   *)
Stream(r, q, h, c) == Cat(Cat(Cat(r, q), h), c)

LEMMA StreamAppend ==
    ASSUME NEW S, NEW r \in Seq(S), NEW q \in Seq(S), NEW h \in Seq(S), NEW c \in Seq(S),
           NEW e \in S, NEW d, Appends(c, e, d)
    PROVE  Appends(Stream(r, q, h, c), e, Stream(r, q, h, d))
<1>1. PICK p : p = Cat(Cat(r, q), h)
  OBVIOUS
<1>2. p \in Seq(S)
  BY <1>1, CatIsSeq
<1>3. d = Cat(c, One(e)) /\ One(e) \in Seq(S)
  BY AppendIsCat
<1>4. Cat(Cat(p, c), One(e)) = Cat(p, d)
  BY <1>2, <1>3, CatAssociative
<1>5. Cat(p, c) \in Seq(S)
  BY <1>2, CatIsSeq
<1>6. Appends(Cat(p, c), e, Cat(p, d))
  BY <1>4, <1>5, CatOneAppends
<1>. QED BY <1>1, <1>6 DEF Stream

(* A string moves from one place to the next one.                          *)
LEMMA StreamTake ==
    ASSUME NEW S, NEW r \in Seq(S), NEW q \in Seq(S), NEW c \in Seq(S), NEW d \in Seq(S),
           NEW e \in S, Cat(One(e), d) = c
    PROVE  Stream(r, q, <<>>, c) = Stream(r, q, One(e), d)
<1>1. PICK p : p = Cat(r, q)
  OBVIOUS
<1>2. p \in Seq(S) /\ One(e) \in Seq(S)
  BY <1>1, CatIsSeq DEF One
<1>3. PICK nothing : nothing = <<>>
  OBVIOUS
<1>4. nothing \in Seq(S) /\ Cat(nothing, c) = c
  BY <1>3, CatOfNothing
<1>5. Cat(Cat(p, nothing), c) = Cat(p, c)
  BY <1>2, <1>4, CatAssociative
<1>6. Cat(Cat(p, One(e)), d) = Cat(p, c)
  BY <1>2, CatAssociative
<1>. QED BY <1>1, <1>3, <1>5, <1>6 DEF Stream

LEMMA StreamForward ==
    ASSUME NEW S, NEW r \in Seq(S), NEW q \in Seq(S), NEW c \in Seq(S),
           NEW e \in S, NEW p, Appends(q, e, p)
    PROVE  Stream(r, q, One(e), c) = Stream(r, p, <<>>, c)
<1>1. p = Cat(q, One(e)) /\ p \in Seq(S) /\ One(e) \in Seq(S)
  BY AppendIsCat
<1>2. Cat(Cat(r, q), One(e)) = Cat(r, p)
  BY <1>1, CatAssociative
<1>3. Cat(r, p) \in Seq(S)
  BY <1>1, CatIsSeq
<1>4. Cat(Cat(r, p), <<>>) = Cat(r, p)
  BY <1>3, ConcatEmptySeq DEF Cat
<1>. QED BY <1>2, <1>4 DEF Stream

LEMMA StreamCollect ==
    ASSUME NEW S, NEW r \in Seq(S), NEW q \in Seq(S), NEW h, NEW c,
           NEW e \in S, NEW d \in Seq(S), Cat(One(e), d) = q, NEW p, Appends(r, e, p)
    PROVE  Stream(r, q, h, c) = Stream(p, d, h, c)
<1>1. p = Cat(r, One(e)) /\ One(e) \in Seq(S)
  BY AppendIsCat
<1>2. Cat(r, q) = Cat(p, d)
  BY <1>1, CatAssociative
<1>. QED BY <1>2 DEF Stream

(* The first element of s, and the others.                                 *)
LEMMA HeadFirst ==
    ASSUME NEW S, NEW s \in Seq(S), s # <<>>
    PROVE  Head(s) \in S /\ Tail(s) \in Seq(S) /\ Cat(One(Head(s)), Tail(s)) = s
<1>1. Head(s) \in S /\ Tail(s) \in Seq(S) /\ <<Head(s)>> \in Seq(S)
      /\ Len(s) \in Nat \ {0} /\ Len(Tail(s)) = Len(s) - 1
      /\ Head(s) = s[1]
      /\ \A i \in 1 .. Len(Tail(s)) : Tail(s)[i] = s[i + 1]
  BY HeadTailProperties, EmptySeq
<1>. DEFINE h == <<Head(s)>>
            t == Tail(s)
<1>2. h \in Seq(S) /\ t \in Seq(S) /\ Len(h) = 1 /\ h[1] = s[1]
  BY <1>1
<1>3. h \o t \in Seq(S) /\ Len(h \o t) = Len(s)
      /\ \A i \in 1 .. Len(s) : (h \o t)[i] = IF i <= 1 THEN h[i] ELSE t[i - 1]
  <2>. HIDE DEF h, t
  <2>1. /\ h \o t \in Seq(S)
        /\ Len(h \o t) = Len(h) + Len(t)
        /\ \A i \in 1 .. Len(h) + Len(t) : (h \o t)[i] = IF i <= Len(h) THEN h[i] ELSE t[i - Len(h)]
    BY <1>2, ConcatProperties
  <2>2. Len(t) = Len(s) - 1
    BY <1>1 DEF t
  <2>. QED BY <1>1, <1>2, <2>1, <2>2
<1>4. \A i \in 1 .. Len(s) : (h \o t)[i] = s[i]
  BY <1>1, <1>2, <1>3
<1>. HIDE DEF h, t
<1>5. h \o t = s
  BY <1>3, <1>4, SeqEqual
<1>. QED BY <1>1, <1>5 DEF h, t, Cat, One

(* The strings that t1 will make of the items of ch1.                      *)
Forwarded(s) == [i \in 1 .. Len(s) |-> Processed(s[i])]

LEMMA ForwardedIs ==
    ASSUME NEW s \in Seq(Raw)
    PROVE  /\ Forwarded(s) \in Seq(Strings)
           /\ Len(Forwarded(s)) = Len(s)
           /\ \A i \in 1 .. Len(s) : Forwarded(s)[i] = Processed(s[i])
<1>1. Len(s) \in Nat /\ \A i \in 1 .. Len(s) : s[i] \in Raw
  BY ElementOfSeq, LenProperties
<1>2. Forwarded(s) \in [1 .. Len(s) -> Strings]
  BY <1>1 DEF Forwarded, Strings
<1>3. Forwarded(s) \in Seq(Strings)
  BY <1>1, <1>2, SeqDef
<1>4. Len(Forwarded(s)) = Len(s)
  BY <1>1 DEF Forwarded
<1>. QED BY <1>3, <1>4 DEF Forwarded

LEMMA IsAppend ==
    ASSUME NEW S, NEW s \in Seq(S), NEW t \in Seq(S), NEW e \in S,
           Len(t) = Len(s) + 1, \A i \in 1 .. Len(s) : t[i] = s[i], t[Len(s) + 1] = e
    PROVE  Appends(s, e, t)
<1>1. Append(s, e) \in Seq(S) /\ Len(Append(s, e)) = Len(t)
  BY AppendProperties
<1>2. ASSUME NEW i \in 1 .. Len(t) PROVE t[i] = Append(s, e)[i]
  <2>1. Len(s) \in Nat
    BY LenProperties
  <2>2. CASE i = Len(s) + 1
    BY <2>2, AppendProperties
  <2>3. CASE i \in 1 .. Len(s)
    BY <2>3, AppendProperties
  <2>. QED BY <2>1, <2>2, <2>3
<1>. QED BY <1>1, <1>2, SeqEqual DEF Appends

LEMMA ForwardedAppend ==
    ASSUME NEW s \in Seq(Raw), NEW v \in Raw, NEW t, Appends(s, v, t)
    PROVE  Appends(Forwarded(s), Processed(v), Forwarded(t))
<1>1. t \in Seq(Raw) /\ Len(t) = Len(s) + 1 /\ Len(s) \in Nat
      /\ t[Len(s) + 1] = v /\ \A i \in 1 .. Len(s) : t[i] = s[i]
  BY AppendProperties, LenProperties DEF Appends
<1>2. /\ Forwarded(s) \in Seq(Strings) /\ Len(Forwarded(s)) = Len(s)
      /\ \A i \in 1 .. Len(s) : Forwarded(s)[i] = Processed(s[i])
  BY ForwardedIs
<1>3. /\ Forwarded(t) \in Seq(Strings) /\ Len(Forwarded(t)) = Len(t)
      /\ \A i \in 1 .. Len(t) : Forwarded(t)[i] = Processed(t[i])
  BY <1>1, ForwardedIs
<1>4. \A i \in 1 .. Len(s) : Forwarded(t)[i] = Forwarded(s)[i]
  BY <1>1, <1>2, <1>3
<1>5. Forwarded(t)[Len(s) + 1] = Processed(v) /\ Processed(v) \in Strings
  BY <1>1, <1>3 DEF Strings
<1>. QED BY <1>1, <1>2, <1>3, <1>4, <1>5, IsAppend

LEMMA ForwardedTake ==
    ASSUME NEW s \in Seq(Raw), s # <<>>
    PROVE  /\ Processed(Head(s)) \in Strings /\ Tail(s) \in Seq(Raw)
           /\ Cat(One(Processed(Head(s))), Forwarded(Tail(s))) = Forwarded(s)
<1>1. /\ Head(s) \in Raw /\ Tail(s) \in Seq(Raw) /\ Head(s) = s[1]
      /\ Len(s) \in Nat \ {0} /\ Len(Tail(s)) = Len(s) - 1
      /\ \A i \in 1 .. Len(Tail(s)) : Tail(s)[i] = s[i + 1]
  BY HeadTailProperties, EmptySeq
<1>2. /\ Forwarded(s) \in Seq(Strings) /\ Len(Forwarded(s)) = Len(s)
      /\ \A i \in 1 .. Len(s) : Forwarded(s)[i] = Processed(s[i])
  BY ForwardedIs
<1>3. PICK t : t = Tail(s)
  OBVIOUS
<1>4. /\ Forwarded(t) \in Seq(Strings) /\ Len(Forwarded(t)) = Len(t)
      /\ \A i \in 1 .. Len(t) : Forwarded(t)[i] = Processed(t[i])
  BY <1>1, <1>3, ForwardedIs
<1>5. PICK f : f = Forwarded(s)
  OBVIOUS
<1>6. f # <<>>
  BY <1>1, <1>2, <1>5, EmptySeq
<1>7. /\ Head(f) \in Strings /\ Tail(f) \in Seq(Strings) /\ Cat(One(Head(f)), Tail(f)) = f
      /\ Head(f) = f[1] /\ Len(Tail(f)) = Len(f) - 1
      /\ \A i \in 1 .. Len(Tail(f)) : Tail(f)[i] = f[i + 1]
  BY <1>2, <1>5, <1>6, HeadFirst, HeadTailProperties
<1>8. Head(f) = Processed(Head(s))
  BY <1>1, <1>2, <1>5, <1>7
<1>9. \A i \in 1 .. Len(Tail(f)) : Tail(f)[i] = Forwarded(t)[i]
  BY <1>1, <1>2, <1>3, <1>4, <1>5, <1>7
<1>10. Tail(f) = Forwarded(t)
  BY <1>1, <1>2, <1>3, <1>4, <1>5, <1>7, <1>9, SeqEqual
<1>. QED BY <1>1, <1>3, <1>5, <1>7, <1>8, <1>10

LEMMA ExpectedNext ==
    ASSUME NEW n \in Raw
    PROVE  Appends(Expected(n), Processed(n), Expected(n + 1))
<1>1. n \in Nat /\ n + 1 \in Nat /\ \A i \in 1 .. n + 1 : i - 1 \in Raw
  BY PipelineAssumption DEF Raw
<1>2. /\ Expected(n) \in [1 .. n -> Strings] /\ Expected(n + 1) \in [1 .. n + 1 -> Strings]
      /\ Processed(n) \in Strings
  BY <1>1 DEF Expected, Strings
<1>3. /\ Expected(n) \in Seq(Strings) /\ Expected(n + 1) \in Seq(Strings)
      /\ Len(Expected(n)) = n /\ Len(Expected(n + 1)) = n + 1
  BY <1>1, <1>2, SeqDef, LenProperties
<1>4. \A i \in 1 .. n : Expected(n + 1)[i] = Expected(n)[i]
  BY <1>1 DEF Expected
<1>5. Expected(n + 1)[n + 1] = Processed(n)
  BY <1>1 DEF Expected
<1>. QED BY <1>1, <1>2, <1>3, <1>4, <1>5, IsAppend

-----------------------------------------------------------------------------
(* Where the threads are.                                                  *)

Sender == {"idle", "emplace", "emplaceWait", "notifyPop", "close", "closePop", "closeEmplace"}
Receiver == {"idle", "pop", "popWait", "notifyEmplace"}

(* s only sends into the channel, and r only receives from it.             *)
Joins(pc, s, r) ==
    pc \in [{s, r} -> Sender \cup Receiver] /\ pc[s] \in Sender /\ pc[r] \in Receiver

Sending(pc, t) == pc[t] \in {"emplace", "emplaceWait"}
Receiving(pc, t) == pc[t] \in {"pop", "popWait"}
Closing(pc, t) == pc[t] \in {"close", "closePop", "closeEmplace"}

(* t0 calls emplace() for a string that is left; t1 calls pop() with empty *)
(* hands, and emplace() with a string; t2 only receives.                   *)
Located ==
    /\ Joins(pc1, t0, t1) /\ Joins(pc2, t1, t2)
    /\ Sending(pc1, t0) => sent < N
    /\ Receiving(pc1, t1) => hand = None
    /\ Sending(pc2, t1) => hand # None

Typed ==
    /\ items1 \in Seq(Raw) /\ items2 \in Seq(Strings) /\ result \in Seq(Strings)
    /\ sent \in 0 .. N
    /\ hand \in Strings \cup {None}

InHand == IF hand = None THEN <<>> ELSE One(hand)

Ordered == Stream(result, items2, InHand, Forwarded(items1)) = Expected(sent)

IInv == Located /\ Typed /\ Ordered

(* The steps inside a call, and spurious wake-ups, move no item, and start *)
(* no new emplace() or pop().                                              *)
LEMMA Quiet1 ==
    ASSUME Joins(pc1, t0, t1), NEW t \in {t0, t1}, Ch1!Inside(t) \/ Ch1!SpuriousWake(t)
    PROVE  /\ items1' = items1 /\ Joins(pc1', t0, t1)
           /\ Sending(pc1', t0) => Sending(pc1, t0)
           /\ Receiving(pc1', t1) => Receiving(pc1, t1)
           /\ Closing(pc1', t0) => Closing(pc1, t0)
           /\ closed1 => closed1'
           /\ closed1' => closed1 \/ Closing(pc1, t0)
<1>. USE PipelineAssumption DEF Joins, Sender, Receiver, Sending, Receiving, Closing,
                                Ch1!Move, Ch1!Goto, Ch1!At
<1>1. CASE Ch1!EmplaceBlock(t) \/ Ch1!PopBlock(t) \/ Ch1!SpuriousWake(t) \/ Ch1!CloseSet(t)
  BY <1>1 DEF Ch1!EmplaceBlock, Ch1!PopBlock, Ch1!SpuriousWake, Ch1!CloseSet
<1>2. CASE Ch1!NotifyPop(t)
  BY <1>2 DEF Ch1!NotifyPop, Ch1!NotifyOne
<1>3. CASE Ch1!NotifyEmplace(t)
  BY <1>3 DEF Ch1!NotifyEmplace, Ch1!NotifyOne
<1>4. CASE Ch1!CloseNotifyPop(t) \/ Ch1!CloseNotifyEmplace(t)
  BY <1>4 DEF Ch1!CloseNotifyPop, Ch1!CloseNotifyEmplace, Ch1!NotifyAll
<1>5. CASE Ch1!ClearItems(t) \/ Ch1!ClearNotify(t)
  BY <1>5 DEF Ch1!ClearItems, Ch1!ClearNotify
<1>. QED BY <1>1, <1>2, <1>3, <1>4, <1>5 DEF Ch1!Inside

LEMMA Quiet2 ==
    ASSUME Joins(pc2, t1, t2), NEW t \in {t1, t2}, Ch2!Inside(t) \/ Ch2!SpuriousWake(t)
    PROVE  /\ items2' = items2 /\ Joins(pc2', t1, t2)
           /\ Sending(pc2', t1) => Sending(pc2, t1)
           /\ Receiving(pc2', t2) => Receiving(pc2, t2)
           /\ Closing(pc2', t1) => Closing(pc2, t1)
           /\ closed2 => closed2'
           /\ closed2' => closed2 \/ Closing(pc2, t1)
<1>. USE PipelineAssumption DEF Joins, Sender, Receiver, Sending, Receiving, Closing,
                                Ch2!Move, Ch2!Goto, Ch2!At
<1>1. CASE Ch2!EmplaceBlock(t) \/ Ch2!PopBlock(t) \/ Ch2!SpuriousWake(t) \/ Ch2!CloseSet(t)
  BY <1>1 DEF Ch2!EmplaceBlock, Ch2!PopBlock, Ch2!SpuriousWake, Ch2!CloseSet
<1>2. CASE Ch2!NotifyPop(t)
  BY <1>2 DEF Ch2!NotifyPop, Ch2!NotifyOne
<1>3. CASE Ch2!NotifyEmplace(t)
  BY <1>3 DEF Ch2!NotifyEmplace, Ch2!NotifyOne
<1>4. CASE Ch2!CloseNotifyPop(t) \/ Ch2!CloseNotifyEmplace(t)
  BY <1>4 DEF Ch2!CloseNotifyPop, Ch2!CloseNotifyEmplace, Ch2!NotifyAll
<1>5. CASE Ch2!ClearItems(t) \/ Ch2!ClearNotify(t)
  BY <1>5 DEF Ch2!ClearItems, Ch2!ClearNotify
<1>. QED BY <1>1, <1>2, <1>3, <1>4, <1>5 DEF Ch2!Inside

LEMMA InHandIsSeq ==
    ASSUME Typed
    PROVE  InHand \in Seq(Strings)
<1>. QED BY EmptySeq DEF Typed, InHand, One

(* Steps that move no string.                                              *)
LEMMA QuietStep ==
    ASSUME IInv, UNCHANGED <<items1, items2, sent, hand, result>>,
           Joins(pc1', t0, t1), Joins(pc2', t1, t2),
           Sending(pc1', t0) => sent < N,
           Receiving(pc1', t1) => hand = None,
           Sending(pc2', t1) => hand # None
    PROVE  IInv'
<1>1. Located'
  BY DEF Located
<1>2. Typed'
  BY DEF IInv, Typed
<1>3. Ordered'
  BY DEF IInv, Ordered, InHand
<1>. QED BY <1>1, <1>2, <1>3 DEF IInv

(* t0 sends the next string.                                               *)
LEMMA SendStep ==
    ASSUME IInv, Ch1!EmplacePush(t0, sent), sent' = sent + 1,
           UNCHANGED <<vars2, hand, drained, result>>
    PROVE  IInv'
<1>1. sent \in Raw /\ sent + 1 \in 0 .. N
  BY PipelineAssumption DEF IInv, Located, Typed, Sending, Ch1!EmplacePush, Raw
<1>2. Appends(items1, sent, items1')
  BY DEF Ch1!EmplacePush, Appends
<1>3. Located'
  BY PipelineAssumption DEF IInv, Located, Joins, Sending, Receiving, Sender, Receiver,
                            Ch1!EmplacePush, Ch1!Goto, vars2
<1>4. Typed'
  BY <1>1, <1>2, AppendProperties DEF IInv, Typed, Appends, vars2
<1>5. Ordered'
  <2>1. Appends(Forwarded(items1), Processed(sent), Forwarded(items1'))
    BY <1>1, <1>2, ForwardedAppend DEF IInv, Typed
  <2>2. Forwarded(items1) \in Seq(Strings) /\ Processed(sent) \in Strings
    BY <1>1, ForwardedIs DEF IInv, Typed, Strings
  <2>3. Appends(Stream(result, items2, InHand, Forwarded(items1)), Processed(sent),
                Stream(result, items2, InHand, Forwarded(items1')))
    BY <2>1, <2>2, InHandIsSeq, StreamAppend DEF IInv, Typed
  <2>4. Appends(Expected(sent), Processed(sent), Expected(sent + 1))
    BY <1>1, ExpectedNext
  <2>5. Stream(result, items2, InHand, Forwarded(items1')) = Expected(sent + 1)
    BY <2>3, <2>4 DEF Appends, IInv, Ordered
  <2>. QED BY <2>5 DEF Ordered, InHand, vars2
<1>. QED BY <1>3, <1>4, <1>5 DEF IInv

(* t1 takes a string and processes it.                                     *)
LEMMA ReceiveStep ==
    ASSUME IInv, Ch1!PopTake(t1), hand' = Processed(Head(items1)), pc2[t1] = "idle",
           UNCHANGED <<vars2, sent, result>>
    PROVE  IInv'
<1>1. /\ items1 \in Seq(Raw) /\ items1 # <<>> /\ items1' = Tail(items1)
      /\ hand = None /\ pc2' = pc2
  BY DEF IInv, Located, Typed, Receiving, Ch1!PopTake, Ch1!HasItem, vars2
<1>2. /\ hand' \in Strings /\ items1' \in Seq(Raw)
      /\ Cat(One(hand'), Forwarded(items1')) = Forwarded(items1)
  BY <1>1, ForwardedTake
<1>3. hand' # None
  BY <1>2, PipelineAssumption DEF Strings
<1>4. Located'
  BY <1>1, <1>3, PipelineAssumption
     DEF IInv, Located, Joins, Sending, Receiving, Sender, Receiver, Ch1!PopTake, Ch1!Goto
<1>5. Typed'
  BY <1>2 DEF IInv, Typed, vars2
<1>6. Ordered'
  <2>1. PICK h, c, d : h = hand' /\ c = Forwarded(items1) /\ d = Forwarded(items1')
    OBVIOUS
  <2>2. h \in Strings /\ c \in Seq(Strings) /\ d \in Seq(Strings) /\ Cat(One(h), d) = c
    BY <1>1, <1>2, <2>1, ForwardedIs
  <2>3. Stream(result, items2, <<>>, c) = Stream(result, items2, One(h), d)
    BY <2>2, StreamTake DEF IInv, Typed
  <2>4. Stream(result, items2, <<>>, c) = Expected(sent)
    BY <1>1, <2>1 DEF IInv, Ordered, InHand
  <2>5. Stream(result, items2, One(h), d) = Expected(sent)
    BY <2>3, <2>4
  <2>6. InHand' = One(h)
    BY <1>3, <2>1 DEF InHand
  <2>. QED BY <2>1, <2>5, <2>6 DEF Ordered, vars2
<1>. QED BY <1>4, <1>5, <1>6 DEF IInv

(* t1 hands it on.                                                         *)
LEMMA ForwardStep ==
    ASSUME IInv, Ch2!EmplacePush(t1, hand), hand' = None, pc1[t1] = "idle",
           UNCHANGED <<vars1, sent, result>>
    PROVE  IInv'
<1>1. hand \in Strings /\ hand # None /\ items1' = items1 /\ pc1' = pc1
  BY DEF IInv, Located, Typed, Sending, Ch2!EmplacePush, vars1
<1>2. Appends(items2, hand, items2')
  BY DEF Ch2!EmplacePush, Appends
<1>3. Located'
  BY <1>1, PipelineAssumption DEF IInv, Located, Joins, Sending, Receiving, Sender, Receiver,
                            Ch2!EmplacePush, Ch2!Goto
<1>4. Typed'
  BY <1>1, <1>2, AppendProperties DEF IInv, Typed, Appends
<1>5. Ordered'
  <2>1. PICK h, c, p : h = hand /\ c = Forwarded(items1) /\ p = items2'
    OBVIOUS
  <2>2. h \in Strings /\ c \in Seq(Strings) /\ Appends(items2, h, p)
    BY <1>1, <1>2, <2>1, ForwardedIs DEF IInv, Typed
  <2>3. Stream(result, items2, One(h), c) = Stream(result, p, <<>>, c)
    BY <2>2, StreamForward DEF IInv, Typed
  <2>4. Stream(result, items2, One(h), c) = Expected(sent)
    BY <1>1, <2>1 DEF IInv, Ordered, InHand
  <2>5. Stream(result, p, <<>>, c) = Expected(sent)
    BY <2>3, <2>4
  <2>6. InHand' = <<>>
    BY DEF InHand
  <2>. QED BY <1>1, <2>1, <2>5, <2>6 DEF Ordered
<1>. QED BY <1>3, <1>4, <1>5 DEF IInv

(* t2 takes a string and keeps it.                                         *)
LEMMA CollectStep ==
    ASSUME IInv, Ch2!PopTake(t2), result' = Append(result, Head(items2)),
           UNCHANGED <<vars1, sent, hand>>
    PROVE  IInv'
<1>1. /\ items2 \in Seq(Strings) /\ items2 # <<>> /\ items2' = Tail(items2)
      /\ items1' = items1 /\ pc1' = pc1
  BY DEF IInv, Typed, Ch2!PopTake, Ch2!HasItem, vars1
<1>2. /\ Head(items2) \in Strings /\ items2' \in Seq(Strings)
      /\ Cat(One(Head(items2)), items2') = items2
  BY <1>1, HeadFirst
<1>3. Appends(result, Head(items2), result')
  BY DEF Appends
<1>4. Located'
  BY <1>1, PipelineAssumption DEF IInv, Located, Joins, Sending, Receiving, Sender, Receiver,
                            Ch2!PopTake, Ch2!Goto
<1>5. Typed'
  BY <1>1, <1>2, <1>3, AppendProperties DEF IInv, Typed, Appends
<1>6. Ordered'
  <2>1. PICK e, d, p, c : /\ e = Head(items2) /\ d = items2' /\ p = result'
                          /\ c = Forwarded(items1)
    OBVIOUS
  <2>2. /\ e \in Strings /\ d \in Seq(Strings) /\ Cat(One(e), d) = items2
        /\ Appends(result, e, p)
    BY <1>2, <1>3, <2>1
  <2>3. Stream(result, items2, InHand, c) = Stream(p, d, InHand, c)
    BY <2>2, StreamCollect DEF IInv, Typed
  <2>4. Stream(p, d, InHand, c) = Expected(sent)
    BY <2>1, <2>3 DEF IInv, Ordered
  <2>. QED BY <1>1, <2>1, <2>4 DEF Ordered, InHand
<1>. QED BY <1>4, <1>5, <1>6 DEF IInv

(* One of t's calls begins, or ends without a string.                      *)
LEMMA InductiveT0 ==
    ASSUME IInv, T0
    PROVE  IInv'
<1>. USE PipelineAssumption DEF IInv, Located, Joins, Sending, Receiving, Sender, Receiver
<1>1. UNCHANGED <<vars2, hand, drained, result>>
  BY DEF T0
<1>2. CASE sent < N /\ Ch1!CallEmplace(t0) /\ UNCHANGED sent
  BY <1>1, <1>2, QuietStep DEF Ch1!CallEmplace, Ch1!Move, Ch1!Goto, vars2
<1>3. CASE Ch1!EmplacePush(t0, sent) /\ sent' = sent + 1
  BY <1>1, <1>3, SendStep
<1>4. CASE Ch1!CallClose(t0) /\ UNCHANGED sent
  BY <1>1, <1>4, QuietStep DEF Ch1!CallClose, Ch1!Move, Ch1!Goto, vars2
<1>5. CASE Ch1!Inside(t0) /\ UNCHANGED sent
  BY <1>1, <1>5, Quiet1, QuietStep DEF vars2
<1>. QED BY <1>2, <1>3, <1>4, <1>5 DEF T0

LEMMA InductiveT1Receive ==
    ASSUME IInv, T1Receive
    PROVE  IInv'
<1>. USE PipelineAssumption DEF IInv, Located, Joins, Sending, Receiving, Sender, Receiver
<1>1. UNCHANGED <<vars2, sent, result>> /\ pc2[t1] = "idle"
  BY DEF T1Receive
<1>2. CASE hand = None /\ Ch1!CallPop(t1) /\ UNCHANGED hand
  BY <1>1, <1>2, QuietStep DEF Ch1!CallPop, Ch1!Move, Ch1!Goto, vars2
<1>3. CASE Ch1!PopTake(t1) /\ hand' = Processed(Head(items1))
  BY <1>1, <1>3, ReceiveStep
<1>4. CASE Ch1!PopEnd(t1) /\ UNCHANGED hand
  BY <1>1, <1>4, QuietStep DEF Ch1!PopEnd, Ch1!Move, Ch1!Goto, vars2
<1>5. CASE Ch1!Inside(t1) /\ UNCHANGED hand
  BY <1>1, <1>5, Quiet1, QuietStep DEF vars2
<1>. QED BY <1>2, <1>3, <1>4, <1>5 DEF T1Receive

LEMMA InductiveT1Forward ==
    ASSUME IInv, T1Forward
    PROVE  IInv'
<1>. USE PipelineAssumption DEF IInv, Located, Joins, Sending, Receiving, Sender, Receiver
<1>1. UNCHANGED <<vars1, sent, result>> /\ pc1[t1] = "idle"
  BY DEF T1Forward
<1>2. CASE hand # None /\ Ch2!CallEmplace(t1) /\ UNCHANGED hand
  BY <1>1, <1>2, QuietStep DEF Ch2!CallEmplace, Ch2!Move, Ch2!Goto, vars1
<1>3. CASE Ch2!EmplacePush(t1, hand) /\ hand' = None
  BY <1>1, <1>3, ForwardStep
<1>4. CASE Ch2!CallClose(t1) /\ UNCHANGED hand
  BY <1>1, <1>4, QuietStep DEF Ch2!CallClose, Ch2!Move, Ch2!Goto, vars1
<1>5. CASE Ch2!Inside(t1) /\ UNCHANGED hand
  BY <1>1, <1>5, Quiet2, QuietStep DEF vars1
<1>. QED BY <1>2, <1>3, <1>4, <1>5 DEF T1Forward

LEMMA InductiveT2 ==
    ASSUME IInv, T2
    PROVE  IInv'
<1>. USE PipelineAssumption DEF IInv, Located, Joins, Sending, Receiving, Sender, Receiver
<1>1. UNCHANGED <<vars1, sent, hand>>
  BY DEF T2
<1>2. CASE Ch2!CallPop(t2) /\ UNCHANGED result
  BY <1>1, <1>2, QuietStep DEF Ch2!CallPop, Ch2!Move, Ch2!Goto, vars1
<1>3. CASE Ch2!PopTake(t2) /\ result' = Append(result, Head(items2))
  BY <1>1, <1>3, CollectStep
<1>4. CASE Ch2!PopEnd(t2) /\ UNCHANGED result
  BY <1>1, <1>4, QuietStep DEF Ch2!PopEnd, Ch2!Move, Ch2!Goto, vars1
<1>5. CASE Ch2!Inside(t2) /\ UNCHANGED result
  BY <1>1, <1>5, Quiet2, QuietStep DEF vars1
<1>. QED BY <1>2, <1>3, <1>4, <1>5 DEF T2

LEMMA InductiveWake ==
    ASSUME IInv, SpuriousWake
    PROVE  IInv'
<1>1. UNCHANGED <<sent, hand, drained, result>>
  BY DEF SpuriousWake
<1>2. ASSUME NEW t \in {t0, t1}, Ch1!SpuriousWake(t), UNCHANGED vars2 PROVE IInv'
  BY <1>1, <1>2, Quiet1, QuietStep DEF IInv, Located, vars2
<1>3. ASSUME NEW t \in {t1, t2}, Ch2!SpuriousWake(t), UNCHANGED vars1 PROVE IInv'
  BY <1>1, <1>3, Quiet2, QuietStep DEF IInv, Located, vars1
<1>. QED BY <1>2, <1>3 DEF SpuriousWake

LEMMA InductiveInit ==
    ASSUME Init
    PROVE  IInv
<1>. USE PipelineAssumption DEF Init, Ch1!Init, Ch2!Init
<1>1. Located
  BY DEF Located, Joins, Sending, Receiving, Sender, Receiver
<1>2. Typed
  BY EmptySeq DEF Typed
<1>3. Ordered
  <2>1. Expected(0) = <<>> /\ Forwarded(<<>>) = <<>>
    BY DEF Expected, Forwarded
  <2>2. Cat(<<>>, <<>>) = <<>>
    BY CatOfNothing, EmptySeq
  <2>3. Stream(<<>>, <<>>, <<>>, <<>>) = <<>>
    BY <2>2 DEF Stream
  <2>. QED BY <2>1, <2>3 DEF Ordered, InHand
<1>. QED BY <1>1, <1>2, <1>3 DEF IInv

LEMMA Inductive == Spec => []IInv
<1>1. ASSUME IInv, [Next]_vars PROVE IInv'
  <2>1. CASE UNCHANGED vars
    BY <1>1, <2>1 DEF vars, vars1, vars2, IInv, Located, Joins, Sending, Receiving, Typed,
                      Ordered, InHand
  <2>. QED BY <1>1, <2>1, InductiveT0, InductiveT1Receive, InductiveT1Forward, InductiveT2,
              InductiveWake DEF Next, T1
<1>. QED BY <1>1, InductiveInit, PTL DEF Spec

-----------------------------------------------------------------------------
(* The end of the stream.                                                  *)

(* A channel is closed by a stage that has nothing left to send, and a     *)
(* stage is done when its channel is closed and empty.                     *)
Draining ==
    /\ Closing(pc1, t0) \/ closed1 => sent = N
    /\ t1 \in drained => closed1 /\ items1 = <<>> /\ hand = None
    /\ Closing(pc2, t1) \/ closed2 => t1 \in drained
    /\ t2 \in drained => closed2 /\ items2 = <<>>

LEMMA DrainingStep ==
    ASSUME IInv, Draining, [Next]_vars
    PROVE  Draining'
<1>. USE PipelineAssumption DEF Draining, IInv, Located
<1>1. CASE T0
  <2>1. UNCHANGED <<vars2, hand, drained, result>>
    BY <1>1 DEF T0
  <2>2. CASE sent < N /\ Ch1!CallEmplace(t0) /\ UNCHANGED sent
    BY <2>1, <2>2 DEF Ch1!CallEmplace, Ch1!Move, Ch1!Goto, vars2,
          Joins, Sending, Receiving, Closing, Sender, Receiver
  <2>3. CASE Ch1!EmplacePush(t0, sent) /\ sent' = sent + 1
    BY <2>1, <2>3 DEF Ch1!EmplacePush, Ch1!Goto, vars2,
          Joins, Sending, Receiving, Closing, Sender, Receiver
  <2>4. CASE sent = N /\ Ch1!CallClose(t0) /\ UNCHANGED sent
    BY <2>1, <2>4 DEF Ch1!CallClose, Ch1!Move, Ch1!Goto, vars2,
          Joins, Sending, Receiving, Closing, Sender, Receiver
  <2>5. CASE Ch1!Inside(t0) /\ UNCHANGED sent
    BY <2>1, <2>5, Quiet1 DEF vars2, Closing
  <2>. QED BY <1>1, <2>2, <2>3, <2>4, <2>5 DEF T0
<1>2. CASE T1Receive
  <2>1. UNCHANGED <<vars2, sent, result>> /\ pc2[t1] = "idle"
    BY <1>2 DEF T1Receive
  <2>2. CASE Ch1!CallPop(t1) /\ UNCHANGED <<hand, drained>>
    BY <2>1, <2>2 DEF Ch1!CallPop, Ch1!Move, Ch1!Goto, vars2,
          Joins, Sending, Receiving, Closing, Sender, Receiver
  <2>3. CASE Ch1!PopTake(t1) /\ UNCHANGED drained
    BY <2>1, <2>3 DEF Ch1!PopTake, Ch1!HasItem, Ch1!Goto, vars2,
          Joins, Sending, Receiving, Closing, Sender, Receiver
  <2>4. CASE Ch1!PopEnd(t1) /\ drained' = drained \cup {t1} /\ UNCHANGED hand
    BY <2>1, <2>4 DEF Ch1!PopEnd, Ch1!HasItem, Ch1!Move, Ch1!Goto, vars2,
          Joins, Sending, Receiving, Closing, Sender, Receiver
  <2>5. CASE Ch1!Inside(t1) /\ UNCHANGED <<hand, drained>>
    BY <2>1, <2>5, Quiet1 DEF vars2, Closing
  <2>. QED BY <1>2, <2>2, <2>3, <2>4, <2>5 DEF T1Receive
<1>3. CASE T1Forward
  <2>1. UNCHANGED <<vars1, sent, drained, result>>
    BY <1>3 DEF T1Forward
  <2>2. CASE hand # None /\ Ch2!CallEmplace(t1) /\ UNCHANGED hand
    BY <2>1, <2>2 DEF Ch2!CallEmplace, Ch2!Move, Ch2!Goto, vars1,
          Joins, Sending, Receiving, Closing, Sender, Receiver
  <2>3. CASE Ch2!EmplacePush(t1, hand) /\ hand' = None
    BY <2>1, <2>3 DEF Ch2!EmplacePush, Ch2!Goto, vars1,
          Joins, Sending, Receiving, Closing, Sender, Receiver
  <2>4. CASE t1 \in drained /\ Ch2!CallClose(t1) /\ UNCHANGED hand
    BY <2>1, <2>4 DEF Ch2!CallClose, Ch2!Move, Ch2!Goto, vars1,
          Joins, Sending, Receiving, Closing, Sender, Receiver
  <2>5. CASE Ch2!Inside(t1) /\ UNCHANGED hand
    BY <2>1, <2>5, Quiet2 DEF vars1, Closing
  <2>. QED BY <1>3, <2>2, <2>3, <2>4, <2>5 DEF T1Forward
<1>4. CASE T2
  <2>1. UNCHANGED <<vars1, sent, hand>>
    BY <1>4 DEF T2
  <2>2. CASE Ch2!CallPop(t2) /\ UNCHANGED drained
    BY <2>1, <2>2 DEF Ch2!CallPop, Ch2!Move, Ch2!Goto, vars1,
          Joins, Sending, Receiving, Closing, Sender, Receiver
  <2>3. CASE Ch2!PopTake(t2) /\ UNCHANGED drained
    BY <2>1, <2>3 DEF Ch2!PopTake, Ch2!HasItem, Ch2!Goto, vars1,
          Joins, Sending, Receiving, Closing, Sender, Receiver
  <2>4. CASE Ch2!PopEnd(t2) /\ drained' = drained \cup {t2}
    BY <2>1, <2>4 DEF Ch2!PopEnd, Ch2!HasItem, Ch2!Move, Ch2!Goto, vars1,
          Joins, Sending, Receiving, Closing, Sender, Receiver
  <2>5. CASE Ch2!Inside(t2) /\ UNCHANGED drained
    BY <2>1, <2>5, Quiet2 DEF vars1, Closing
  <2>. QED BY <1>4, <2>2, <2>3, <2>4, <2>5 DEF T2
<1>5. CASE SpuriousWake
  <2>1. UNCHANGED <<sent, hand, drained, result>>
    BY <1>5 DEF SpuriousWake
  <2>2. ASSUME NEW t \in {t0, t1}, Ch1!SpuriousWake(t), UNCHANGED vars2 PROVE Draining'
    BY <2>1, <2>2, Quiet1 DEF vars2, Closing
  <2>3. ASSUME NEW t \in {t1, t2}, Ch2!SpuriousWake(t), UNCHANGED vars1 PROVE Draining'
    BY <2>1, <2>3, Quiet2 DEF vars1, Closing
  <2>. QED BY <1>5, <2>2, <2>3 DEF SpuriousWake
<1>6. CASE UNCHANGED vars
  BY <1>6 DEF vars, vars1, vars2, Closing
<1>. QED BY <1>1, <1>2, <1>3, <1>4, <1>5, <1>6 DEF Next, T1

LEMMA AlwaysDraining == Spec => []Draining
<1>1. ASSUME Init PROVE Draining
  BY <1>1, PipelineAssumption DEF Init, Ch1!Init, Ch2!Init, Draining, Closing
<1>. QED BY <1>1, DrainingStep, Inductive, PTL DEF Spec

LEMMA EverythingIsCollected ==
    ASSUME IInv, Draining, t2 \in drained
    PROVE  result = Expected(N)
<1>1. t1 \in drained /\ closed1 /\ hand = None /\ items1 = <<>> /\ items2 = <<>>
  BY DEF Draining
<1>2. sent = N
  BY <1>1 DEF Draining
<1>3. Forwarded(items1) = <<>> /\ InHand = <<>>
  BY <1>1 DEF Forwarded, InHand
<1>4. Cat(result, <<>>) = result
  BY ConcatEmptySeq DEF IInv, Typed, Cat
<1>5. Stream(result, <<>>, <<>>, <<>>) = result
  BY <1>4 DEF Stream
<1>. QED BY <1>1, <1>2, <1>3, <1>5 DEF IInv, Ordered

(* However many strings are sent, through channels of whatever sizes, and  *)
(* however the three threads interleave: at every moment the results, the  *)
(* queue of ch2, the string in t1's hands and the queue of ch1 are the     *)
(* strings sent so far, each once and in order; and the loop of t2 ends    *)
(* with all of them (test/channel.cpp:43-49).                              *)
THEOREM NothingIsLostOrReordered == Spec => []NothingLostOrReordered
<1>1. IInv /\ Draining => NothingLostOrReordered
  BY EverythingIsCollected
     DEF IInv, Ordered, InHand, NothingLostOrReordered, Stream, Cat, One, Forwarded
<1>. QED BY <1>1, Inductive, AlwaysDraining, PTL

-----------------------------------------------------------------------------
(* The two channels.                                                       *)

(* What ChannelProofs proves of a channel, for ch1 and for ch2.            *)
P1 == INSTANCE ChannelProofs WITH
    Threads <- {t0, t1}, Producers <- {t0}, Consumers <- {t1}, Closers <- {t0},
    Clearers <- {}, Values <- Raw, Bounded <- TRUE, Sp <- TRUE, Sc <- TRUE,
    Max <- Max1, Backlog <- 0, MayThrow <- {},
    items <- items1, closed <- closed1, pc <- pc1

P2 == INSTANCE ChannelProofs WITH
    Threads <- {t1, t2}, Producers <- {t1}, Consumers <- {t2}, Closers <- {t1},
    Clearers <- {}, Values <- {Processed(i) : i \in Raw}, Bounded <- TRUE,
    Sp <- TRUE, Sc <- TRUE, Max <- Max2, Backlog <- 0, MayThrow <- {},
    items <- items2, closed <- closed2, pc <- pc2

LEMMA ChannelsAreProper == P1!ChannelAssumption /\ P2!ChannelAssumption
<1>1. \E both \in Seq({t0, t1}) : \A t \in {t0, t1} : \E n \in 1 .. Len(both) : both[n] = t
  <2>1. \A t \in {t0, t1} : \E n \in 1 .. 2 : <<t0, t1>>[n] = t
    <3>1. <<t0, t1>>[1] = t0 /\ <<t0, t1>>[2] = t1 /\ 1 \in 1 .. 2 /\ 2 \in 1 .. 2
      OBVIOUS
    <3>. QED BY <3>1
  <2>2. <<t0, t1>> \in Seq({t0, t1}) /\ Len(<<t0, t1>>) = 2
    OBVIOUS
  <2>. WITNESS <<t0, t1>> \in Seq({t0, t1})
  <2>. QED BY <2>1, <2>2
<1>2. \E both \in Seq({t1, t2}) : \A t \in {t1, t2} : \E n \in 1 .. Len(both) : both[n] = t
  <2>1. \A t \in {t1, t2} : \E n \in 1 .. 2 : <<t1, t2>>[n] = t
    <3>1. <<t1, t2>>[1] = t1 /\ <<t1, t2>>[2] = t2 /\ 1 \in 1 .. 2 /\ 2 \in 1 .. 2
      OBVIOUS
    <3>. QED BY <3>1
  <2>2. <<t1, t2>> \in Seq({t1, t2}) /\ Len(<<t1, t2>>) = 2
    OBVIOUS
  <2>. WITNESS <<t1, t2>> \in Seq({t1, t2})
  <2>. QED BY <2>1, <2>2
<1>3. P1!IsFiniteSet({t0, t1}) /\ P2!IsFiniteSet({t1, t2})
  BY <1>1, <1>2 DEF P1!IsFiniteSet, P2!IsFiniteSet
<1>. QED BY <1>3, PipelineAssumption DEF P1!ChannelAssumption, P2!ChannelAssumption

(* Every step of the pipeline is one of Channel's, or leaves the channel   *)
(* alone.                                                                  *)
LEMMA FirstChannelStep ==
    ASSUME IInv, [Next]_vars
    PROVE  [Ch1!Next]_vars1
<1>1. CASE T0
  <2>1. CASE Ch1!CallEmplace(t0) \/ Ch1!CallClose(t0) \/ Ch1!Inside(t0)
    BY <2>1 DEF Ch1!Next, Ch1!Call, Ch1!Step
  <2>2. CASE Ch1!EmplacePush(t0, sent)
    <3>1. sent \in Raw
      BY <2>2, PipelineAssumption DEF IInv, Located, Typed, Sending, Ch1!EmplacePush, Raw
    <3>. QED BY <2>2, <3>1 DEF Ch1!Next, Ch1!Step, Ch1!Outcome
  <2>. QED BY <1>1, <2>1, <2>2 DEF T0
<1>2. CASE T1Receive
  BY <1>2 DEF T1Receive, Ch1!Next, Ch1!Call, Ch1!Step, Ch1!Outcome
<1>3. CASE T1Forward \/ T2 \/ UNCHANGED vars
  BY <1>3 DEF T1Forward, T2, vars
<1>4. CASE SpuriousWake
  BY <1>4 DEF SpuriousWake, Ch1!Next
<1>. QED BY <1>1, <1>2, <1>3, <1>4 DEF Next, T1

LEMMA SecondChannelStep ==
    ASSUME IInv, [Next]_vars
    PROVE  [Ch2!Next]_vars2
<1>1. CASE T0 \/ T1Receive \/ UNCHANGED vars
  BY <1>1 DEF T0, T1Receive, vars
<1>2. CASE T1Forward
  <2>1. CASE Ch2!CallEmplace(t1) \/ Ch2!CallClose(t1) \/ Ch2!Inside(t1)
    BY <2>1 DEF Ch2!Next, Ch2!Call, Ch2!Step
  <2>2. CASE Ch2!EmplacePush(t1, hand)
    <3>1. hand \in Strings
      BY <2>2 DEF IInv, Located, Typed, Sending, Ch2!EmplacePush
    <3>. QED BY <2>2, <3>1 DEF Ch2!Next, Ch2!Step, Ch2!Outcome, Strings
  <2>. QED BY <1>2, <2>1, <2>2 DEF T1Forward
<1>3. CASE T2
  BY <1>3 DEF T2, Ch2!Next, Ch2!Call, Ch2!Step, Ch2!Outcome
<1>4. CASE SpuriousWake
  BY <1>4 DEF SpuriousWake, Ch2!Next
<1>. QED BY <1>1, <1>2, <1>3, <1>4 DEF Next, T1

(* The pipeline, seen from either channel, is a client that Channel allows *)
(* for: what is proved of Channel holds for both.                          *)
THEOREM ChannelsAreUsedAsSpecified == Spec => Ch1!Spec /\ Ch2!Spec
<1>1. ASSUME IInv, [Next]_vars PROVE [Ch1!Next]_Ch1!vars /\ [Ch2!Next]_Ch2!vars
  BY <1>1, FirstChannelStep, SecondChannelStep DEF vars1, vars2, Ch1!vars, Ch2!vars
<1>2. Init => Ch1!Init /\ Ch2!Init
  BY DEF Init
<1>. QED BY <1>1, <1>2, Inductive, PTL DEF Spec, Ch1!Spec, Ch2!Spec

(* The two copies of a channel's steps, that of ChannelPipeline and that   *)
(* of ChannelProofs, are the same formula when everything is unfolded.     *)
LEMMA SameSteps == (P1!Next <=> Ch1!Next) /\ (P2!Next <=> Ch2!Next)
BY DEF P1!Next, Ch1!Next, P2!Next, Ch2!Next, P1!Call, Ch1!Call, P2!Call, Ch2!Call,
       P1!Step, Ch1!Step, P2!Step, Ch2!Step, P1!Inside, Ch1!Inside, P2!Inside,
       Ch2!Inside, P1!Outcome, Ch1!Outcome, P2!Outcome, Ch2!Outcome,
       P1!SpuriousWake, Ch1!SpuriousWake, P2!SpuriousWake, Ch2!SpuriousWake,
       P1!CallEmplace, Ch1!CallEmplace, P2!CallEmplace, Ch2!CallEmplace, P1!CallPop,
       Ch1!CallPop, P2!CallPop, Ch2!CallPop, P1!CallClose, Ch1!CallClose,
       P2!CallClose, Ch2!CallClose, P1!CallClear, Ch1!CallClear, P2!CallClear,
       Ch2!CallClear, P1!EmplaceBlock, Ch1!EmplaceBlock, P2!EmplaceBlock,
       Ch2!EmplaceBlock, P1!NotifyPop, Ch1!NotifyPop, P2!NotifyPop, Ch2!NotifyPop,
       P1!PopBlock, Ch1!PopBlock, P2!PopBlock, Ch2!PopBlock, P1!NotifyEmplace,
       Ch1!NotifyEmplace, P2!NotifyEmplace, Ch2!NotifyEmplace, P1!CloseSet,
       Ch1!CloseSet, P2!CloseSet, Ch2!CloseSet, P1!CloseNotifyPop,
       Ch1!CloseNotifyPop, P2!CloseNotifyPop, Ch2!CloseNotifyPop,
       P1!CloseNotifyEmplace, Ch1!CloseNotifyEmplace, P2!CloseNotifyEmplace,
       Ch2!CloseNotifyEmplace, P1!ClearItems, Ch1!ClearItems, P2!ClearItems,
       Ch2!ClearItems, P1!ClearNotify, Ch1!ClearNotify, P2!ClearNotify,
       Ch2!ClearNotify, P1!EmplacePush, Ch1!EmplacePush, P2!EmplacePush,
       Ch2!EmplacePush, P1!EmplaceRefused, Ch1!EmplaceRefused, P2!EmplaceRefused,
       Ch2!EmplaceRefused, P1!EmplaceThrow, Ch1!EmplaceThrow, P2!EmplaceThrow,
       Ch2!EmplaceThrow, P1!PopTake, Ch1!PopTake, P2!PopTake, Ch2!PopTake,
       P1!PopEnd, Ch1!PopEnd, P2!PopEnd, Ch2!PopEnd, P1!PopThrow, Ch1!PopThrow,
       P2!PopThrow, Ch2!PopThrow, P1!Move, Ch1!Move, P2!Move, Ch2!Move, P1!Goto,
       Ch1!Goto, P2!Goto, Ch2!Goto, P1!HasRoom, Ch1!HasRoom, P2!HasRoom,
       Ch2!HasRoom, P1!HasItem, Ch1!HasItem, P2!HasItem, Ch2!HasItem,
       P1!EmplaceNotifies, Ch1!EmplaceNotifies, P2!EmplaceNotifies,
       Ch2!EmplaceNotifies, P1!PopNotifies, Ch1!PopNotifies, P2!PopNotifies,
       Ch2!PopNotifies, P1!NotifyOne, Ch1!NotifyOne, P2!NotifyOne, Ch2!NotifyOne,
       P1!NotifyAll, Ch1!NotifyAll, P2!NotifyAll, Ch2!NotifyAll, P1!At, Ch1!At,
       P2!At, Ch2!At

(* A thread that sleeps on a channel has nothing to take there, or a       *)
(* thread on its way to wake it; also when the channel is closed.          *)
NoStageStranded ==
    /\ Ch1!NoStrandedPop /\ Ch1!NoStrandedEmplace /\ Ch1!NoSleepAfterClose
    /\ Ch2!NoStrandedPop /\ Ch2!NoStrandedEmplace /\ Ch2!NoSleepAfterClose

(* No stage sleeps while the neighbour's end has something for it: t1 in   *)
(* pop() of ch1 and in emplace() of ch2 is at once the customer of two     *)
(* economies of notify_one, and the thread that owes the notifications of  *)
(* the other ends (channel.hpp:83, 108, 110, 142).                         *)
THEOREM StagesAreNotStranded == Spec => []NoStageStranded
<1>1. ASSUME IInv, [Next]_vars PROVE [P1!Next]_P1!vars /\ [P2!Next]_P2!vars
  <2>1. [Ch1!Next]_vars1 /\ [Ch2!Next]_vars2
    BY <1>1, FirstChannelStep, SecondChannelStep
  <2>. QED BY <2>1, SameSteps DEF vars1, vars2, P1!vars, P2!vars
<1>2. Init => P1!Init /\ P2!Init
  BY DEF Init, Ch1!Init, Ch2!Init, P1!Init, P2!Init
<1>3. Spec => P1!Spec /\ P2!Spec
  BY <1>1, <1>2, Inductive, PTL DEF Spec, P1!Spec, P2!Spec
<1>4. P1!Spec => [](P1!NoStrandedPop /\ P1!NoStrandedEmplace /\ P1!NoSleepAfterClose)
  BY ChannelsAreProper, P1!ConsumersAreNotStranded, P1!ProducersAreNotStranded,
     P1!CloseWakesEverybody, PTL
<1>5. P2!Spec => [](P2!NoStrandedPop /\ P2!NoStrandedEmplace /\ P2!NoSleepAfterClose)
  BY ChannelsAreProper, P2!ConsumersAreNotStranded, P2!ProducersAreNotStranded,
     P2!CloseWakesEverybody, PTL
<1>6. /\ P1!NoStrandedPop /\ P1!NoStrandedEmplace /\ P1!NoSleepAfterClose
      /\ P2!NoStrandedPop /\ P2!NoStrandedEmplace /\ P2!NoSleepAfterClose
      => NoStageStranded
  BY DEF NoStageStranded, P1!NoStrandedPop, Ch1!NoStrandedPop, P2!NoStrandedPop, Ch2!NoStrandedPop,
         P1!NoStrandedEmplace, Ch1!NoStrandedEmplace, P2!NoStrandedEmplace,
         Ch2!NoStrandedEmplace, P1!NoSleepAfterClose, Ch1!NoSleepAfterClose,
         P2!NoSleepAfterClose, Ch2!NoSleepAfterClose, P1!At, Ch1!At, P2!At, Ch2!At,
         P1!HasRoom, Ch1!HasRoom, P2!HasRoom, Ch2!HasRoom, P1!HasItem, Ch1!HasItem,
         P2!HasItem, Ch2!HasItem
<1>. QED BY <1>3, <1>4, <1>5, <1>6, PTL

=============================================================================
