----------------------------- MODULE AuditProofs -----------------------------
(***************************************************************************)
(* Theorems about Audit, for any events, observers and callers of Close and*)
(* any size of the queue: events are lost in silence only after stop or    *)
(* when a Close gave up waiting, none is overtaken, no registration is     *)
(* lost, and a Close in time leaves no file open.                          *)
(***************************************************************************)
EXTENDS Audit, SequenceTheorems, FiniteSetTheorems, TLAPS

Named(s) == {s[i] : i \in DOMAIN s}

LEMMA NamedAppend ==
  ASSUME NEW S, NEW s \in Seq(S), NEW e \in S
  PROVE  Named(Append(s, e)) = Named(s) \cup {e}
<1>1. Append(s, e)[Len(s) + 1] = e /\ Len(Append(s, e)) = Len(s) + 1
  BY AppendProperties
<1>2. \A i \in 1..Len(s) : Append(s, e)[i] = s[i]
  BY AppendProperties
<1>3. DOMAIN s = 1..Len(s) /\ DOMAIN Append(s, e) = 1..(Len(s) + 1) /\ Len(s) \in Nat
  BY <1>1, AppendProperties, LenProperties
<1> QED BY <1>1, <1>2, <1>3 DEF Named

LEMMA NamedTail ==
  ASSUME NEW S, NEW s \in Seq(S), s # <<>>
  PROVE  Named(s) = {Head(s)} \cup Named(Tail(s))
<1>1. /\ Tail(s) \in Seq(S) /\ Len(Tail(s)) = Len(s) - 1
      /\ \A i \in 1..Len(Tail(s)) : Tail(s)[i] = s[i + 1]
  BY HeadTailProperties
<1>2. DOMAIN s = 1..Len(s) /\ DOMAIN Tail(s) = 1..(Len(s) - 1) /\ Len(s) \in Nat \ {0}
  BY <1>1, LenProperties, EmptySeq
<1>3. Head(s) = s[1]
  OBVIOUS
<1>4. \A i \in 1..Len(s) : i = 1 \/ (i - 1 \in 1..(Len(s) - 1) /\ Tail(s)[i - 1] = s[i])
  BY <1>1, <1>2
<1>5. \A i \in 1..(Len(s) - 1) : i + 1 \in 1..Len(s) /\ Tail(s)[i] = s[i + 1]
  BY <1>1, <1>2
<1>6. ASSUME NEW x \in Named(s) PROVE x = Head(s) \/ x \in Named(Tail(s))
  <2> PICK i \in 1..Len(s) : x = s[i]
    BY <1>2 DEF Named
  <2> QED BY <1>2, <1>3, <1>4 DEF Named
<1>7. ASSUME NEW x \in Named(Tail(s)) PROVE x \in Named(s)
  <2> PICK i \in 1..(Len(s) - 1) : x = Tail(s)[i]
    BY <1>2 DEF Named
  <2> QED BY <1>2, <1>5 DEF Named
<1>8. Head(s) \in Named(s)
  BY <1>2, <1>3 DEF Named
<1> QED BY <1>6, <1>7, <1>8

LEMMA NamedEmpty == Named(<<>>) = {}
BY DEF Named

LEMMA HeadThenTail ==
  ASSUME NEW S, NEW s \in Seq(S), s # <<>>
  PROVE  s = <<Head(s)>> \o Tail(s)
<1>1. Len(s) \in Nat \ {0} /\ Head(s) \in S /\ Tail(s) \in Seq(S)
  BY EmptySeq, HeadTailProperties
<1>2. Len(Tail(s)) = Len(s) - 1 /\ \A i \in 1..Len(Tail(s)) : Tail(s)[i] = s[i + 1]
  BY HeadTailProperties
<1>3. <<Head(s)>> \in Seq(S) /\ Len(<<Head(s)>>) = 1 /\ <<Head(s)>>[1] = s[1]
  BY <1>1
<1>4. /\ <<Head(s)>> \o Tail(s) \in Seq(S)
      /\ Len(<<Head(s)>> \o Tail(s)) = 1 + Len(Tail(s))
      /\ \A i \in 1..(1 + Len(Tail(s))) :
           (<<Head(s)>> \o Tail(s))[i] = IF i <= 1 THEN <<Head(s)>>[i] ELSE Tail(s)[i - 1]
  BY <1>1, <1>3, ConcatProperties
<1>5. \A i \in 1..Len(s) : (<<Head(s)>> \o Tail(s))[i] = s[i]
  BY <1>1, <1>2, <1>3, <1>4
<1> QED BY <1>1, <1>2, <1>4, <1>5, SeqEqual

LEMMA ConcatHeadTail ==
  \A s, q \in Seq(Events) : q # <<>> => s \o <<Head(q)>> \o Tail(q) = s \o q
<1> SUFFICES ASSUME NEW s \in Seq(Events), NEW q \in Seq(Events), q # <<>>
             PROVE  s \o <<Head(q)>> \o Tail(q) = s \o q
  OBVIOUS
<1>1. <<Head(q)>> \in Seq(Events) /\ Tail(q) \in Seq(Events)
  BY HeadTailProperties
<1>2. s \o <<Head(q)>> \o Tail(q) = s \o (<<Head(q)>> \o Tail(q))
  BY <1>1, ConcatAssociative
<1>3. q = <<Head(q)>> \o Tail(q)
  BY HeadThenTail
<1> QED BY <1>2, <1>3

LEMMA ConcatFour ==
  \A r, s, q, t \in Seq(Events) : (r \o s \o q) \o t = r \o s \o (q \o t)
<1> SUFFICES ASSUME NEW r \in Seq(Events), NEW s \in Seq(Events),
                    NEW q \in Seq(Events), NEW t \in Seq(Events)
             PROVE  (r \o s \o q) \o t = r \o s \o (q \o t)
  OBVIOUS
<1> DEFINE p == r \o s
<1>1. p \in Seq(Events)
  BY ConcatProperties
<1> HIDE DEF p
<1>2. (p \o q) \o t = p \o (q \o t)
  BY <1>1, ConcatAssociative
<1> QED BY <1>2 DEF p

\* The end of a sequence grows with the sequence.
LEMMA EndOfConcat ==
  ASSUME NEW S, NEW s \in Seq(S), NEW q \in Seq(S), NEW n \in 0..Len(s)
  PROVE  /\ SubSeq(s, n + 1, Len(s)) \in Seq(S)
         /\ SubSeq(s \o q, n + 1, Len(s \o q)) = SubSeq(s, n + 1, Len(s)) \o q
<1>1. Len(s) \in Nat /\ Len(q) \in Nat /\ n \in Nat /\ n <= Len(s)
  BY LenProperties
<1>2. /\ s \o q \in Seq(S) /\ Len(s \o q) = Len(s) + Len(q)
      /\ \A i \in 1..(Len(s) + Len(q)) :
           (s \o q)[i] = IF i <= Len(s) THEN s[i] ELSE q[i - Len(s)]
  BY ConcatProperties
<1> DEFINE a == SubSeq(s, n + 1, Len(s))
           b == SubSeq(s \o q, n + 1, Len(s \o q))
<1>3. /\ a \in Seq(S) /\ Len(a) = Len(s) - n
      /\ \A i \in 1..(Len(s) - n) : a[i] = s[n + i]
  <2>1. \A i \in (n + 1)..Len(s) : s[i] \in S
    BY <1>1, ElementOfSeq
  <2>a. n + 1 \in Int /\ Len(s) \in Int
    BY <1>1
  <2>2. /\ a \in Seq(S) /\ Len(a) = IF n + 1 <= Len(s) THEN Len(s) - (n + 1) + 1 ELSE 0
        /\ \A i \in 1..(Len(s) - (n + 1) + 1) : a[i] = s[(n + 1) + i - 1]
    BY <2>a, <2>1, SubSeqProperties
  <2> HIDE DEF a
  <2>3. \A i \in 1..(Len(s) - n) : (n + 1) + i - 1 = n + i
    BY <1>1
  <2>4. Len(s) - (n + 1) + 1 = Len(s) - n
    BY <1>1
  <2>5. Len(a) = Len(s) - n
    <3>1. CASE n + 1 <= Len(s)
      BY <3>1, <2>2, <2>4
    <3>2. CASE n = Len(s)
      BY <3>2, <1>1, <2>2
    <3> QED BY <1>1, <3>1, <3>2
  <2> QED BY <2>2, <2>3, <2>4, <2>5
<1>4. /\ b \in Seq(S) /\ Len(b) = Len(s) + Len(q) - n
      /\ \A i \in 1..(Len(s) + Len(q) - n) : b[i] = (s \o q)[n + i]
  <2> DEFINE t == s \o q
  <2>0. t \in Seq(S) /\ Len(t) = Len(s) + Len(q)
    BY <1>2
  <2> HIDE DEF t
  <2>a. n + 1 \in Int /\ Len(t) \in Int
    BY <1>1, <2>0
  <2>1. \A i \in (n + 1)..Len(t) : t[i] \in S
    BY <1>1, <2>0, ElementOfSeq
  <2> DEFINE c == SubSeq(t, n + 1, Len(t))
  <2>2. /\ c \in Seq(S) /\ Len(c) = IF n + 1 <= Len(t) THEN Len(t) - (n + 1) + 1 ELSE 0
        /\ \A i \in 1..(Len(t) - (n + 1) + 1) : c[i] = t[(n + 1) + i - 1]
    BY <2>a, <2>1, SubSeqProperties
  <2>3. \A i \in 1..(Len(t) - n) : (n + 1) + i - 1 = n + i
    BY <1>1, <2>0
  <2>4. Len(t) - (n + 1) + 1 = Len(s) + Len(q) - n
    BY <1>1, <2>0
  <2>5. /\ c \in Seq(S) /\ Len(c) = Len(s) + Len(q) - n
        /\ \A i \in 1..(Len(s) + Len(q) - n) : c[i] = t[n + i]
    BY <1>1, <2>0, <2>2, <2>3, <2>4
  <2> QED BY <2>5 DEF t
<1> HIDE DEF a, b
<1>5. /\ a \o q \in Seq(S) /\ Len(a \o q) = (Len(s) - n) + Len(q)
      /\ \A i \in 1..((Len(s) - n) + Len(q)) :
           (a \o q)[i] = IF i <= Len(s) - n THEN a[i] ELSE q[i - (Len(s) - n)]
  <2>1. a \in Seq(S)
    BY <1>3
  <2>2. /\ a \o q \in Seq(S) /\ Len(a \o q) = Len(a) + Len(q)
        /\ \A i \in 1..(Len(a) + Len(q)) :
             (a \o q)[i] = IF i <= Len(a) THEN a[i] ELSE q[i - Len(a)]
    BY <2>1, ConcatProperties
  <2> QED BY <2>2, <1>3
<1>6. \A i \in 1..Len(b) : b[i] = (a \o q)[i]
  <2> TAKE i \in 1..Len(b)
  <2>1. i \in 1..(Len(s) + Len(q) - n) /\ n + i \in 1..(Len(s) + Len(q))
    BY <1>1, <1>4
  <2>2. b[i] = IF n + i <= Len(s) THEN s[n + i] ELSE q[(n + i) - Len(s)]
    BY <2>1, <1>2, <1>4
  <2>3. CASE n + i <= Len(s)
    <3>1. i \in 1..(Len(s) - n) /\ i \in 1..((Len(s) - n) + Len(q)) /\ i <= Len(s) - n
      BY <1>1, <2>1, <2>3
    <3> QED BY <3>1, <2>2, <2>3, <1>3, <1>5
  <2>4. CASE ~(n + i <= Len(s))
    <3>1. /\ i \in 1..((Len(s) - n) + Len(q)) /\ ~(i <= Len(s) - n)
          /\ (n + i) - Len(s) = i - (Len(s) - n)
      BY <1>1, <2>1, <2>4
    <3> QED BY <3>1, <2>2, <2>4, <1>5
  <2> QED BY <2>3, <2>4
<1>7. Len(b) = Len(a \o q)
  BY <1>1, <1>4, <1>5
<1>8. b = a \o q
  BY <1>4, <1>5, <1>6, <1>7, SeqEqual
<1> QED BY <1>3, <1>8 DEF a, b

\* No observer twice in a list.
Once(s) == \A i, j \in DOMAIN s : s[i] = s[j] => i = j

LEMMA OnceTail ==
  ASSUME NEW S, NEW s \in Seq(S), s # <<>>, Once(s)
  PROVE  Once(Tail(s)) /\ Head(s) \notin Named(Tail(s))
<1>1. /\ Tail(s) \in Seq(S) /\ Len(Tail(s)) = Len(s) - 1
      /\ \A i \in 1..Len(Tail(s)) : Tail(s)[i] = s[i + 1]
  BY HeadTailProperties
<1>2. DOMAIN s = 1..Len(s) /\ DOMAIN Tail(s) = 1..(Len(s) - 1) /\ Len(s) \in Nat \ {0}
  BY <1>1, LenProperties, EmptySeq
<1>3. Head(s) = s[1]
  OBVIOUS
<1>4. \A i \in 1..(Len(s) - 1) : i + 1 \in 1..Len(s) /\ i + 1 # 1 /\ Tail(s)[i] = s[i + 1]
  BY <1>1, <1>2
<1>5. 1 \in 1..Len(s)
  BY <1>2
<1>6. Once(Tail(s))
  <2> SUFFICES ASSUME NEW i \in 1..(Len(s) - 1), NEW j \in 1..(Len(s) - 1), Tail(s)[i] = Tail(s)[j]
               PROVE  i = j
    BY <1>2 DEF Once
  <2>1. i + 1 = j + 1
    BY <1>2, <1>4 DEF Once
  <2> QED BY <2>1
<1>7. ASSUME Head(s) \in Named(Tail(s)) PROVE FALSE
  <2> PICK i \in 1..(Len(s) - 1) : Head(s) = Tail(s)[i]
    BY <1>7, <1>2 DEF Named
  <2> QED BY <1>2, <1>3, <1>4, <1>5 DEF Once
<1> QED BY <1>6, <1>7

\* Which registrations are in the list.
ListInv ==
  /\ Named(observers) = {o \in Observers : regPc[o] = "done"}
  /\ Named(wList) \subseteq Named(observers)
  /\ open \subseteq Named(observers)

\* The worker's hands are full while it delivers, and it drains only when stop
\* is closed.
WorkerInv ==
  /\ IF Delivering THEN Len(wEvent) = 1 ELSE wEvent = <<>> /\ wList = <<>>
  /\ wPc \in {"drain", "drain deliver", "done"} => stopped

\* The first two parts of LostOnlyAfterStop.
Accounts ==
  /\ Cardinality({e \in Events : outcome[e] # "idle"}) = dropped + Len(accepted)
  /\ accepted = delivered \o wEvent \o jobs

QueueInv == Accounts /\ IsFiniteSet({e \in Events : outcome[e] # "idle"})

Since(n) == SubSeq(delivered, n + 1, Len(delivered))

\* An observer that has missed nothing since n: it has the event in flight, and
\* is no longer on the worker's list, or has not, and is still on it unless it
\* had no event before and need not get this one.
FreeOfGaps(o, n) ==
  \/ /\ offered[o] = Since(n)
     /\ Since(n) # <<>> => o \in Named(observers) /\ (Delivering => o \in Named(wList))
  \/ /\ Delivering /\ offered[o] = Since(n) \o wEvent
     /\ o \in Named(observers) \ Named(wList)

GapInv ==
  /\ Once(wList)
  /\ \A o \in Observers : \E n \in 0..Len(delivered) : FreeOfGaps(o, n)

\* What Close has promised, and what it leaves.
CloseInv ==
  /\ promised <= Len(accepted)
  /\ \A c \in Closers : closePc[c] # "idle" => stopped
  /\ StopKeepsTheQueue
  /\ \A c \in Closers : closePc[c] \in {"close", "done"} /\ ~late[c] =>
       WorkerDone /\ open \subseteq Named(closeList[c])
  /\ \A c \in Closers : closePc[c] = "done" => closeList[c] = <<>>
  /\ exited => \E c \in Closers : closePc[c] = "done"

LEMMA QueueSizePositive == QueueSize \in Nat \ {0}
BY AuditAssumption DEF QueueSize

LEMMA TypesInductive == TypeOK /\ ListInv /\ WorkerInv /\ [Next]_vars => TypeOK'
<1> SUFFICES ASSUME TypeOK, ListInv, WorkerInv, [Next]_vars PROVE TypeOK'
  OBVIOUS
<1> USE QueueSizePositive DEF regVars, publishVars, workerVars, closeVars
<1>0. /\ <<>> \in Seq(Observers) /\ <<>> \in Seq(Events)
      /\ \A e \in Events : <<e>> \in Seq(Events) /\ Len(<<e>>) = 1
  OBVIOUS
<1>1. ASSUME NEW o \in Observers, Register(o)
      PROVE  TypeOK'
  <2>1. CASE RegisterLoad(o) \/ RegisterRetry(o)
    BY <2>1 DEF RegisterLoad, RegisterRetry, TypeOK
  <2>2. CASE RegisterSwap(o)
    <3>1. o \notin Named(observers)
      BY <2>2 DEF RegisterSwap, ListInv
    <3>2. /\ Len(observers) \in Nat
          /\ DOMAIN observers = 1..Len(observers)
          /\ \A i \in 1..Len(observers) : observers[i] # o
      BY <3>1, LenProperties DEF Named, TypeOK
    <3>a. observers \in Seq(Observers) /\ observers' = Append(observers, o)
      BY <2>2 DEF RegisterSwap, TypeOK
    <3>b. /\ observers' \in Seq(Observers) /\ Len(observers') = Len(observers) + 1
          /\ \A i \in 1..Len(observers) : observers'[i] = observers[i]
          /\ observers'[Len(observers) + 1] = o
      BY <3>a, AppendProperties
    <3>3. DOMAIN observers' = 1..Len(observers')
      BY <3>b, LenProperties
    <3>4. \A i, j \in DOMAIN observers : observers[i] = observers[j] => i = j
      BY DEF TypeOK
    <3>5. \A i, j \in DOMAIN observers' : observers'[i] = observers'[j] => i = j
      BY <3>2, <3>3, <3>b, <3>4
    <3> QED BY <2>2, <3>b, <3>5 DEF RegisterSwap, TypeOK
  <2> QED BY <1>1, <2>1, <2>2 DEF Register
<1>2. ASSUME NEW e \in Events, Notify(e)
      PROVE  TypeOK'
  <2>1. CASE NotifyQueued(e)
    <3>a. /\ jobs \in Seq(Events) /\ accepted \in Seq(Events) /\ Len(jobs) < QueueSize
          /\ jobs' = Append(jobs, e) /\ accepted' = Append(accepted, e)
      BY <2>1 DEF NotifyQueued, TypeOK
    <3>1. /\ jobs' \in Seq(Events) /\ Len(jobs') = Len(jobs) + 1
          /\ accepted' \in Seq(Events) /\ Len(jobs) \in Nat
      BY <3>a, AppendProperties, LenProperties
    <3>2. Len(jobs') <= QueueSize
      BY <3>a, <3>1
    <3> QED BY <2>1, <3>1, <3>2 DEF NotifyQueued, TypeOK, QueueSize
  <2>2. CASE NotifyDropped(e)
    <3>1. dropped' \in Nat
      <4>1. dropped \in Nat
        BY DEF TypeOK
      <4>2. dropped' = dropped + 1
        BY <2>2 DEF NotifyDropped
      <4> QED BY <4>1, <4>2
    <3>2. outcome' \in [Events -> {"idle", "accepted", "dropped"}]
      BY <2>2 DEF NotifyDropped, TypeOK
    <3> QED BY <2>2, <3>1, <3>2 DEF NotifyDropped, TypeOK, QueueSize
  <2> QED BY <1>2, <2>1, <2>2 DEF Notify
<1>3. CASE worker
  <2>1. CASE Take
    <3>a. jobs \in Seq(Events) /\ jobs # <<>> /\ Len(jobs) <= QueueSize /\ jobs' = Tail(jobs)
      BY <2>1 DEF Take, TypeOK
    <3>1. /\ Head(jobs) \in Events /\ Tail(jobs) \in Seq(Events)
          /\ Len(Tail(jobs)) = Len(jobs) - 1 /\ Len(jobs) \in Nat
      BY <3>a, HeadTailProperties, LenProperties
    <3>2. jobs' \in Seq(Events) /\ Len(jobs') <= QueueSize
      BY <3>a, <3>1
    <3>3. wEvent' \in Seq(Events) /\ Len(wEvent') <= 1
      <4>1. wEvent' = <<Head(jobs)>>
        BY <2>1 DEF Take
      <4>2. wEvent' \in Seq(Events) /\ Len(wEvent') = 1
        BY <4>1, <3>1, <1>0, Zenon
      <4> QED BY <4>2
    <3> QED BY <2>1, <3>2, <3>3 DEF Take, TypeOK, QueueSize
  <2>2. CASE Offer
    <3>1. Head(wList) \in Observers /\ Tail(wList) \in Seq(Observers)
      BY <2>2, HeadTailProperties DEF Offer, TypeOK
    <3>2. open' \subseteq Files
      BY <2>2 DEF Offer, OpenedBy, TypeOK
    <3>3. offered[Head(wList)] \o wEvent \in Seq(Events)
      BY <3>1, ConcatProperties DEF TypeOK
    <3>4. offered' \in [Observers -> Seq(Events)]
      BY <2>2, <3>1, <3>3 DEF Offer, TypeOK
    <3> QED BY <2>2, <3>1, <3>2, <3>4 DEF Offer, TypeOK
  <2>3. CASE Delivered
    <3>1. delivered \o wEvent \in Seq(Events)
      BY ConcatProperties DEF TypeOK
    <3>2. wEvent' \in Seq(Events) /\ Len(wEvent') <= 1
      <4>1. wEvent' = <<>>
        BY <2>3 DEF Delivered
      <4>2. wEvent' \in Seq(Events) /\ Len(wEvent') = 0
        BY <4>1, EmptySeq
      <4> QED BY <4>2
    <3>3. wPc' \in {"select", "deliver", "drain", "drain deliver", "done"}
      BY <2>3 DEF Delivered
    <3> QED BY <2>3, <3>1, <3>2, <3>3 DEF Delivered, TypeOK
  <2>4. CASE StopSeen \/ Drained
    BY <2>4 DEF StopSeen, Drained, TypeOK
  <2> QED BY <1>3, <2>1, <2>2, <2>3, <2>4 DEF worker
<1>4. ASSUME NEW c \in Closers, Close(c)
      PROVE  TypeOK'
  <2>1. CASE CloseStop(c)
    BY <2>1, LenProperties DEF CloseStop, TypeOK
  <2>2. CASE CloseAwaited(c) \/ CloseTimeout(c)
    BY <2>2 DEF CloseAwaited, CloseTimeout, TypeOK
  <2>3. CASE CloseObserver(c)
    <3>1. Tail(closeList[c]) \in Seq(Observers)
      BY <2>3, HeadTailProperties DEF CloseObserver, TypeOK
    <3> QED BY <2>3, <3>1 DEF CloseObserver, TypeOK
  <2>4. CASE CloseDone(c)
    BY <2>4 DEF CloseDone, TypeOK
  <2> QED BY <1>4, <2>1, <2>2, <2>3, <2>4 DEF Close
<1>5. CASE Exit \/ Ended \/ UNCHANGED vars
  BY <1>5 DEF Exit, Ended, vars, TypeOK, QueueSize
<1> QED BY <1>1, <1>2, <1>3, <1>4, <1>5 DEF Next

\* Whoever publishes, delivers or closes leaves the list as it is.
LEMMA ListsInductive == TypeOK /\ ListInv /\ WorkerInv /\ [Next]_vars => ListInv'
<1> SUFFICES ASSUME TypeOK, ListInv, WorkerInv, [Next]_vars PROVE ListInv'
  OBVIOUS
<1> USE DEF regVars, publishVars, workerVars, closeVars
<1>t. /\ observers \in Seq(Observers) /\ wList \in Seq(Observers)
      /\ regPc \in [Observers -> {"idle", "swap", "done"}]
      /\ \A c \in Closers : closeList[c] \in Seq(Observers)
  BY DEF TypeOK
<1>1. ASSUME NEW o \in Observers, Register(o)
      PROVE  ListInv'
  <2>1. CASE RegisterLoad(o) \/ RegisterRetry(o)
    BY <2>1, <1>t DEF RegisterLoad, RegisterRetry, ListInv
  <2>2. CASE RegisterSwap(o)
    <3>1. observers' = Append(observers, o) /\ regPc' = [regPc EXCEPT ![o] = "done"]
      BY <2>2 DEF RegisterSwap
    <3>2. Named(observers') = Named(observers) \cup {o}
      BY <3>1, <1>t, NamedAppend
    <3>3. {x \in Observers : regPc'[x] = "done"} = {x \in Observers : regPc[x] = "done"} \cup {o}
      BY <3>1, <1>t
    <3>4. wList' = wList /\ open' = open
      BY <2>2 DEF RegisterSwap
    <3> QED BY <3>2, <3>3, <3>4 DEF ListInv
  <2> QED BY <1>1, <2>1, <2>2 DEF Register
<1>2. ASSUME NEW e \in Events, Notify(e)
      PROVE  ListInv'
  BY <1>2 DEF Notify, NotifyQueued, NotifyDropped, ListInv
<1>3. CASE worker
  <2>1. CASE Take
    BY <2>1 DEF Take, ListInv
  <2>2. CASE Offer
    <3>1. Named(wList) = {Head(wList)} \cup Named(Tail(wList))
      BY <2>2, <1>t, NamedTail DEF Offer
    <3>2. wList' = Tail(wList) /\ open' \subseteq open \cup {Head(wList)}
      BY <2>2 DEF Offer, OpenedBy
    <3>3. UNCHANGED <<observers, regPc>>
      BY <2>2 DEF Offer
    <3> QED BY <3>1, <3>2, <3>3 DEF ListInv
  <2>3. CASE Delivered \/ StopSeen \/ Drained
    BY <2>3 DEF Delivered, StopSeen, Drained, ListInv
  <2> QED BY <1>3, <2>1, <2>2, <2>3 DEF worker
<1>4. ASSUME NEW c \in Closers, Close(c)
      PROVE  ListInv'
  BY <1>4 DEF Close, CloseStop, CloseAwaited, CloseTimeout, CloseObserver, CloseDone, ListInv
<1>5. CASE Exit \/ Ended \/ UNCHANGED vars
  BY <1>5 DEF Exit, Ended, vars, ListInv
<1> QED BY <1>1, <1>2, <1>3, <1>4, <1>5 DEF Next

LEMMA WorkerInductive == TypeOK /\ WorkerInv /\ [Next]_vars => WorkerInv'
<1> SUFFICES ASSUME TypeOK, WorkerInv, [Next]_vars PROVE WorkerInv'
  OBVIOUS
<1> USE DEF regVars, publishVars, workerVars, closeVars, Delivering
<1>1. ASSUME NEW o \in Observers, Register(o)
      PROVE  WorkerInv'
  BY <1>1 DEF Register, RegisterLoad, RegisterSwap, RegisterRetry, WorkerInv
<1>2. ASSUME NEW e \in Events, Notify(e)
      PROVE  WorkerInv'
  BY <1>2 DEF Notify, NotifyQueued, NotifyDropped, WorkerInv
<1>3. CASE worker
  <2>1. CASE Take
    <3>1. wEvent' = <<Head(jobs)>> /\ wPc' \in {"deliver", "drain deliver"}
          /\ (wPc' = "drain deliver" => wPc = "drain") /\ stopped' = stopped
      BY <2>1 DEF Take
    <3>2. Len(wEvent') = 1
      BY <3>1
    <3> QED BY <3>1, <3>2 DEF WorkerInv
  <2>2. CASE Offer
    BY <2>2 DEF Offer, WorkerInv
  <2>3. CASE Delivered
    BY <2>3 DEF Delivered, WorkerInv
  <2>4. CASE StopSeen \/ Drained
    BY <2>4 DEF StopSeen, Drained, WorkerInv
  <2> QED BY <1>3, <2>1, <2>2, <2>3, <2>4 DEF worker
<1>4. ASSUME NEW c \in Closers, Close(c)
      PROVE  WorkerInv'
  BY <1>4 DEF Close, CloseStop, CloseAwaited, CloseTimeout, CloseObserver, CloseDone, WorkerInv
<1>5. CASE Exit \/ Ended \/ UNCHANGED vars
  BY <1>5 DEF Exit, Ended, vars, WorkerInv
<1> QED BY <1>1, <1>2, <1>3, <1>4, <1>5 DEF Next

LEMMA QueueInductive == TypeOK /\ WorkerInv /\ QueueInv /\ [Next]_vars => QueueInv'
<1> SUFFICES ASSUME TypeOK, WorkerInv, QueueInv, [Next]_vars PROVE QueueInv'
  OBVIOUS
<1> USE DEF regVars, publishVars, workerVars, closeVars
<1>t. /\ jobs \in Seq(Events) /\ accepted \in Seq(Events)
      /\ delivered \in Seq(Events) /\ wEvent \in Seq(Events)
      /\ outcome \in [Events -> {"idle", "accepted", "dropped"}] /\ dropped \in Nat
  BY DEF TypeOK
<1>q. accepted = delivered \o wEvent \o jobs
  BY DEF QueueInv, Accounts
<1> DEFINE Known == {e \in Events : outcome[e] # "idle"}
<1>k. IsFiniteSet(Known) /\ Cardinality(Known) = dropped + Len(accepted)
  BY DEF QueueInv, Accounts
<1>l. Len(accepted) \in Nat /\ delivered \o wEvent \in Seq(Events)
  BY <1>t, LenProperties, ConcatProperties
<1>1. ASSUME UNCHANGED <<outcome, dropped, accepted>>, accepted = delivered' \o wEvent' \o jobs'
      PROVE  QueueInv'
  BY <1>1, <1>k DEF QueueInv, Accounts
<1>2. ASSUME NEW e \in Events, Notify(e)
      PROVE  QueueInv'
  <2>1. /\ e \notin Known
        /\ Known' = Known \cup {e}
    BY <1>2, <1>t DEF Notify, NotifyQueued, NotifyDropped
  <2>2. IsFiniteSet(Known') /\ Cardinality(Known') = Cardinality(Known) + 1
    BY <2>1, <1>k, FS_AddElement
  <2>3. CASE NotifyQueued(e)
    <3>1. /\ jobs' = Append(jobs, e) /\ accepted' = Append(accepted, e)
          /\ UNCHANGED <<dropped, delivered, wEvent>>
      BY <2>3 DEF NotifyQueued
    <3>2. <<e>> \in Seq(Events)
      OBVIOUS
    <3>3. jobs' = jobs \o <<e>> /\ accepted' = accepted \o <<e>>
      BY <3>1, <1>t, AppendIsConcat
    <3>4. Len(accepted') = Len(accepted) + 1
      BY <3>1, <1>t, AppendProperties
    <3>5. (delivered \o wEvent \o jobs) \o <<e>> = delivered \o wEvent \o (jobs \o <<e>>)
      BY <1>t, <3>2, ConcatFour
    <3>6. accepted' = delivered' \o wEvent' \o jobs'
      BY <1>q, <3>1, <3>3, <3>5
    <3>7. Cardinality(Known') = dropped' + Len(accepted')
      BY <1>k, <1>l, <1>t, <2>2, <3>1, <3>4
    <3> QED BY <2>2, <3>6, <3>7 DEF QueueInv, Accounts
  <2>4. CASE NotifyDropped(e)
    <3>1. dropped' = dropped + 1 /\ UNCHANGED <<accepted, delivered, wEvent, jobs>>
      BY <2>4 DEF NotifyDropped
    <3>2. Cardinality(Known') = dropped' + Len(accepted')
      BY <1>k, <1>l, <1>t, <2>2, <3>1
    <3> QED BY <2>2, <3>1, <3>2, <1>q DEF QueueInv, Accounts
  <2> QED BY <1>2, <2>3, <2>4 DEF Notify
<1>3. CASE worker
  <2>1. CASE Take
    <3>1. jobs # <<>> /\ wEvent' = <<Head(jobs)>> /\ jobs' = Tail(jobs)
          /\ UNCHANGED <<outcome, dropped, accepted, delivered>>
      BY <2>1 DEF Take
    <3>2. wEvent = <<>>
      BY <2>1 DEF Take, WorkerInv, Delivering
    <3>5. delivered \o <<Head(jobs)>> \o Tail(jobs) = delivered \o jobs
      BY <3>1, <1>t, ConcatHeadTail
    <3>6. delivered \o wEvent = delivered
      BY <3>2, <1>t, ConcatEmptySeq
    <3> QED BY <1>1, <1>q, <3>1, <3>5, <3>6
  <2>2. CASE Offer
    BY <2>2, <1>1, <1>q DEF Offer
  <2>3. CASE Delivered
    <3>1. delivered' = delivered \o wEvent /\ wEvent' = <<>> /\ jobs' = jobs
          /\ UNCHANGED <<outcome, dropped, accepted>>
      BY <2>3 DEF Delivered
    <3>2. delivered' \o <<>> = delivered'
      BY <3>1, <1>l, ConcatEmptySeq
    <3> QED BY <1>1, <1>q, <3>1, <3>2
  <2>4. CASE StopSeen \/ Drained
    BY <2>4, <1>1, <1>q DEF StopSeen, Drained
  <2> QED BY <1>3, <2>1, <2>2, <2>3, <2>4 DEF worker
<1>4. ASSUME NEW o \in Observers, Register(o)
      PROVE  QueueInv'
  BY <1>4, <1>1, <1>q DEF Register, RegisterLoad, RegisterSwap, RegisterRetry
<1>5. ASSUME NEW c \in Closers, Close(c)
      PROVE  QueueInv'
  BY <1>5, <1>1, <1>q DEF Close, CloseStop, CloseAwaited, CloseTimeout, CloseObserver, CloseDone
<1>6. CASE Exit \/ Ended \/ UNCHANGED vars
  BY <1>6, <1>1, <1>q DEF Exit, Ended, vars
<1> QED BY <1>2, <1>3, <1>4, <1>5, <1>6 DEF Next

LEMMA ClosesInductive ==
  TypeOK /\ ListInv /\ WorkerInv /\ QueueInv /\ CloseInv /\ [Next]_vars => CloseInv'
<1> SUFFICES ASSUME TypeOK, ListInv, WorkerInv, QueueInv, CloseInv, [Next]_vars
             PROVE  CloseInv'
  OBVIOUS
<1> USE DEF regVars, publishVars, workerVars, closeVars
<1>t. /\ accepted \in Seq(Events) /\ delivered \in Seq(Events) /\ wEvent \in Seq(Events)
      /\ Len(accepted) \in Nat /\ Len(delivered) \in Nat /\ promised \in Nat
      /\ closePc \in [Closers -> {"idle", "wait", "close", "done"}]
      /\ closeList \in [Closers -> Seq(Observers)] /\ late \in [Closers -> BOOLEAN]
  BY LenProperties DEF TypeOK
\* Whoever does not close: accepted and delivered only grow, the worker that is
\* done stays done and opens no file.
<1>1. ASSUME UNCHANGED closeVars, Len(accepted') \in Nat, Len(accepted) <= Len(accepted'),
             WorkerDone => UNCHANGED <<wPc, open, delivered>>,
             ~WorkerDone => wPc' # "done"
      PROVE  CloseInv'
  BY <1>1, <1>t DEF CloseInv, StopKeepsTheQueue, WorkerDone
<1>2. ASSUME NEW o \in Observers, Register(o)
      PROVE  CloseInv'
  BY <1>2, <1>1, <1>t DEF Register, RegisterLoad, RegisterSwap, RegisterRetry, WorkerDone
<1>3. ASSUME NEW e \in Events, Notify(e)
      PROVE  CloseInv'
  <2>1. CASE NotifyQueued(e)
    <3>1. Len(accepted') = Len(accepted) + 1
      BY <2>1, <1>t, AppendProperties DEF NotifyQueued
    <3> QED BY <2>1, <3>1, <1>1, <1>t DEF NotifyQueued, WorkerDone
  <2>2. CASE NotifyDropped(e)
    BY <2>2, <1>1, <1>t DEF NotifyDropped, WorkerDone
  <2> QED BY <1>3, <2>1, <2>2 DEF Notify
<1>4. CASE worker
  <2>1. CASE Take \/ Offer \/ Delivered \/ StopSeen
    <3>1. /\ UNCHANGED <<closeVars, accepted>>
          /\ ~WorkerDone /\ wPc' # "done"
      BY <2>1 DEF Take, Offer, Delivered, StopSeen, WorkerDone, Delivering
    <3> QED BY <3>1, <1>1, <1>t
  <2>2. CASE Drained
    <3>1. jobs = <<>> /\ wEvent = <<>>
      BY <2>2 DEF Drained, WorkerInv, Delivering
    <3>2. accepted = delivered \o <<>> \o <<>>
      BY <3>1 DEF QueueInv, Accounts
    <3>3. accepted = delivered
      BY <3>2, <1>t, ConcatEmptySeq
    <3>4. /\ wPc = "drain" /\ wPc' = "done"
          /\ UNCHANGED <<closeVars, accepted, delivered, open>>
      BY <2>2 DEF Drained
    <3>5. Len(delivered) >= promised
      BY <3>3, <1>t DEF CloseInv
    <3> QED BY <3>4, <3>5 DEF CloseInv, StopKeepsTheQueue, WorkerDone
  <2> QED BY <1>4, <2>1, <2>2 DEF worker
<1>5. ASSUME NEW c \in Closers, Close(c)
      PROVE  CloseInv'
  <2>0. UNCHANGED <<accepted, delivered, wPc>>
    BY <1>5 DEF Close, CloseStop, CloseAwaited, CloseTimeout, CloseObserver, CloseDone
  <2>1. CASE CloseStop(c)
    <3>1. ~stopped => ~WorkerDone
      BY DEF WorkerInv, WorkerDone
    <3>2. promised' <= Len(accepted)
      BY <2>1, <1>t DEF CloseStop, CloseInv
    <3>3. WorkerDone => Len(delivered) >= promised'
      BY <2>1, <3>1 DEF CloseStop, CloseInv, StopKeepsTheQueue
    <3> QED BY <2>0, <2>1, <1>t, <3>2, <3>3 DEF CloseStop, CloseInv, StopKeepsTheQueue, WorkerDone
  <2>2. CASE CloseAwaited(c)
    BY <2>0, <2>2, <1>t DEF CloseAwaited, CloseInv, StopKeepsTheQueue, WorkerDone, ListInv
  <2>3. CASE CloseTimeout(c)
    BY <2>0, <2>3, <1>t DEF CloseTimeout, CloseInv, StopKeepsTheQueue, WorkerDone
  <2>4. CASE CloseObserver(c)
    <3>1. Named(closeList[c]) = {Head(closeList[c])} \cup Named(Tail(closeList[c]))
      BY <2>4, <1>t, NamedTail DEF CloseObserver
    <3>2. /\ open' = open \ {Head(closeList[c])}
          /\ closeList' = [closeList EXCEPT ![c] = Tail(@)]
          /\ closePc[c] = "close"
          /\ UNCHANGED <<closePc, late, stopped, promised>>
      BY <2>4 DEF CloseObserver
    <3>3. \A x \in Closers : closePc[x] \in {"close", "done"} /\ ~late[x] =>
            WorkerDone /\ open' \subseteq Named(closeList'[x])
      BY <3>1, <3>2, <1>t DEF CloseInv
    <3>4. \A x \in Closers : closePc[x] = "done" => closeList'[x] = <<>>
      BY <3>2, <1>t DEF CloseInv
    <3>5. ~exited /\ exited' = exited
      BY <2>4 DEF CloseObserver
    <3> QED BY <2>0, <3>2, <3>3, <3>4, <3>5 DEF CloseInv, StopKeepsTheQueue, WorkerDone
  <2>5. CASE CloseDone(c)
    BY <2>0, <2>5, <1>t DEF CloseDone, CloseInv, StopKeepsTheQueue, WorkerDone
  <2> QED BY <1>5, <2>1, <2>2, <2>3, <2>4, <2>5 DEF Close
<1>6. CASE Ended \/ UNCHANGED vars
  BY <1>6, <1>1, <1>t DEF Ended, vars, WorkerDone
<1>7. CASE Exit
  BY <1>7, <1>t DEF Exit, CloseInv, StopKeepsTheQueue, WorkerDone
<1> QED BY <1>2, <1>3, <1>4, <1>5, <1>6, <1>7 DEF Next

LEMMA GapsInductive ==
  TypeOK /\ ListInv /\ WorkerInv /\ GapInv /\ [Next]_vars => GapInv'
<1> SUFFICES ASSUME TypeOK, ListInv, WorkerInv, GapInv, [Next]_vars
             PROVE  GapInv'
  OBVIOUS
<1> USE DEF regVars, publishVars, workerVars, closeVars
<1>t. /\ observers \in Seq(Observers) /\ Once(observers)
      /\ wList \in Seq(Observers) /\ Once(wList)
      /\ delivered \in Seq(Events) /\ wEvent \in Seq(Events)
      /\ offered \in [Observers -> Seq(Events)]
  BY DEF TypeOK, Once, GapInv
<1>s. ASSUME UNCHANGED <<delivered, offered, wEvent, wList>>, Delivering' <=> Delivering,
             Named(observers) \subseteq Named(observers')
      PROVE  GapInv'
  BY <1>s DEF GapInv, FreeOfGaps, Since
<1>1. ASSUME NEW o \in Observers, Register(o)
      PROVE  GapInv'
  <2>1. CASE RegisterLoad(o) \/ RegisterRetry(o)
    BY <2>1, <1>s DEF RegisterLoad, RegisterRetry, Delivering
  <2>2. CASE RegisterSwap(o)
    <3>1. Named(observers') = Named(observers) \cup {o}
      BY <2>2, <1>t, NamedAppend DEF RegisterSwap
    <3> QED BY <2>2, <3>1, <1>s DEF RegisterSwap, Delivering
  <2> QED BY <1>1, <2>1, <2>2 DEF Register
<1>2. ASSUME NEW e \in Events, Notify(e)
      PROVE  GapInv'
  BY <1>2, <1>s DEF Notify, NotifyQueued, NotifyDropped, Delivering
<1>3. CASE worker
  <2>1. CASE Take
    <3>1. /\ ~Delivering /\ wList' = observers
          /\ UNCHANGED <<observers, delivered, offered>>
      BY <2>1 DEF Take, Delivering
    <3>2. Once(wList')
      BY <3>1, <1>t
    <3> QED BY <3>1, <3>2 DEF GapInv, FreeOfGaps, Since
  <2>2. CASE Offer
    <3>1. /\ Delivering /\ Delivering' /\ wList # <<>> /\ wList' = Tail(wList)
          /\ offered' = [offered EXCEPT ![Head(wList)] = @ \o wEvent]
          /\ UNCHANGED <<observers, delivered, wEvent>>
      BY <2>2 DEF Offer, Delivering
    <3>2. /\ Once(Tail(wList)) /\ Head(wList) \notin Named(Tail(wList))
          /\ Named(wList) = {Head(wList)} \cup Named(Tail(wList))
      BY <3>1, <1>t, OnceTail, NamedTail
    <3>3. ASSUME NEW o \in Observers
          PROVE  \E n \in 0..Len(delivered') : FreeOfGaps(o, n)'
      <4> PICK n \in 0..Len(delivered) : FreeOfGaps(o, n)
        BY DEF GapInv
      <4>1. CASE o = Head(wList)
        <5>1. offered[o] = Since(n)
          BY <4>1, <3>2 DEF FreeOfGaps
        <5>2. offered'[o] = Since(n) \o wEvent
          BY <4>1, <5>1, <3>1, <1>t
        <5>3. o \in Named(observers) \ Named(wList')
          BY <4>1, <3>1, <3>2 DEF ListInv
        <5> QED BY <3>1, <5>2, <5>3 DEF FreeOfGaps, Since
      <4>2. CASE o # Head(wList)
        <5>1. offered'[o] = offered[o]
          BY <4>2, <3>1, <1>t
        <5>2. o \in Named(wList') <=> o \in Named(wList)
          BY <4>2, <3>1, <3>2
        <5> QED BY <3>1, <5>1, <5>2 DEF FreeOfGaps, Since
      <4> QED BY <4>1, <4>2
    <3> QED BY <3>1, <3>2, <3>3 DEF GapInv
  <2>3. CASE Delivered
    <3>1. /\ Delivering /\ ~Delivering' /\ wList = <<>> /\ wList' = wList
          /\ delivered' = delivered \o wEvent
          /\ UNCHANGED <<observers, offered>>
      BY <2>3 DEF Delivered, Delivering
    <3>2. Named(wList) = {}
      BY <3>1, NamedEmpty
    <3>3. /\ delivered' \in Seq(Events) /\ Len(delivered) \in Nat
          /\ Len(delivered') \in Nat /\ Len(delivered) <= Len(delivered')
      BY <3>1, <1>t, ConcatProperties, LenProperties
    <3>4. ASSUME NEW o \in Observers
          PROVE  \E n \in 0..Len(delivered') : FreeOfGaps(o, n)'
      <4> PICK n \in 0..Len(delivered) : FreeOfGaps(o, n)
        BY DEF GapInv
      <4>1. CASE offered[o] = Since(n) /\ Since(n) = <<>>
        <5>1. SubSeq(delivered', Len(delivered') + 1, Len(delivered')) = <<>>
          BY <3>3, SubSeqEmpty
        <5>2. FreeOfGaps(o, Len(delivered))'
          BY <3>1, <4>1, <5>1 DEF FreeOfGaps, Since
        <5> QED BY <3>3, <5>2
      <4>2. CASE offered[o] = Since(n) \o wEvent /\ o \in Named(observers)
        <5>1. Since(n)' = Since(n) \o wEvent
          BY <3>1, <1>t, EndOfConcat DEF Since
        <5>2. FreeOfGaps(o, n)'
          BY <3>1, <4>2, <5>1 DEF FreeOfGaps
        <5> QED BY <3>3, <5>2
      <4> QED BY <3>1, <3>2, <4>1, <4>2 DEF FreeOfGaps
    <3>5. Once(wList')
      BY <3>1, <1>t
    <3> QED BY <3>4, <3>5 DEF GapInv
  <2>4. CASE StopSeen \/ Drained
    BY <2>4, <1>s DEF StopSeen, Drained, Delivering
  <2> QED BY <1>3, <2>1, <2>2, <2>3, <2>4 DEF worker
<1>4. ASSUME NEW c \in Closers, Close(c)
      PROVE  GapInv'
  BY <1>4, <1>s
  DEF Close, CloseStop, CloseAwaited, CloseTimeout, CloseObserver, CloseDone, Delivering
<1>5. CASE Exit \/ Ended \/ UNCHANGED vars
  <2>1. UNCHANGED <<observers, wPc, wEvent, wList, delivered, offered>>
    BY <1>5 DEF Exit, Ended, vars
  <2> QED BY <2>1, <1>s DEF Delivering
<1> QED BY <1>1, <1>2, <1>3, <1>4, <1>5 DEF Next

LEMMA GapsToProperty == TypeOK /\ WorkerInv /\ GapInv => NoGapForAnObserver
<1> SUFFICES ASSUME TypeOK, WorkerInv, GapInv, NEW o \in Observers
             PROVE  \E n \in 0..Len(delivered) :
                      /\ offered[o] \in {Since(n), Since(n) \o wEvent}
                      /\ (offered[o] = Since(n) /\ Since(n) # <<>> /\ Delivering =>
                           \E i \in DOMAIN wList : wList[i] = o)
  BY DEF NoGapForAnObserver, Since
<1>t. delivered \in Seq(Events) /\ wEvent \in Seq(Events)
  BY DEF TypeOK
<1> PICK n \in 0..Len(delivered) : FreeOfGaps(o, n)
  BY DEF GapInv
<1>1. CASE Delivering /\ offered[o] = Since(n) \o wEvent
  <2>1. Since(n) \in Seq(Events)
    BY <1>t, EndOfConcat DEF Since
  <2>2. Len(wEvent) = 1 /\ Len(Since(n)) \in Nat
    BY <1>1, <2>1, LenProperties DEF WorkerInv
  <2>4. Len(Since(n) \o wEvent) = Len(Since(n)) + Len(wEvent)
    BY <2>1, <1>t, ConcatProperties
  <2>3. offered[o] # Since(n)
    BY <1>1, <2>2, <2>4
  <2> QED BY <1>1, <2>3
<1>2. CASE offered[o] = Since(n) /\ (Since(n) # <<>> /\ Delivering => o \in Named(wList))
  BY <1>2 DEF Named
<1> QED BY <1>1, <1>2 DEF FreeOfGaps

----------------------------------------------------------------------------
(* The theorems.                                                           *)

IInv == TypeOK /\ ListInv /\ WorkerInv /\ QueueInv /\ CloseInv /\ GapInv

LEMMA InitiallyIInv == Init => IInv
<1> SUFFICES ASSUME Init PROVE IInv
  OBVIOUS
<1> USE DEF Init
<1>0. /\ <<>> \in Seq(Observers) /\ <<>> \in Seq(Events)
      /\ Len(<<>>) = 0 /\ <<>> \o <<>> = <<>> /\ DOMAIN <<>> = {}
  BY EmptySeq
<1>1. TypeOK
  <2>1. Len(jobs) <= QueueSize /\ Len(wEvent) <= 1
    BY <1>0, QueueSizePositive
  <2>2. \A i, j \in DOMAIN observers : observers[i] = observers[j] => i = j
    BY <1>0
  <2>3. dropped \in Nat /\ promised \in Nat
    OBVIOUS
  <2> QED BY <1>0, <2>1, <2>2, <2>3 DEF TypeOK
<1>2. ListInv
  BY NamedEmpty DEF ListInv
<1>3. WorkerInv
  BY DEF WorkerInv, Delivering
<1>4. QueueInv
  <2>1. {e \in Events : outcome[e] # "idle"} = {}
    OBVIOUS
  <2>2. IsFiniteSet({}) /\ Cardinality({}) = 0
    BY FS_EmptySet
  <2>3. dropped + Len(accepted) = 0
    BY <1>0
  <2>4. accepted = delivered \o wEvent \o jobs
    BY <1>0, Zenon
  <2> QED BY <2>1, <2>2, <2>3, <2>4, Zenon DEF QueueInv, Accounts
<1>5. CloseInv
  <2>1. promised <= Len(accepted)
    BY <1>0
  <2> QED BY <2>1 DEF CloseInv, StopKeepsTheQueue, WorkerDone
<1>6. GapInv
  <2>1. Once(wList) /\ Len(delivered) = 0
    BY <1>0 DEF Once
  <2>2. SubSeq(delivered, 0 + 1, Len(delivered)) = <<>>
    BY <2>1, SubSeqEmpty
  <2>3. \A o \in Observers : FreeOfGaps(o, 0)
    BY <2>2 DEF FreeOfGaps, Since
  <2>4. 0 \in 0..Len(delivered)
    BY <2>1
  <2> QED BY <2>1, <2>3, <2>4 DEF GapInv
<1> QED BY <1>1, <1>2, <1>3, <1>4, <1>5, <1>6 DEF IInv

\* In every reachable state of the publisher the six parts of the inductive
\* invariant hold together.
THEOREM PublisherInvariant == Spec => []IInv
<1>1. IInv /\ [Next]_vars => IInv'
  BY TypesInductive, ListsInductive, WorkerInductive, QueueInductive, ClosesInductive,
     GapsInductive DEF IInv
<1> QED BY InitiallyIInv, <1>1, PTL DEF Spec

\* The types of the publisher's state: the queue is never longer than its size
\* and concurrent registrations put no observer in the list twice.
THEOREM PublisherTypes == Spec => []TypeOK
<1>1. IInv => TypeOK
  BY DEF IInv
<1> QED BY <1>1, PublisherInvariant, PTL

\* Between Notify and the observers no event is lost without being counted,
\* doubled or overtaken, and those the worker leaves behind were published after
\* stop was closed, unless a Close gave up waiting for it.
THEOREM EventsLostOnlyAfterStop == Spec => []LostOnlyAfterStop
<1>1. ASSUME IInv PROVE LostOnlyAfterStop
  <2>1. Accounts
    BY <1>1 DEF IInv, QueueInv
  <2>2. WorkerDone => Len(delivered) >= promised
    BY <1>1 DEF IInv, CloseInv, StopKeepsTheQueue
  <2>3. exited => WorkerDone \/ \E c \in Closers : late[c]
    BY <1>1 DEF IInv, CloseInv
  <2> QED BY <2>1, <2>2, <2>3 DEF LostOnlyAfterStop, Accounts
<1>2. IInv => LostOnlyAfterStop
  BY <1>1
<1> QED BY <1>2, PublisherInvariant, PTL

\* However many Registers run at once, an observer whose Register returned is
\* in the list from then on.
THEOREM NoRegistrationIsLost == Spec => []RegisteredStays
<1>1. IInv => RegisteredStays
  BY DEF IInv, ListInv, Named, RegisteredStays
<1> QED BY <1>1, PublisherInvariant, PTL

\* A worker that returned has delivered what was queued before stop was closed.
THEOREM NoQueuedEventIsGivenUp == Spec => []StopKeepsTheQueue
<1>1. IInv => StopKeepsTheQueue
  BY DEF IInv, CloseInv
<1> QED BY <1>1, PublisherInvariant, PTL

\* After a Close that did not time out every audit file is closed and stays so.
THEOREM NoFileStaysOpen == Spec => []FilesClosed
<1>1. IInv => FilesClosed
  BY NamedEmpty DEF IInv, CloseInv, FilesClosed
<1> QED BY <1>1, PublisherInvariant, PTL

\* Whatever the other observers do, and whoever registers while events are
\* delivered, an observer gets every event from its first on, in their order.
THEOREM ObserversMissNothing == Spec => []NoGapForAnObserver
<1>1. IInv => NoGapForAnObserver
  BY GapsToProperty DEF IInv
<1> QED BY <1>1, PublisherInvariant, PTL
=============================================================================
